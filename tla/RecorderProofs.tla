--------------------------- MODULE RecorderProofs ---------------------------
(***************************************************************************)
(* Theorems about Recorder, for any number of sessions, futures and frames *)
(* and any delays.                                                         *)
(***************************************************************************)
EXTENDS Recorder, TLAPS

(* Type correctness is inductive once the slot of a thread that is writing  *)
(* is known to hold a frame; and a session that has not connected has no    *)
(* thread.                                                                  *)
SlotOK ==
  \A s \in Session :
    /\ pc[s] \in Writing => slot[s].frame \in Frame
    /\ conn[s] = "new" => pc[s] = "idle"

TypeInv == TypeOK /\ SlotOK

LEMMA NoSlotType == NoSlot \in [num : Nat, frame : Nat]
BY DEF NoSlot

LEMMA TypeInit == Init => TypeInv
<1> SUFFICES ASSUME Init PROVE TypeInv
  OBVIOUS
<1>1. slot \in [Session -> [num : Nat, frame : Nat]]
  BY NoSlotType DEF Init
<1>2. arrived \in 0..MaxFrames /\ epoch \in 0..arrived /\ idle \in 0..IdleStitch
  BY RecorderAssumption, FoldersAssumption
     DEF RecorderAssumption, FoldersAssumption, Init
<1>3. SlotOK
  BY DEF Init, SlotOK, Writing
<1> QED
  BY <1>1, <1>2, <1>3 DEF Init, TypeInv, TypeOK, Writing

(* What the operators on folders do to the type of one.                     *)
LEMMA FolderTypes ==
  ASSUME NEW dir, dir \subseteq File
  PROVE  /\ \A n \in Nat, f \in Frame : Create(dir, n, f) \subseteq File
         /\ \A f \in Frame : Fill(dir, f) \subseteq File
         /\ \A n \in Nat : Without(dir, n) \subseteq File
         /\ Sequence(dir) \subseteq File
         /\ Listed(dir) \subseteq Nat
         /\ Frames(dir) \subseteq Frame
<1>1. \A n \in Nat : Without(dir, n) \subseteq File
  BY DEF Without
<1>2. \A n \in Nat, f \in Frame : Create(dir, n, f) \subseteq File
  <2> SUFFICES ASSUME NEW n \in Nat, NEW f \in Frame
               PROVE Create(dir, n, f) \subseteq File
    OBVIOUS
  <2>1. [num |-> n, frame |-> f, whole |-> FALSE] \in File
    BY DEF File
  <2> QED
    BY <1>1, <2>1 DEF Create
<1>3. \A f \in Frame : Fill(dir, f) \subseteq File
  <2> SUFFICES ASSUME NEW f \in Frame, NEW x \in dir
               PROVE [x EXCEPT !.whole = @ \/ x.frame = f] \in File
    BY DEF Fill
  <2>1. x \in [num : Nat, frame : Frame, whole : BOOLEAN]
    BY DEF File
  <2>2. (x.whole \/ x.frame = f) \in BOOLEAN
    OBVIOUS
  <2> QED
    BY <2>1, <2>2 DEF File
<1>4. Sequence(dir) \subseteq File
  BY DEF Sequence
<1>5. Listed(dir) \subseteq Nat /\ Frames(dir) \subseteq Frame
  BY DEF Listed, Numbers, Frames, File
<1> QED
  BY <1>1, <1>2, <1>3, <1>4, <1>5

LEMMA SequenceFrames ==
  ASSUME NEW dir, dir \subseteq File
  PROVE  Frames(Sequence(dir)) \subseteq Frame
BY DEF Frames, Sequence, File

LEMMA TypeStep == TypeInv /\ [Next]_recorderVars => TypeInv'
<1> SUFFICES ASSUME TypeInv, [Next]_recorderVars PROVE TypeInv'
  OBVIOUS
<1> USE RecorderAssumption, FoldersAssumption
        DEF RecorderAssumption, FoldersAssumption, TypeInv, TypeOK, SlotOK
<1>1. ASSUME NEW s \in Session, Callback(s) PROVE TypeInv'
  <2>1. CASE Establish(s)
    BY <2>1 DEF Establish, folderVars, executorVars, stitchVars, observerVars, Writing
  <2>2. CASE CancelPending(s)
    BY <2>2 DEF CancelPending, folderVars, executorVars, stitchVars, observerVars, Writing
  <2>3. CASE DiscardFrame(s)
    BY <2>3 DEF DiscardFrame, folderVars, executorVars, stitchVars, observerVars, Writing
  <2>4. CASE NumberFrame(s)
    BY <2>4 DEF NumberFrame, folderVars, executorVars, stitchVars, observerVars, Writing, Frame, Mishap
  <2>5. CASE CreateFile(s)
    BY <2>5, FolderTypes DEF CreateFile, folderVars, executorVars, stitchVars, observerVars, Writing
  <2>6. CASE FillFile(s)
    BY <2>6, FolderTypes DEF FillFile, folderVars, executorVars, stitchVars, observerVars, Writing, NoSlot
  <2>7. CASE WriteFails(s)
    BY <2>7 DEF WriteFails, folderVars, executorVars, stitchVars, observerVars, Writing, NoSlot, Mishap
  <2>8. CASE Vanish(s)
    BY <2>8 DEF Vanish, folderVars, executorVars, stitchVars, observerVars, Writing
  <2>9. CASE Close(s)
    BY <2>9 DEF Close, folderVars, executorVars, stitchVars, observerVars, Writing
  <2>10. CASE CloseSchedule(s)
    BY <2>10 DEF CloseSchedule, Schedule, FreeTask, folderVars, stitchVars, observerVars, Writing
  <2> QED
    BY <1>1, <2>1, <2>2, <2>3, <2>4, <2>5, <2>6, <2>7, <2>8, <2>9, <2>10
       DEF Callback
<1>2. CASE StitchOnIdle
  <2>1. CASE IdleBegin
    BY <2>1 DEF IdleBegin, sessionVars, folderVars, stitchVars, observerVars
  <2>2. CASE IdleCheck
    BY <2>2 DEF IdleCheck, sessionVars, folderVars, stitchVars, observerVars
  <2>3. CASE IdleSchedule
    BY <2>3 DEF IdleSchedule, Schedule, FreeTask, sessionVars, folderVars, stitchVars, observerVars
  <2> QED
    BY <1>2, <2>1, <2>2, <2>3 DEF StitchOnIdle
<1>3. CASE StitchAndClean
  <2>1. ASSUME NEW t \in Task, BeginStitch(t) PROVE TypeInv'
    BY <2>1 DEF BeginStitch, sessionVars, folderVars, executorVars, Mishap
  <2>2. CASE ChooseSource
    BY <2>2 DEF ChooseSource, sessionVars, folderVars, executorVars, observerVars
  <2>3. CASE LaunchFfmpeg
    BY <2>3, FolderTypes, SequenceFrames DEF LaunchFfmpeg, sessionVars, folderVars, executorVars, Mishap
  <2>4. CASE StitchFails
    BY <2>4 DEF StitchFails, EndStitch, sessionVars, folderVars, observerVars
  <2>5. CASE FinishVideo
    BY <2>5 DEF FinishVideo, Frames, Listed, Numbers, File, sessionVars, folderVars, executorVars
  <2>6. ASSUME NEW n \in doomed, DeleteRaw(n) \/ DeleteAnnotated(n) PROVE TypeInv'
    BY <2>6 DEF DeleteRaw, DeleteAnnotated, Without, Mishap, sessionVars, executorVars
  <2>7. CASE ListAnnotated
    BY <2>7 DEF ListAnnotated, Listed, Numbers, File, sessionVars, folderVars, executorVars, observerVars
  <2>8. CASE ResetCounter
    BY <2>8 DEF ResetCounter, Straddling, EndStitch, folderVars, Mishap
  <2> QED
    BY <1>3, <2>1, <2>2, <2>3, <2>4, <2>5, <2>6, <2>7, <2>8 DEF StitchAndClean
<1>4. CASE ToggleCamera
  BY <1>4 DEF ToggleCamera, folderVars, executorVars, stitchVars, observerVars
<1>5. CASE Tick
  BY <1>5 DEF Tick, folderVars, stitchVars
<1>6. CASE Restart
  <2>1. slot' \in [Session -> [num : Nat, frame : Nat]]
    BY <1>6, NoSlotType DEF Restart
  <2>2. conn' \in [Session -> {"new", "open", "lost", "closed"}]
    BY <1>6 DEF Restart
  <2>3. epoch' \in 0..arrived' /\ arrived' \in 0..MaxFrames /\ idle' \in 0..IdleStitch
    BY <1>6 DEF Restart
  <2>4. SlotOK'
    BY <1>6 DEF Restart, Writing
  <2> QED
    BY <1>6, <2>1, <2>2, <2>3, <2>4 DEF Restart, folderVars, Writing, Mishap
<1>7. CASE UNCHANGED recorderVars
  BY <1>7 DEF recorderVars, sessionVars, folderVars, executorVars, stitchVars, observerVars
<1> QED
  BY <1>1, <1>2, <1>3, <1>4, <1>5, <1>6, <1>7 DEF Next

(* Every variable of the recorder keeps its type.                           *)
THEOREM TypeCorrect == Spec => []TypeOK
<1>1. TypeInv => TypeOK
  BY DEF TypeInv
<1> QED
  BY TypeInit, TypeStep, <1>1, PTL DEF Spec

-----------------------------------------------------------------------------
(* The inductive invariant behind NoQuietLoss, VideoComplete,               *)
(* NothingStranded and ResetMeansSaved.  Until the first mishap that is not *)
(* a failed write, no thread writes during a stitch, so a stitch works on a *)
(* settled folder: each file of the current session has the number of its   *)
(* frame, counted from 0, and an older file has a number that clearFrames   *)
(* does not match.                                                          *)

SessionFrames == (epoch + 1)..arrived

(* The k-th frame since the counter was reset has number k - 1.             *)
Numbering ==
  /\ arrived = epoch + frameCounter
  /\ \A s \in Session : pc[s] \in Writing =>
       /\ slot[s].frame \in SessionFrames
       /\ slot[s].frame = epoch + slot[s].num + 1
       /\ slot[s].frame \notin stored
  /\ \A r, s \in Session :
       pc[r] \in Writing /\ pc[s] \in Writing /\ r # s
         => slot[r].frame # slot[s].frame

(* A stitch runs only when nothing is being written.                        *)
Settled ==
  /\ phase = "free" <=> running = NoTask
  /\ phase # "free" => \A s \in Session : pc[s] \notin Writing

(* What is in frames/.                                                      *)
RawFiles ==
  /\ \A x \in raw :
       \/ x.frame \in SessionFrames /\ x.frame = epoch + x.num + 1
       \/ x.frame <= epoch /\ NameLimit <= x.num /\ x.num < x.frame
  /\ \A x, y \in raw : x.num = y.num => x = y
  /\ \A x \in raw : x.whole => x.frame \in stored
  /\ \A s \in Session : pc[s] = "created" =>
       \E x \in raw : x.frame = slot[s].frame

(* Every frame of the session that was stored is there.                     *)
Present ==
  \A f \in SessionFrames : f \in stored => \E x \in raw : x.frame = f /\ x.whole

Clearing == {"clearRaw", "clearAnnotated"}

(* The frames of the session that no gap precedes.                          *)
Unbroken == {f \in SessionFrames : (epoch + 1)..f \subseteq stored}

(* What is not in frames/: before it is cleared, nothing that was stored;   *)
(* after, nothing that clearFrames matches.                                 *)
Kept ==
  /\ phase \notin Clearing => Present
  /\ phase = "clearRaw" => Listed(raw) \subseteq doomed
  /\ phase = "clearAnnotated" => Listed(raw) = {}
  /\ \A f \in stored : f <= arrived

(* This much holds whatever is in annotated/ and in the videos.             *)
Orderly == Numbering /\ Settled /\ RawFiles /\ Kept

(* Without a detector, annotated/ is empty and videos are made of frames/.  *)
OneFolder ==
  /\ annotated = {} /\ source = "raw"
  /\ phase = "encode" => reel = Sequence(raw)

(* frames/ is not cleared before what belonged in the video is in one.      *)
Rescued ==
  /\ phase \in Clearing => Unbroken \subseteq saved
  /\ saved \subseteq stored

Undisturbed == Orderly /\ OneFolder /\ Rescued

(* When no write has failed either, no frame is missing,                    *)
Complete ==
  \A f \in SessionFrames :
    f \in stored \/ \E s \in Session : pc[s] \in Writing /\ slot[s].frame = f

(* and all of the earlier sessions is in videos.                            *)
Archived == \A f \in stored : f <= epoch => f \in saved

Lossless == Complete /\ Archived

RecorderInv ==
  /\ mishaps \subseteq {"writeFailed"} => Undisturbed
  /\ mishaps = {} => Lossless

LEMMA RecorderInit == Init => RecorderInv
BY DEF Init, RecorderInv, Undisturbed, Orderly, Numbering, Settled, RawFiles,
       Kept, Present, Clearing, SessionFrames, Writing, OneFolder, Rescued,
       Lossless, Complete, Archived

(* The files of a folder after Fill, and after Create.                      *)
LEMMA FillFiles ==
  ASSUME NEW dir, dir \subseteq File, NEW f \in Frame
  PROVE  /\ \A x \in Fill(dir, f) : \E y \in dir :
              /\ x.num = y.num /\ x.frame = y.frame
              /\ x = [y EXCEPT !.whole = y.whole \/ y.frame = f]
              /\ x.whole => y.whole \/ y.frame = f
         /\ \A y \in dir : \E x \in Fill(dir, f) :
              /\ x.num = y.num /\ x.frame = y.frame
              /\ y.whole \/ y.frame = f => x.whole
<1>1. \A y \in dir : y \in [num : Nat, frame : Frame, whole : BOOLEAN]
  BY DEF File
<1>2. ASSUME NEW y \in dir
      PROVE  LET x == [y EXCEPT !.whole = y.whole \/ y.frame = f]
             IN  /\ x.num = y.num /\ x.frame = y.frame
                 /\ x.whole = (y.whole \/ y.frame = f)
  BY <1>1
<1> QED
  BY <1>2 DEF Fill

LEMMA CreateFiles ==
  ASSUME NEW dir, NEW n, NEW f
  PROVE  /\ \A x \in Create(dir, n, f) :
              \/ x \in dir /\ x.num # n
              \/ x.num = n /\ x.frame = f /\ ~x.whole
         /\ \A x \in dir : x.num # n => x \in Create(dir, n, f)
         /\ \E x \in Create(dir, n, f) : x.frame = f
         /\ \A x, y \in Create(dir, n, f) :
              x.num = n /\ y.num = n => x = y
<1> DEFINE new == [num |-> n, frame |-> f, whole |-> FALSE]
<1>1. new.num = n /\ new.frame = f /\ ~new.whole
  OBVIOUS
<1>2. \A x : x \in Create(dir, n, f) <=> (x \in dir /\ x.num # n) \/ x = new
  BY DEF Create, Without
<1> HIDE DEF new
<1> QED
  BY <1>1, <1>2

(* Steps that touch neither frames/ nor a stitch, and begin no write.       *)
LEMMA Bystander ==
  ASSUME Orderly,
         UNCHANGED <<frameCounter, raw, running, phase, doomed, arrived, epoch,
                     stored>>,
         \A s \in Session : pc'[s] \in Writing =>
           pc[s] \in Writing /\ pc'[s] = pc[s] /\ slot'[s] = slot[s]
  PROVE  Orderly'
<1>1. SessionFrames' = SessionFrames
  BY DEF SessionFrames
<1>2. Numbering'
  BY <1>1 DEF Orderly, Numbering
<1>3. Settled'
  BY DEF Orderly, Settled
<1>4. RawFiles'
  BY <1>1 DEF Orderly, RawFiles, Writing
<1>5. Present <=> Present'
  BY <1>1 DEF Present
<1>6. Kept'
  BY <1>1, <1>5 DEF Orderly, Kept, Listed, Numbers
<1> QED
  BY <1>2, <1>3, <1>4, <1>6 DEF Orderly

(* Each file of the session has the number of its frame.                    *)
Placed == \A x \in raw : x.frame \in SessionFrames => x.frame = epoch + x.num + 1

(* A folder where they have is read to the first gap.                       *)
LEMMA WholeStart ==
  ASSUME TypeInv, Placed, Present, NEW f \in Unbroken
  PROVE  \E x \in Sequence(raw) : x.frame = f /\ x.whole
<1> USE DEF TypeInv, TypeOK, SessionFrames, Unbroken
<1>1. \A g \in (epoch + 1)..f : \E x \in raw :
         x.frame = g /\ x.whole /\ x.num = g - epoch - 1
  <2> SUFFICES ASSUME NEW g \in (epoch + 1)..f
               PROVE \E x \in raw : x.frame = g /\ x.whole /\ x.num = g - epoch - 1
    OBVIOUS
  <2>1. g \in SessionFrames /\ g \in stored
    OBVIOUS
  <2>2. PICK x \in raw : x.frame = g /\ x.whole
    BY <2>1 DEF Present
  <2>3. x.num \in Nat /\ epoch \in Nat /\ g \in Nat /\ g > epoch
    BY <2>1 DEF File
  <2>4. x.frame = epoch + x.num + 1
    BY <2>1, <2>2 DEF Placed, SessionFrames
  <2> QED
    BY <2>2, <2>3, <2>4
<1>2. PICK x \in raw : x.frame = f /\ x.whole /\ x.num = f - epoch - 1
  BY <1>1
<1>3. x.num \in Nat /\ epoch \in Nat /\ arrived \in Nat /\ f \in Nat
  BY DEF File
<1>4. ASSUME NEW m \in 0..x.num PROVE m \in Numbers(raw)
  <2>1. epoch + m + 1 \in (epoch + 1)..f
    BY <1>2, <1>3
  <2>2. PICK y \in raw : y.num = (epoch + m + 1) - epoch - 1
    BY <1>1, <2>1
  <2> QED
    BY <2>2, <1>3 DEF Numbers
<1>5. 0 \in 0..(StartRange - 1) /\ 0 <= x.num /\ 0 \in 0..x.num
  BY <1>3, FoldersAssumption DEF FoldersAssumption
<1>6. x \in Sequence(raw)
  <2>1. \A n \in 0..(0 - 1) : n \notin Numbers(raw)
    OBVIOUS
  <2> QED
    BY <1>4, <1>5, <2>1 DEF Sequence
<1> QED
  BY <1>2, <1>6

(* A settled folder is read to its end.                                     *)
LEMMA WholeSession ==
  ASSUME TypeInv, Orderly, phase \notin Clearing, NEW f \in Unbroken
  PROVE  \E x \in Sequence(raw) : x.frame = f /\ x.whole
<1>1. \A x \in raw : x.frame \in SessionFrames => ~(x.frame <= epoch)
  BY DEF SessionFrames, TypeInv, TypeOK
<1>2. Placed
  BY <1>1 DEF Orderly, RawFiles, Placed
<1> QED
  BY <1>2, WholeStart DEF Orderly, Kept

LEMMA MishapsGrow == [Next]_recorderVars => mishaps \subseteq mishaps'
BY DEF Next, Callback, StitchOnIdle, StitchAndClean, recorderVars,
       observerVars, Establish, CancelPending, DiscardFrame, NumberFrame,
       CreateFile, FillFile, WriteFails, Vanish, Close, CloseSchedule,
       IdleBegin, IdleCheck, IdleSchedule, BeginStitch, ChooseSource,
       LaunchFfmpeg, StitchFails, FinishVideo, DeleteRaw, ListAnnotated,
       DeleteAnnotated, ResetCounter, ToggleCamera, Tick, Restart

LEMMA IntervalGrows ==
  ASSUME NEW a \in Nat, NEW e \in Nat, e <= a
  PROVE  (e + 1)..(a + 1) = ((e + 1)..a) \union {a + 1}
OBVIOUS

(* The next frame gets the next number, and no other thread has it.         *)
LEMMA NumberFrameCounts ==
  ASSUME TypeInv, Numbering, \A f \in stored : f <= arrived,
         NEW s \in Session, NumberFrame(s)
  PROVE  Numbering'
<1> USE DEF TypeInv, TypeOK, SlotOK
<1>1. /\ arrived' = arrived + 1 /\ frameCounter' = frameCounter + 1
      /\ slot' = [slot EXCEPT ![s] = [num |-> frameCounter, frame |-> arrived + 1]]
      /\ pc' = [pc EXCEPT ![s] = "numbered"] /\ pc[s] = "idle"
      /\ UNCHANGED <<epoch, stored>>
  BY DEF NumberFrame
<1>2. arrived \in Nat /\ epoch \in Nat /\ epoch <= arrived
  OBVIOUS
<1>3. SessionFrames' = SessionFrames \union {arrived + 1}
  BY <1>1, <1>2, IntervalGrows DEF SessionFrames
<1>4. \A r \in Session \ {s} : pc'[r] = pc[r] /\ slot'[r] = slot[r]
  BY <1>1
<1>5. /\ slot'[s].num = frameCounter /\ slot'[s].frame = arrived + 1
      /\ pc'[s] = "numbered"
  BY <1>1
<1>6. \A f \in SessionFrames : f <= arrived
  BY <1>2 DEF SessionFrames
<1>7. arrived + 1 \notin stored
  BY <1>2
<1>8. arrived' = epoch' + frameCounter'
  BY <1>1, <1>2 DEF Numbering
<1>9. ASSUME NEW r \in Session, pc'[r] \in Writing
      PROVE  /\ slot'[r].frame \in SessionFrames'
             /\ slot'[r].frame = epoch' + slot'[r].num + 1
             /\ slot'[r].frame \notin stored'
  <2>1. CASE r = s
    BY <2>1, <1>1, <1>2, <1>3, <1>5, <1>7 DEF Numbering
  <2>2. CASE r # s
    BY <2>2, <1>9, <1>1, <1>3, <1>4 DEF Numbering
  <2> QED
    BY <2>1, <2>2
<1>10. ASSUME NEW q \in Session, NEW r \in Session,
             pc'[q] \in Writing, pc'[r] \in Writing, q # r
      PROVE  slot'[q].frame # slot'[r].frame
  <2>1. \A t \in Session \ {s} :
          pc'[t] \in Writing => slot'[t].frame \in SessionFrames
    BY <1>4 DEF Numbering
  <2>2. arrived + 1 \notin SessionFrames
    BY <1>2, <1>6
  <2>3. CASE q # s /\ r # s
    BY <2>3, <1>10, <1>4 DEF Numbering
  <2>4. CASE q = s \/ r = s
    BY <2>1, <2>2, <2>4, <1>10, <1>5
  <2> QED
    BY <2>3, <2>4
<1> QED
  BY <1>8, <1>9, <1>10 DEF Numbering

LEMMA NumberFrameKeeps ==
  ASSUME TypeInv, Orderly, NEW s \in Session, NumberFrame(s),
         mishaps' \subseteq {"writeFailed"}
  PROVE  Orderly'
<1> USE DEF TypeInv, TypeOK, SlotOK
<1>1. phase = "free"
  BY DEF NumberFrame
<1>2. /\ arrived' = arrived + 1 /\ frameCounter' = frameCounter + 1
      /\ slot' = [slot EXCEPT ![s] = [num |-> frameCounter, frame |-> arrived + 1]]
      /\ pc' = [pc EXCEPT ![s] = "numbered"] /\ pc[s] = "idle"
      /\ UNCHANGED <<raw, running, phase, doomed, epoch, stored>>
  BY DEF NumberFrame, folderVars, stitchVars
<1>3. arrived \in Nat /\ epoch \in Nat /\ epoch <= arrived
  OBVIOUS
<1>4. SessionFrames' = SessionFrames \union {arrived + 1}
  BY <1>2, <1>3, IntervalGrows DEF SessionFrames
<1>5. \A r \in Session \ {s} : pc'[r] = pc[r] /\ slot'[r] = slot[r]
  BY <1>2
<1>6. /\ slot'[s].num = frameCounter /\ slot'[s].frame = arrived + 1
      /\ pc'[s] = "numbered"
  BY <1>2
<1>7. \A f \in SessionFrames : f <= arrived
  BY <1>3 DEF SessionFrames
<1>8. Numbering'
  BY NumberFrameCounts DEF Orderly, Kept
<1>9. Settled'
  BY <1>1, <1>2 DEF Orderly, Settled
<1>10. RawFiles'
  BY <1>2, <1>4, <1>5, <1>6 DEF Orderly, RawFiles
<1>11. Kept'
  <2>1. \A f \in stored : f <= arrived
    BY DEF Orderly, Kept
  <2>2. arrived + 1 \notin stored
    BY <2>1, <1>3
  <2>3. Present'
    BY <2>2, <1>1, <1>2, <1>4 DEF Orderly, Kept, Present, Clearing
  <2>4. \A f \in stored : f <= arrived'
    BY <2>1, <1>2, <1>3 DEF Frame
  <2> QED
    BY <2>3, <2>4, <1>1, <1>2 DEF Orderly, Kept, Clearing
<1> QED
  BY <1>8, <1>9, <1>10, <1>11 DEF Orderly

LEMMA CreateFileKeeps ==
  ASSUME TypeInv, Orderly, NEW s \in Session, CreateFile(s)
  PROVE  Orderly'
<1> DEFINE n == slot[s].num
           f == slot[s].frame
<1>1. /\ raw' = Create(raw, n, f)
      /\ pc' = [pc EXCEPT ![s] = "created"] /\ pc[s] = "numbered"
      /\ UNCHANGED <<slot, frameCounter, running, phase, doomed, arrived, epoch, stored>>
  BY DEF CreateFile, stitchVars, observerVars
<1>2. /\ pc[s] \in Writing /\ f \in SessionFrames /\ f = epoch + n + 1
      /\ n \in Nat /\ epoch \in Nat /\ arrived \in Nat
  BY <1>1 DEF Writing, Orderly, Numbering, TypeInv, TypeOK
<1>3. phase = "free"
  BY <1>2 DEF Orderly, Settled
<1>4. SessionFrames' = SessionFrames
  BY <1>1 DEF SessionFrames
<1>5. \A r \in Session : pc'[r] \in Writing <=> pc[r] \in Writing
  BY <1>1 DEF Writing
<1>6. /\ \A x \in raw' :
           \/ x \in raw /\ x.num # n
           \/ x.num = n /\ x.frame = f /\ ~x.whole
      /\ \A x \in raw : x.num # n => x \in raw'
      /\ \E x \in raw' : x.frame = f
      /\ \A x, y \in raw' : x.num = n /\ y.num = n => x = y
  <2> HIDE DEF n, f
  <2> QED
    BY <1>1, CreateFiles
<1> USE DEF TypeInv, TypeOK, SlotOK
<1>7. \A x \in raw : x.num \in Nat /\ x.frame \in Nat
  BY DEF File, Frame
<1>8. \A g \in SessionFrames, x \in raw : x.frame = g => g = epoch + x.num + 1
  BY <1>2, <1>7 DEF SessionFrames, Orderly, RawFiles
<1>9. \A g \in SessionFrames, x \in raw : x.frame = g /\ g # f => x \in raw'
  BY <1>2, <1>6, <1>8
<1>10. Numbering'
  BY <1>1, <1>4, <1>5 DEF Orderly, Numbering
<1>11. Settled'
  BY <1>1, <1>3 DEF Orderly, Settled
<1>12. RawFiles'
  <2>1. \A x \in raw' :
          \/ x.frame \in SessionFrames' /\ x.frame = epoch' + x.num + 1
          \/ x.frame <= epoch' /\ NameLimit <= x.num /\ x.num < x.frame
    BY <1>1, <1>2, <1>4, <1>6 DEF Orderly, RawFiles
  <2>2. \A x, y \in raw' : x.num = y.num => x = y
    BY <1>6 DEF Orderly, RawFiles
  <2>3. ASSUME NEW r \in Session, pc'[r] = "created"
        PROVE  \E x \in raw' : x.frame = slot'[r].frame
    <3>1. CASE r = s
      BY <3>1, <1>1, <1>6
    <3>2. CASE r # s
      <4>1. pc[r] = "created" /\ pc[r] \in Writing
        BY <2>3, <3>2, <1>1 DEF Writing
      <4>2. slot[r].frame \in SessionFrames /\ slot[r].frame # f
        BY <3>2, <4>1, <1>2 DEF Orderly, Numbering
      <4> QED
        BY <4>1, <4>2, <1>1, <1>9 DEF Orderly, RawFiles
    <3> QED
      BY <3>1, <3>2
  <2>4. \A x \in raw' : x.whole => x.frame \in stored'
    BY <1>1, <1>6 DEF Orderly, RawFiles
  <2> QED
    BY <2>1, <2>2, <2>3, <2>4 DEF RawFiles
<1>13. Kept'
  <2>1. f \notin stored
    BY <1>2 DEF Orderly, Numbering
  <2>2. Present'
    BY <2>1, <1>1, <1>3, <1>4, <1>9 DEF Orderly, Kept, Present, Clearing
  <2> QED
    BY <2>2, <1>1, <1>3 DEF Orderly, Kept, Clearing
<1> QED
  BY <1>10, <1>11, <1>12, <1>13 DEF Orderly

LEMMA FillFileCounts ==
  ASSUME TypeInv, Numbering, NEW s \in Session, FillFile(s)
  PROVE  Numbering'
<1> DEFINE f == slot[s].frame
<1> USE DEF TypeInv, TypeOK
<1>1. /\ pc' = [pc EXCEPT ![s] = "idle"] /\ pc[s] = "created"
      /\ slot' = [slot EXCEPT ![s] = NoSlot]
      /\ stored' = stored \union {f}
      /\ UNCHANGED <<frameCounter, arrived, epoch>>
  BY DEF FillFile
<1>2. pc[s] \in Writing
  BY <1>1 DEF Writing
<1>3. \A r \in Session : pc'[r] \in Writing =>
        r # s /\ pc[r] \in Writing /\ pc'[r] = pc[r] /\ slot'[r] = slot[r]
  BY <1>1 DEF Writing
<1>4. ASSUME NEW r \in Session, pc'[r] \in Writing
      PROVE  slot'[r].frame \notin stored'
  <2>1. slot[r].frame \notin stored /\ slot[r].frame # f
    BY <1>2, <1>3, <1>4 DEF Numbering
  <2> QED
    BY <2>1, <1>1, <1>3, <1>4
<1>5. SessionFrames' = SessionFrames
  BY <1>1 DEF SessionFrames
<1> QED
  BY <1>1, <1>3, <1>4, <1>5 DEF Numbering

LEMMA FillFileKeeps ==
  ASSUME TypeInv, Orderly, NEW s \in Session, FillFile(s)
  PROVE  Orderly'
<1> DEFINE f == slot[s].frame
<1>1. /\ raw' = Fill(raw, f)
      /\ pc' = [pc EXCEPT ![s] = "idle"] /\ pc[s] = "created"
      /\ slot' = [slot EXCEPT ![s] = NoSlot]
      /\ stored' = stored \union {f}
      /\ UNCHANGED <<frameCounter, running, phase, doomed, arrived, epoch>>
  BY DEF FillFile, stitchVars
<1>2. pc[s] \in Writing /\ f \in SessionFrames /\ f \in Frame /\ raw \subseteq File
  BY <1>1 DEF Writing, Orderly, Numbering, TypeInv, TypeOK, SlotOK
<1>3. phase = "free"
  BY <1>2 DEF Orderly, Settled
<1>4. /\ \A x \in raw' : \E y \in raw :
           /\ x.num = y.num /\ x.frame = y.frame
           /\ x = [y EXCEPT !.whole = y.whole \/ y.frame = f]
           /\ x.whole => y.whole \/ y.frame = f
      /\ \A y \in raw : \E x \in raw' :
           /\ x.num = y.num /\ x.frame = y.frame
           /\ y.whole \/ y.frame = f => x.whole
  <2> HIDE DEF f
  <2> QED
    BY <1>1, <1>2, FillFiles
<1> USE DEF TypeInv, TypeOK, SlotOK
<1>5. SessionFrames' = SessionFrames
  BY <1>1 DEF SessionFrames
<1>6. \A r \in Session : pc'[r] \in Writing =>
        r # s /\ pc[r] \in Writing /\ pc'[r] = pc[r] /\ slot'[r] = slot[r]
  BY <1>1 DEF Writing
<1>7. \A r \in Session \ {s} : pc'[r] = pc[r] /\ slot'[r] = slot[r]
  BY <1>1
<1>8. Numbering'
  BY FillFileCounts DEF Orderly
<1>9. Settled'
  BY <1>1, <1>3 DEF Orderly, Settled
<1>10. RawFiles'
  <2>1. \A x \in raw' :
          \/ x.frame \in SessionFrames' /\ x.frame = epoch' + x.num + 1
          \/ x.frame <= epoch' /\ NameLimit <= x.num /\ x.num < x.frame
    BY <1>1, <1>5, <1>4 DEF Orderly, RawFiles
  <2>2. \A x, y \in raw' : x.num = y.num => x = y
    BY <1>4 DEF Orderly, RawFiles
  <2>3. ASSUME NEW r \in Session, pc'[r] = "created"
        PROVE  \E x \in raw' : x.frame = slot'[r].frame
    <3>1. r # s /\ pc[r] = "created" /\ slot'[r] = slot[r]
      BY <2>3, <1>6 DEF Writing
    <3>2. PICK y \in raw : y.frame = slot[r].frame
      BY <3>1 DEF Orderly, RawFiles
    <3> QED
      BY <3>1, <3>2, <1>4
  <2>4. \A x \in raw' : x.whole => x.frame \in stored'
    BY <1>1, <1>4 DEF Orderly, RawFiles
  <2> QED
    BY <2>1, <2>2, <2>3, <2>4 DEF RawFiles
<1>11. Kept'
  <2>1. Present'
    <3> SUFFICES ASSUME NEW g \in SessionFrames, g \in stored \union {f}
                 PROVE \E x \in raw' : x.frame = g /\ x.whole
      BY <1>1, <1>5 DEF Present
    <3>1. CASE g = f
      <4>1. PICK y \in raw : y.frame = f
        BY <1>1 DEF Orderly, RawFiles
      <4> QED
        BY <3>1, <4>1, <1>4
    <3>2. CASE g \in stored
      <4>1. PICK y \in raw : y.frame = g /\ y.whole
        BY <3>2, <1>3 DEF Orderly, Kept, Present, Clearing
      <4> QED
        BY <4>1, <1>4
    <3> QED
      BY <3>1, <3>2
  <2>2. f <= arrived
    BY <1>2 DEF SessionFrames
  <2>3. \A g \in stored' : g <= arrived
    BY <2>2, <1>1 DEF Orderly, Kept
  <2> QED
    BY <2>1, <2>3, <1>1, <1>3 DEF Orderly, Kept, Clearing
<1> QED
  BY <1>8, <1>9, <1>10, <1>11 DEF Orderly

(* Steps of a stitch before its video is made, and the one that ends it     *)
(* without.                                                                 *)
LEMMA StitchStepKeeps ==
  ASSUME TypeInv, Orderly, mishaps' \subseteq {"writeFailed"},
         (\E t \in Task : BeginStitch(t)) \/ ChooseSource \/ LaunchFfmpeg
           \/ StitchFails
  PROVE  Orderly'
<1>1. /\ UNCHANGED <<pc, slot, frameCounter, raw, doomed, arrived, epoch, stored>>
      /\ phase \notin Clearing /\ phase' \notin Clearing
  <2>1. ASSUME NEW t \in Task, BeginStitch(t) PROVE phase = "free"
    BY <2>1 DEF BeginStitch, Orderly, Settled
  <2> QED
    BY <2>1 DEF BeginStitch, ChooseSource, LaunchFfmpeg, StitchFails,
         EndStitch, sessionVars, folderVars, observerVars, Clearing
<1>2. SessionFrames' = SessionFrames
  BY <1>1 DEF SessionFrames
<1>3. Numbering'
  BY <1>1, <1>2 DEF Orderly, Numbering
<1>4. Settled'
  <2>1. phase' # "free" => \A s \in Session : pc[s] \notin Writing
    BY DEF BeginStitch, ChooseSource, LaunchFfmpeg, StitchFails, EndStitch,
           Orderly, Settled
  <2>2. phase' = "free" <=> running' = NoTask
    BY RecorderAssumption
       DEF RecorderAssumption, BeginStitch, ChooseSource, LaunchFfmpeg,
           StitchFails, EndStitch, Orderly, Settled
  <2> QED
    BY <2>1, <2>2, <1>1 DEF Settled
<1>5. RawFiles'
  BY <1>1, <1>2 DEF Orderly, RawFiles
<1>6. Kept'
  <2>1. Present'
    BY <1>1, <1>2 DEF Orderly, Kept, Present
  <2> QED
    BY <2>1, <1>1 DEF Orderly, Kept, Clearing
<1> QED
  BY <1>3, <1>4, <1>5, <1>6 DEF Orderly

LEMMA FinishVideoKeeps ==
  ASSUME TypeInv, Orderly, FinishVideo
  PROVE  Orderly'
<1>1. /\ phase = "encode" /\ phase' = "clearRaw" /\ doomed' = Listed(raw)
      /\ UNCHANGED <<pc, slot, frameCounter, raw, running, arrived, epoch, stored>>
  BY DEF FinishVideo, sessionVars, folderVars
<1>2. \A s \in Session : pc[s] \notin Writing
  BY <1>1 DEF Orderly, Settled
<1>3. SessionFrames' = SessionFrames
  BY <1>1 DEF SessionFrames
<1>4. Numbering' /\ Settled' /\ RawFiles'
  BY <1>1, <1>2, <1>3 DEF Orderly, Numbering, Settled, RawFiles
<1>5. Kept'
  <2>1. Listed(raw') = Listed(raw)
    BY <1>1
  <2> QED
    BY <2>1, <1>1 DEF Orderly, Kept, Clearing
<1> QED
  BY <1>4, <1>5 DEF Orderly

LEMMA ClearStepKeeps ==
  ASSUME TypeInv, Orderly, mishaps' \subseteq {"writeFailed"},
         (\E n \in doomed : DeleteRaw(n) \/ DeleteAnnotated(n))
           \/ ListAnnotated \/ ResetCounter
  PROVE  Orderly'
<1> USE DEF TypeInv, TypeOK
<1>1. phase \in Clearing /\ \A s \in Session : pc[s] \notin Writing
  BY DEF DeleteRaw, DeleteAnnotated, ListAnnotated, ResetCounter, Clearing,
         Orderly, Settled
<1>3. ASSUME NEW n \in doomed, DeleteRaw(n) PROVE Orderly'
  <2>1. /\ phase = "clearRaw" /\ doomed' = doomed \ {n} /\ raw' = Without(raw, n)
        /\ UNCHANGED <<pc, slot, frameCounter, running, phase, arrived, epoch, stored>>
    BY <1>3 DEF DeleteRaw, sessionVars
  <2>2. raw' \subseteq raw /\ Listed(raw') \subseteq doomed'
    BY <2>1 DEF Without, Listed, Numbers, Orderly, Kept
  <2>3. SessionFrames' = SessionFrames
    BY <2>1 DEF SessionFrames
  <2>4. Numbering'
    BY <2>1, <2>3 DEF Orderly, Numbering
  <2>5. Settled'
    BY <2>1 DEF Orderly, Settled
  <2>6. RawFiles'
    BY <1>1, <2>1, <2>2, <2>3 DEF Orderly, RawFiles, Writing
  <2>7. Kept'
    BY <2>1, <2>2, <2>3 DEF Orderly, Kept, Clearing
  <2> QED
    BY <2>4, <2>5, <2>6, <2>7 DEF Orderly
<1>4. ASSUME NEW n \in doomed, DeleteAnnotated(n) PROVE Orderly'
  <2>1. /\ phase = "clearAnnotated"
        /\ UNCHANGED <<pc, slot, frameCounter, raw, running, phase, arrived, epoch, stored>>
    BY <1>4 DEF DeleteAnnotated, sessionVars
  <2>2. /\ SessionFrames' = SessionFrames
        /\ Listed(raw') = Listed(raw)
    BY <2>1 DEF SessionFrames
  <2>3. Numbering' /\ RawFiles'
    BY <2>1, <2>2 DEF Orderly, Numbering, RawFiles
  <2>4. Settled'
    BY <2>1 DEF Orderly, Settled
  <2>5. Kept'
    BY <2>1, <2>2 DEF Orderly, Kept, Clearing
  <2> QED
    BY <2>3, <2>4, <2>5 DEF Orderly
<1>5. CASE ListAnnotated
  <2>1. /\ phase = "clearRaw" /\ doomed = {} /\ phase' = "clearAnnotated"
        /\ UNCHANGED <<pc, slot, frameCounter, raw, running, arrived, epoch, stored>>
    BY <1>5 DEF ListAnnotated, sessionVars, folderVars, observerVars
  <2>2. /\ SessionFrames' = SessionFrames
        /\ Listed(raw') = Listed(raw)
    BY <2>1 DEF SessionFrames
  <2>3. Numbering' /\ RawFiles'
    BY <2>1, <2>2 DEF Orderly, Numbering, RawFiles
  <2>4. Settled'
    BY <2>1, <1>1 DEF Orderly, Settled
  <2>5. Kept'
    BY <2>1, <2>2 DEF Orderly, Kept, Clearing
  <2> QED
    BY <2>3, <2>4, <2>5 DEF Orderly
<1>6. CASE ResetCounter
  <2>1. /\ phase = "clearAnnotated" /\ phase' = "free" /\ running' = NoTask
        /\ frameCounter' = 0 /\ epoch' = arrived
        /\ UNCHANGED <<pc, slot, raw, arrived, stored>>
    BY <1>6 DEF ResetCounter, EndStitch, folderVars
  <2>2. arrived \in Nat /\ epoch \in Nat /\ epoch <= arrived
    OBVIOUS
  <2>3. SessionFrames' = {}
    BY <2>1, <2>2 DEF SessionFrames
  <2>4. Numbering'
    BY <2>1, <2>2, <1>1 DEF Numbering
  <2>5. Settled'
    BY <2>1 DEF Orderly, Settled
  <2>6. RawFiles'
    <3>1. ASSUME NEW x \in raw
          PROVE  x.frame <= arrived /\ NameLimit <= x.num /\ x.num < x.frame
      <4>1. x.num \in Nat /\ x.frame \in Nat
        BY DEF File, Frame
      <4>2. NameLimit <= x.num
        <5>1. Listed(raw) = {} /\ x.num \in Numbers(raw)
          BY <2>1 DEF Orderly, Kept, Numbers
        <5>2. ~(x.num < NameLimit)
          BY <5>1 DEF Listed
        <5> QED
          BY <5>2, <4>1, FoldersAssumption DEF FoldersAssumption
      <4> QED
        BY <4>1, <4>2, <2>2 DEF Orderly, RawFiles, SessionFrames
    <3> QED
      BY <3>1, <2>1, <1>1 DEF Orderly, RawFiles, Writing
  <2>7. Kept'
    <3>1. Present'
      BY <2>3 DEF Present
    <3> QED
      BY <3>1, <2>1 DEF Orderly, Kept, Clearing
  <2> QED
    BY <2>4, <2>5, <2>6, <2>7 DEF Orderly
<1> QED
  BY <1>3, <1>4, <1>5, <1>6

LEMMA OrderlyStep ==
  ASSUME TypeInv, Orderly, Next, mishaps' \subseteq {"writeFailed"}
  PROVE  Orderly'
<1>1. ASSUME NEW s \in Session, Callback(s) PROVE Orderly'
  <2>1. CASE Establish(s) \/ CancelPending(s) \/ DiscardFrame(s) \/ Vanish(s)
               \/ Close(s) \/ CloseSchedule(s) \/ WriteFails(s)
    <3>1. UNCHANGED <<frameCounter, raw, running, phase, doomed, arrived, epoch,
                      stored>>
      BY <2>1 DEF Establish, CancelPending, DiscardFrame, Vanish, Close,
         CloseSchedule, WriteFails, folderVars, stitchVars, observerVars
    <3>2. \A r \in Session : pc'[r] \in Writing =>
             pc[r] \in Writing /\ pc'[r] = pc[r] /\ slot'[r] = slot[r]
      <4>1. /\ \/ pc' = pc
               \/ \E place \in {"idle", "cancelling", "closing"} :
                    pc' = [pc EXCEPT ![s] = place]
            /\ slot' = slot \/ (slot' = [slot EXCEPT ![s] = NoSlot]
                                /\ pc' = [pc EXCEPT ![s] = "idle"])
        BY <2>1 DEF Establish, CancelPending, DiscardFrame, Vanish, Close,
           CloseSchedule, WriteFails
      <4> QED
        BY <4>1 DEF TypeInv, TypeOK, Writing
    <3> QED
      BY <3>1, <3>2, Bystander
  <2>2. CASE NumberFrame(s)
    BY <2>2, NumberFrameKeeps
  <2>3. CASE CreateFile(s)
    BY <2>3, CreateFileKeeps
  <2>4. CASE FillFile(s)
    BY <2>4, FillFileKeeps
  <2> QED
    BY <1>1, <2>1, <2>2, <2>3, <2>4 DEF Callback
<1>2. CASE StitchOnIdle \/ ToggleCamera \/ Tick
  <2>1. UNCHANGED <<pc, slot, frameCounter, raw, running, phase, doomed,
                    arrived, epoch, stored>>
    BY <1>2 DEF StitchOnIdle, IdleBegin, IdleCheck, IdleSchedule, ToggleCamera,
       Tick, sessionVars, folderVars, stitchVars, observerVars
  <2> QED
    BY <2>1, Bystander
<1>3. CASE StitchAndClean
  BY <1>3, StitchStepKeeps, FinishVideoKeeps, ClearStepKeeps
     DEF StitchAndClean
<1>4. CASE Restart
  BY <1>4 DEF Restart
<1> QED
  BY <1>1, <1>2, <1>3, <1>4 DEF Next

(* Without a writer, every frame of a session that lost none was stored.    *)
LEMMA AllUnbroken ==
  ASSUME TypeInv, Complete, \A s \in Session : pc[s] \notin Writing
  PROVE  SessionFrames \subseteq stored /\ Unbroken = SessionFrames
<1>1. SessionFrames \subseteq stored
  BY DEF Complete
<1>2. \A f \in SessionFrames : (epoch + 1)..f \subseteq SessionFrames
  BY DEF SessionFrames, TypeInv, TypeOK
<1> QED
  BY <1>1, <1>2 DEF Unbroken

(* What only some steps change.                                             *)
LEMMA FramesStay ==
  ASSUME Next, ~ResetCounter, ~Restart,
         \A s \in Session : ~NumberFrame(s) /\ ~FillFile(s)
  PROVE  UNCHANGED <<arrived, epoch, stored>>
BY DEF Next, Callback, StitchOnIdle, StitchAndClean, Establish, CancelPending,
   DiscardFrame, CreateFile, WriteFails, Vanish, Close, CloseSchedule,
   IdleBegin, IdleCheck, IdleSchedule, BeginStitch, ChooseSource,
   LaunchFfmpeg, StitchFails, FinishVideo, DeleteRaw, ListAnnotated,
   DeleteAnnotated, ToggleCamera, Tick, observerVars

LEMMA SavedStays ==
  ASSUME Next, ~FinishVideo, "sameName" \notin mishaps'
  PROVE  saved' = saved
BY DEF Next, Callback, StitchOnIdle, StitchAndClean, Establish, CancelPending,
   DiscardFrame, NumberFrame, CreateFile, FillFile, WriteFails, Vanish, Close,
   CloseSchedule, IdleBegin, IdleCheck, IdleSchedule, BeginStitch,
   ChooseSource, LaunchFfmpeg, StitchFails, DeleteRaw, ListAnnotated,
   DeleteAnnotated, ResetCounter, ToggleCamera, Tick, Restart, observerVars

(* While the folders are being cleared, nothing is numbered or written.     *)
LEMMA ClearingStays ==
  ASSUME Orderly, Next, ~FinishVideo, mishaps' \subseteq {"writeFailed"},
         phase' \in Clearing
  PROVE  /\ phase \in Clearing
         /\ UNCHANGED <<arrived, epoch, stored>>
         /\ SessionFrames' = SessionFrames
<1>1. phase \in Clearing
  BY DEF Next, Callback, StitchOnIdle, StitchAndClean, Establish, CancelPending,
     DiscardFrame, NumberFrame, CreateFile, FillFile, WriteFails, Vanish, Close,
     CloseSchedule, IdleBegin, IdleCheck, IdleSchedule, BeginStitch,
     ChooseSource, LaunchFfmpeg, StitchFails, DeleteRaw, ListAnnotated,
     DeleteAnnotated, ResetCounter, ToggleCamera, Tick, Restart, stitchVars,
     EndStitch, Clearing
<1>2. ~ResetCounter /\ ~Restart
  BY DEF ResetCounter, EndStitch, Restart, Clearing
<1>3. \A s \in Session : ~NumberFrame(s) /\ ~FillFile(s)
  BY <1>1 DEF NumberFrame, FillFile, Orderly, Settled, Writing, Clearing
<1>4. UNCHANGED <<arrived, epoch, stored>>
  BY <1>2, <1>3, FramesStay
<1> QED
  BY <1>1, <1>4 DEF SessionFrames

LEMMA CompleteStep ==
  ASSUME TypeInv, Orderly, Complete, Next, mishaps' = {}
  PROVE  Complete'
<1> USE DEF TypeInv, TypeOK
<1>1. ASSUME NEW s \in Session, NumberFrame(s) PROVE Complete'
  <2>1. /\ arrived' = arrived + 1 /\ pc[s] = "idle"
        /\ slot' = [slot EXCEPT ![s] = [num |-> frameCounter, frame |-> arrived + 1]]
        /\ pc' = [pc EXCEPT ![s] = "numbered"]
        /\ UNCHANGED <<epoch, stored>>
    BY <1>1 DEF NumberFrame
  <2>2. SessionFrames' = SessionFrames \union {arrived + 1}
    BY <2>1, IntervalGrows DEF SessionFrames
  <2>3. pc'[s] \in Writing /\ slot'[s].frame = arrived + 1
    BY <2>1 DEF Writing
  <2>4. \A r \in Session : pc[r] \in Writing =>
          pc'[r] = pc[r] /\ slot'[r] = slot[r]
    BY <2>1 DEF Writing
  <2> QED
    BY <2>1, <2>2, <2>3, <2>4 DEF Complete
<1>2. ASSUME NEW s \in Session, FillFile(s) PROVE Complete'
  <2>1. /\ pc' = [pc EXCEPT ![s] = "idle"] /\ pc[s] = "created"
        /\ slot' = [slot EXCEPT ![s] = NoSlot]
        /\ stored' = stored \union {slot[s].frame}
        /\ UNCHANGED <<arrived, epoch>>
    BY <1>2 DEF FillFile
  <2>2. SessionFrames' = SessionFrames
    BY <2>1 DEF SessionFrames
  <2>3. \A r \in Session : pc[r] \in Writing =>
          r = s \/ (pc'[r] = pc[r] /\ slot'[r] = slot[r])
    BY <2>1
  <2> QED
    BY <2>1, <2>2, <2>3 DEF Complete
<1>3. CASE ResetCounter
  BY <1>3 DEF ResetCounter, SessionFrames, Complete
<1>4. CASE ~ResetCounter /\ \A s \in Session : ~NumberFrame(s) /\ ~FillFile(s)
  <2>1. UNCHANGED <<arrived, epoch, stored>>
    BY <1>4, FramesStay DEF Restart
  <2>2. SessionFrames' = SessionFrames
    BY <2>1 DEF SessionFrames
  <2>3. \A r \in Session : pc[r] \in Writing =>
          pc'[r] \in Writing /\ slot'[r] = slot[r]
    <3>1. CASE \E s \in Session : Callback(s)
      <4> PICK s \in Session : Callback(s)
        BY <3>1
      <4>1. /\ slot' = slot
            /\ \/ pc' = pc
               \/ pc[s] = "numbered" /\ pc' = [pc EXCEPT ![s] = "created"]
               \/ /\ pc[s] \notin Writing
                  /\ \E place \in {"idle", "cancelling", "closing"} :
                       pc' = [pc EXCEPT ![s] = place]
        BY <1>4 DEF Callback, Establish, CancelPending, DiscardFrame, CreateFile,
           WriteFails, Vanish, Close, CloseSchedule, SlotOK, Writing
      <4> QED
        BY <4>1 DEF Writing
    <3>2. CASE StitchOnIdle \/ StitchAndClean \/ ToggleCamera \/ Tick
      <4>1. UNCHANGED <<pc, slot>>
        BY <3>2, <1>4 DEF StitchOnIdle, StitchAndClean, IdleBegin, IdleCheck,
           IdleSchedule, BeginStitch, ChooseSource, LaunchFfmpeg, StitchFails,
           FinishVideo, DeleteRaw, ListAnnotated, DeleteAnnotated, ToggleCamera,
           Tick, sessionVars
      <4> QED
        BY <4>1
    <3>3. CASE Restart
      BY <3>3 DEF Restart
    <3> QED
      BY <3>1, <3>2, <3>3 DEF Next
  <2> QED
    BY <2>1, <2>2, <2>3 DEF Complete
<1> QED
  BY <1>1, <1>2, <1>3, <1>4

(* A session that has been cleared was in a video.                          *)
LEMMA ArchivedStep ==
  ASSUME TypeInv, Orderly, Archived, Next, mishaps' = {},
         phase = "clearAnnotated" => SessionFrames \subseteq saved
  PROVE  Archived'
<1> USE DEF TypeInv, TypeOK
<1>1. saved \subseteq saved'
  BY SavedStays DEF FinishVideo
<1>2. ASSUME NEW s \in Session, FillFile(s) PROVE Archived'
  <2>1. stored' = stored \union {slot[s].frame} /\ epoch' = epoch
    BY <1>2 DEF FillFile
  <2>2. slot[s].frame \in SessionFrames
    BY <1>2 DEF FillFile, Orderly, Numbering, Writing
  <2>3. ~(slot[s].frame <= epoch)
    BY <2>2 DEF SessionFrames
  <2> QED
    BY <2>1, <2>3, <1>1 DEF Archived
<1>3. CASE ResetCounter
  <2>1. epoch' = arrived /\ stored' = stored
    BY <1>3 DEF ResetCounter
  <2>2. SessionFrames \subseteq saved
    BY <1>3 DEF ResetCounter
  <2>3. ASSUME NEW f \in stored PROVE f \in saved
    <3>1. f \in Nat /\ f <= arrived /\ (f <= epoch => f \in saved)
      BY DEF Orderly, Kept, Frame, Archived
    <3>2. f > epoch => f \in SessionFrames
      BY <3>1 DEF SessionFrames
    <3> QED
      BY <3>1, <3>2, <2>2
  <2> QED
    BY <2>1, <2>3, <1>1 DEF Archived
<1>4. ASSUME NEW s \in Session, NumberFrame(s) PROVE Archived'
  BY <1>1, <1>4 DEF NumberFrame, Archived
<1>5. CASE ~ResetCounter /\ \A s \in Session : ~NumberFrame(s) /\ ~FillFile(s)
  <2>1. UNCHANGED <<arrived, epoch, stored>>
    BY <1>5, FramesStay DEF Restart
  <2> QED
    BY <2>1, <1>1 DEF Archived
<1> QED
  BY <1>2, <1>3, <1>4, <1>5

LEMMA OneFolderStep ==
  ASSUME TypeInv, Orderly, OneFolder, Next, mishaps' \subseteq {"writeFailed"}
  PROVE  OneFolder'
<1>1. ASSUME NEW s \in Session, Callback(s) PROVE OneFolder'
  <2>1. UNCHANGED <<annotated, source, reel, phase>>
    BY <1>1 DEF Callback, Establish, CancelPending, DiscardFrame, NumberFrame,
       CreateFile, FillFile, WriteFails, Vanish, Close, CloseSchedule,
       folderVars, stitchVars
  <2>2. phase # "free" => raw' = raw
    BY <1>1 DEF Callback, Establish, CancelPending, DiscardFrame, NumberFrame,
       CreateFile, FillFile, WriteFails, Vanish, Close, CloseSchedule,
       folderVars, Orderly, Settled, Writing
  <2>3. phase = "encode" => Sequence(raw') = Sequence(raw)
    BY <2>2
  <2> QED
    BY <2>1, <2>3 DEF OneFolder
<1>2. CASE StitchOnIdle \/ ToggleCamera \/ Tick
  <2>1. UNCHANGED <<raw, annotated, source, reel, phase>>
    BY <1>2 DEF StitchOnIdle, IdleBegin, IdleCheck, IdleSchedule, ToggleCamera,
       Tick, folderVars, stitchVars
  <2> QED
    BY <2>1 DEF OneFolder
<1>3. CASE StitchAndClean
  <2>1. annotated' = {}
    BY <1>3 DEF StitchAndClean, BeginStitch, ChooseSource, LaunchFfmpeg,
       StitchFails, FinishVideo, DeleteRaw, ListAnnotated, DeleteAnnotated,
       ResetCounter, folderVars, OneFolder, Without
  <2>2. source' = "raw"
    BY <1>3 DEF StitchAndClean, BeginStitch, ChooseSource, LaunchFfmpeg,
       StitchFails, FinishVideo, DeleteRaw, ListAnnotated, DeleteAnnotated,
       ResetCounter, EndStitch, OneFolder, Listed, Numbers
  <2>3. phase' = "encode" => LaunchFfmpeg
    BY <1>3 DEF StitchAndClean, BeginStitch, ChooseSource, LaunchFfmpeg,
       StitchFails, FinishVideo, DeleteRaw, ListAnnotated, DeleteAnnotated,
       ResetCounter, EndStitch
  <2>4. LaunchFfmpeg => reel' = Sequence(raw) /\ raw' = raw
    BY DEF LaunchFfmpeg, OneFolder, folderVars
  <2> QED
    BY <2>1, <2>2, <2>3, <2>4 DEF OneFolder
<1>4. CASE Restart
  BY <1>4 DEF Restart
<1> QED
  BY <1>1, <1>2, <1>3, <1>4 DEF Next

LEMMA RescuedStep ==
  ASSUME TypeInv, Undisturbed, Next, mishaps' \subseteq {"writeFailed"}
  PROVE  Rescued'
<1> USE DEF TypeInv, TypeOK
<1>1. CASE FinishVideo
  <2>1. /\ phase = "encode" /\ UNCHANGED <<raw, stored, arrived, epoch>>
        /\ saved' = saved \union Frames({x \in reel : x.whole})
    BY <1>1 DEF FinishVideo, folderVars
  <2>2. reel = Sequence(raw) /\ reel \subseteq raw
    BY <2>1 DEF Undisturbed, OneFolder, Sequence
  <2>3. Unbroken' = Unbroken
    BY <2>1 DEF Unbroken, SessionFrames
  <2>4. Unbroken \subseteq saved'
    BY <2>1, <2>2, WholeSession DEF Undisturbed, Clearing, Frames
  <2>5. saved' \subseteq stored
    BY <2>1, <2>2 DEF Undisturbed, Orderly, RawFiles, Rescued, Frames
  <2> QED
    BY <2>1, <2>3, <2>4, <2>5 DEF Rescued
<1>2. CASE ~FinishVideo
  <2> ~Restart
    BY DEF Restart
  <2>1. saved' = saved /\ stored \subseteq stored'
    BY <1>2, SavedStays, FramesStay DEF ResetCounter, NumberFrame, FillFile
  <2>2. ASSUME phase' \in Clearing PROVE phase \in Clearing /\ Unbroken' = Unbroken
    BY <1>2, <2>2, ClearingStays DEF Unbroken, Undisturbed
  <2> QED
    BY <2>1, <2>2 DEF Undisturbed, Rescued
<1> QED
  BY <1>1, <1>2

LEMMA RecorderInvStep ==
  TypeInv /\ RecorderInv /\ [Next]_recorderVars => RecorderInv'
<1> SUFFICES ASSUME TypeInv, RecorderInv, [Next]_recorderVars
             PROVE  RecorderInv'
  OBVIOUS
<1>1. CASE Next
  <2>1. ASSUME mishaps' \subseteq {"writeFailed"} PROVE Undisturbed'
    <3>1. Undisturbed
      BY <2>1, MishapsGrow DEF RecorderInv
    <3> QED
      BY <1>1, <2>1, <3>1, OrderlyStep, OneFolderStep, RescuedStep
         DEF Undisturbed
  <2>2. ASSUME mishaps' = {} PROVE Lossless'
    <3>1. Undisturbed /\ Lossless
      BY <2>2, MishapsGrow DEF RecorderInv
    <3>2. phase = "clearAnnotated" => SessionFrames \subseteq saved
      BY <3>1, AllUnbroken
         DEF Undisturbed, Orderly, Settled, Rescued, Lossless, Clearing
    <3> QED
      BY <1>1, <2>2, <3>1, <3>2, CompleteStep, ArchivedStep
         DEF Undisturbed, Lossless
  <2> QED
    BY <2>1, <2>2 DEF RecorderInv
<1>2. CASE UNCHANGED recorderVars
  <2>1. Orderly => Orderly'
    BY <1>2, Bystander
       DEF recorderVars, sessionVars, folderVars, stitchVars, observerVars
  <2>2. (OneFolder => OneFolder') /\ (Rescued => Rescued')
    BY <1>2 DEF OneFolder, Rescued, Unbroken, SessionFrames, recorderVars,
       folderVars, stitchVars, observerVars
  <2>3. Lossless => Lossless'
    BY <1>2 DEF Lossless, Complete, Archived, SessionFrames, recorderVars,
       sessionVars, observerVars
  <2> QED
    BY <1>2, <2>1, <2>2, <2>3
       DEF RecorderInv, Undisturbed, recorderVars, observerVars
<1> QED
  BY <1>1, <1>2

LEMMA RecorderInvariant == Spec => [](TypeInv /\ RecorderInv)
<1>1. Init => TypeInv /\ RecorderInv
  BY TypeInit, RecorderInit
<1>2. TypeInv /\ RecorderInv /\ [Next]_recorderVars => (TypeInv /\ RecorderInv)'
  BY TypeStep, RecorderInvStep
<1> QED
  BY <1>1, <1>2, PTL DEF Spec

(* A frame that was written is in frames/ or in a video until a mishap.     *)
THEOREM NothingQuietlyLost == Spec => []NoQuietLoss
<1>1. TypeInv /\ RecorderInv => NoQuietLoss
  <2> SUFFICES ASSUME TypeInv, Undisturbed, Lossless, NEW f \in stored
               PROVE  f \in saved \union Frames(raw)
    BY DEF RecorderInv, NoQuietLoss
  <2> USE DEF TypeInv, TypeOK
  <2>1. f \in Nat /\ epoch \in Nat /\ arrived \in Nat
    BY DEF Frame
  <2>2. f <= arrived /\ (f <= epoch => f \in saved)
    BY DEF Undisturbed, Orderly, Kept, Lossless, Archived
  <2>3. CASE f > epoch
    <3>1. f \in SessionFrames
      BY <2>1, <2>2, <2>3 DEF SessionFrames
    <3>2. CASE phase \in Clearing
      <4>1. f \in Unbroken
        BY <3>1, <3>2, AllUnbroken DEF Lossless, Undisturbed, Orderly, Settled, Clearing
      <4> QED
        BY <4>1, <3>2 DEF Undisturbed, Rescued
    <3>3. CASE phase \notin Clearing
      BY <3>1, <3>3 DEF Undisturbed, Orderly, Kept, Present, Frames
    <3> QED
      BY <3>2, <3>3
  <2> QED
    BY <2>1, <2>2, <2>3
<1> QED
  BY <1>1, RecorderInvariant, PTL

(* The video of a stitch is complete and of its session only, until a       *)
(* mishap.                                                                  *)
THEOREM VideosComplete == Spec => []VideoComplete
<1>1. TypeInv /\ RecorderInv => VideoComplete
  <2> SUFFICES ASSUME TypeInv, Undisturbed, Lossless, phase = "encode",
                      arrived <= NameLimit
               PROVE  /\ Frames(reel) = (epoch + 1)..arrived
                      /\ \A x \in reel : x.whole
    BY DEF RecorderInv, VideoComplete
  <2> USE DEF TypeInv, TypeOK
  <2>1. epoch \in Nat /\ arrived \in Nat /\ epoch <= arrived /\ NameLimit \in Nat
    BY FoldersAssumption DEF FoldersAssumption
  <2>2. reel = Sequence(raw) /\ reel \subseteq raw
    BY DEF Undisturbed, OneFolder, Sequence
  <2>3. SessionFrames \subseteq stored /\ Unbroken = SessionFrames
    BY AllUnbroken DEF Lossless, Undisturbed, Orderly, Settled
  <2>4. ASSUME NEW x \in raw PROVE x.frame \in SessionFrames /\ x.whole
    <3>1. x.num \in Nat /\ x.frame \in Nat
      BY DEF File, Frame
    <3>2. x.frame \in SessionFrames /\ x.frame = epoch + x.num + 1
      BY <3>1, <2>1 DEF Undisturbed, Orderly, RawFiles
    <3>3. PICK y \in raw : y.frame = x.frame /\ y.whole
      BY <3>2, <2>3 DEF Undisturbed, Orderly, Kept, Present, Clearing
    <3>4. y.num \in Nat /\ y.num = x.num
      <4>1. y.num \in Nat /\ ~(y.frame <= epoch)
        BY <3>1, <3>2, <3>3, <2>1 DEF File, SessionFrames
      <4>2. y.frame = epoch + y.num + 1
        BY <4>1, <3>3 DEF Undisturbed, Orderly, RawFiles
      <4> QED
        BY <4>1, <4>2, <3>1, <3>2, <3>3, <2>1
    <3> QED
      BY <3>2, <3>3, <3>4 DEF Undisturbed, Orderly, RawFiles
  <2>5. \A f \in SessionFrames : f \in Frames(reel)
    BY <2>2, <2>3, WholeSession DEF Undisturbed, Clearing, Frames
  <2> QED
    BY <2>2, <2>4, <2>5 DEF Frames, SessionFrames
<1> QED
  BY <1>1, RecorderInvariant, PTL

(* A listed file is counted, so that a stitch can be triggered, even after  *)
(* failed writes.                                                           *)
LEMMA ListedCounted ==
  ASSUME TypeInv, Orderly, Listed(raw) # {}
  PROVE  frameCounter > 0
<1> USE DEF TypeInv, TypeOK
<1>1. PICK x \in raw : x.num < NameLimit
  BY DEF Listed, Numbers
<1>2. x.num \in Nat /\ x.frame \in Nat /\ NameLimit \in Nat
  BY FoldersAssumption DEF File, Frame, FoldersAssumption
<1>3. x.frame \in SessionFrames
  BY <1>1, <1>2 DEF Orderly, RawFiles
<1>4. epoch < arrived /\ arrived = epoch + frameCounter
  BY <1>3 DEF SessionFrames, Orderly, Numbering
<1> QED
  BY <1>4

(* Files that a stitch would clear are not stranded at a counter of 0.      *)
THEOREM NothingIsStranded == Spec => []NothingStranded
<1>1. TypeInv /\ RecorderInv => NothingStranded
  BY ListedCounted DEF RecorderInv, Undisturbed, NothingStranded
<1> QED
  BY <1>1, RecorderInvariant, PTL

LEMMA OnlyResetsLower ==
  ASSUME Next, ~Restart, frameCounter \in Nat, frameCounter' < frameCounter
  PROVE  ResetCounter
<1>1. \A s \in Session : ~NumberFrame(s)
  BY DEF NumberFrame
<1>2. frameCounter' # frameCounter
  OBVIOUS
<1> QED
  BY <1>1, <1>2 DEF Next, Callback, StitchOnIdle, StitchAndClean, sessionVars,
     Establish, CancelPending, DiscardFrame, CreateFile, FillFile, WriteFails,
     Vanish, Close, CloseSchedule, IdleBegin, IdleCheck, IdleSchedule,
     BeginStitch, ChooseSource, LaunchFfmpeg, StitchFails, FinishVideo,
     DeleteRaw, ListAnnotated, DeleteAnnotated, ToggleCamera, Tick

(* The counter is not reset before every frame it counts is in a video, or, *)
(* once a write has failed, every frame that no gap precedes.               *)
THEOREM ResetsMeanSaved == Spec => ResetMeansSaved
<1> DEFINE Step ==
      frameCounter' < frameCounter =>
        /\ mishaps' = {} => (epoch + 1)..arrived \subseteq saved
        /\ mishaps' \subseteq {"writeFailed"} =>
             \A f \in (epoch + 1)..arrived :
                (epoch + 1)..f \subseteq stored => f \in saved
<1>1. TypeInv /\ RecorderInv /\ [Next]_recorderVars => [Step]_recorderVars
  <2> SUFFICES ASSUME TypeInv, RecorderInv, [Next]_recorderVars,
                      frameCounter' < frameCounter,
                      mishaps' \subseteq {"writeFailed"}
               PROVE  /\ Unbroken \subseteq saved
                      /\ mishaps' = {} => SessionFrames \subseteq saved
    BY DEF Unbroken, SessionFrames
  <2>1. Undisturbed
    BY MishapsGrow DEF RecorderInv
  <2>2. CASE ResetCounter
    <3>1. Unbroken \subseteq saved
      BY <2>1, <2>2 DEF ResetCounter, Undisturbed, Rescued, Clearing
    <3>2. ASSUME mishaps' = {} PROVE Unbroken = SessionFrames
      <4>1. Lossless
        BY <3>2, MishapsGrow DEF RecorderInv
      <4> QED
        BY <4>1, <2>1, <2>2, AllUnbroken
           DEF ResetCounter, Lossless, Undisturbed, Orderly, Settled
    <3> QED
      BY <3>1, <3>2
  <2>3. frameCounter \in Nat
    BY DEF TypeInv, TypeOK
  <2>4. Next
    BY <2>3 DEF recorderVars, sessionVars
  <2>5. ~Restart
    BY DEF Restart
  <2> QED
    BY <2>2, <2>3, <2>4, <2>5, OnlyResetsLower
<1> QED
  BY <1>1, RecorderInvariant, PTL DEF Spec, ResetMeansSaved

-----------------------------------------------------------------------------
(* StitchTakesTheStart does not need the quiet that Orderly describes.  As  *)
(* long as no write straddles a reset, the numbers of the session are right *)
(* and, unless a stitch is clearing the folder, the session's files are     *)
(* there, whatever else frames/ holds.                                      *)

InPlace ==
  phase \notin Clearing =>
    /\ Present
    /\ \A s \in Session : pc[s] = "created" =>
         \E x \in raw : x.frame = slot[s].frame

NoneAhead ==
  /\ \A f \in stored : f <= arrived
  /\ \A x \in raw : x.frame <= arrived

Sturdy ==
  /\ phase = "free" <=> running = NoTask
  /\ Numbering /\ Placed /\ NoneAhead /\ InPlace

FramesOnly == annotated = {} /\ source = "raw"

SturdyInv == FramesOnly /\ ("straddled" \notin mishaps => Sturdy)

LEMMA SturdyInit == Init => SturdyInv
BY DEF Init, SturdyInv, FramesOnly, Sturdy, Numbering, Placed, NoneAhead,
       InPlace, Present, Clearing, SessionFrames, Writing

(* Steps that leave the numbers, the files and the stored frames alone.     *)
LEMMA SturdyBystander ==
  ASSUME Sturdy,
         UNCHANGED <<frameCounter, raw, arrived, epoch, stored>>,
         \A s \in Session : pc'[s] \in Writing =>
           pc[s] \in Writing /\ pc'[s] = pc[s] /\ slot'[s] = slot[s],
         phase' = "free" <=> running' = NoTask,
         phase' \notin Clearing => phase \notin Clearing
  PROVE  Sturdy'
<1>1. SessionFrames' = SessionFrames
  BY DEF SessionFrames
<1>2. Numbering'
  BY <1>1 DEF Sturdy, Numbering
<1>3. Placed' /\ NoneAhead'
  BY <1>1 DEF Sturdy, Placed, NoneAhead
<1>4. InPlace'
  BY <1>1 DEF Sturdy, InPlace, Present, Writing
<1> QED
  BY <1>2, <1>3, <1>4 DEF Sturdy

LEMMA SturdyNumbers ==
  ASSUME TypeInv, Sturdy, NEW s \in Session, NumberFrame(s)
  PROVE  Sturdy'
<1> USE DEF TypeInv, TypeOK
<1>1. /\ arrived' = arrived + 1
      /\ slot' = [slot EXCEPT ![s] = [num |-> frameCounter, frame |-> arrived + 1]]
      /\ pc' = [pc EXCEPT ![s] = "numbered"]
      /\ UNCHANGED <<raw, running, phase, epoch, stored>>
  BY DEF NumberFrame, folderVars, stitchVars
<1>2. arrived \in Nat /\ epoch \in Nat /\ epoch <= arrived
  OBVIOUS
<1>3. SessionFrames' = SessionFrames \union {arrived + 1}
  BY <1>1, <1>2, IntervalGrows DEF SessionFrames
<1>4. arrived + 1 \notin stored /\ \A x \in raw : x.frame # arrived + 1
  BY <1>2 DEF Sturdy, NoneAhead
<1>5. Numbering'
  BY NumberFrameCounts DEF Sturdy, NoneAhead
<1>6. Placed'
  BY <1>1, <1>3, <1>4 DEF Sturdy, Placed
<1>7. NoneAhead'
  BY <1>1, <1>2 DEF Sturdy, NoneAhead, File, Frame
<1>8. InPlace'
  <2>1. Present => Present'
    BY <1>1, <1>3, <1>4 DEF Present
  <2>2. \A r \in Session : pc'[r] = "created" =>
          pc[r] = "created" /\ slot'[r] = slot[r]
    BY <1>1
  <2> QED
    BY <1>1, <2>1, <2>2 DEF Sturdy, InPlace
<1> QED
  BY <1>1, <1>5, <1>6, <1>7, <1>8 DEF Sturdy

LEMMA SturdyCreates ==
  ASSUME TypeInv, Sturdy, NEW s \in Session, CreateFile(s)
  PROVE  Sturdy'
<1> DEFINE n == slot[s].num
           f == slot[s].frame
<1>1. /\ raw' = Create(raw, n, f)
      /\ pc' = [pc EXCEPT ![s] = "created"] /\ pc[s] = "numbered"
      /\ UNCHANGED <<slot, frameCounter, running, phase, arrived, epoch, stored>>
  BY DEF CreateFile, stitchVars, observerVars
<1>2. /\ pc[s] \in Writing /\ f \in SessionFrames /\ f = epoch + n + 1
      /\ f \notin stored
      /\ n \in Nat /\ epoch \in Nat /\ arrived \in Nat
  BY <1>1 DEF Writing, Sturdy, Numbering, TypeInv, TypeOK
<1>3. SessionFrames' = SessionFrames
  BY <1>1 DEF SessionFrames
<1>4. /\ \A x \in raw' :
           \/ x \in raw /\ x.num # n
           \/ x.num = n /\ x.frame = f /\ ~x.whole
      /\ \A x \in raw : x.num # n => x \in raw'
      /\ \E x \in raw' : x.frame = f
  <2> HIDE DEF n, f
  <2> QED
    BY <1>1, CreateFiles
<1> USE DEF TypeInv, TypeOK
<1>5. \A x \in raw : x.num \in Nat /\ x.frame \in Nat
  BY DEF File, Frame
<1>6. \A g \in SessionFrames, x \in raw : x.frame = g /\ g # f => x \in raw'
  BY <1>2, <1>4, <1>5 DEF Sturdy, Placed, SessionFrames
<1>7. Numbering'
  BY <1>1, <1>3 DEF Sturdy, Numbering, Writing
<1>8. Placed'
  BY <1>1, <1>2, <1>3, <1>4 DEF Sturdy, Placed
<1>9. NoneAhead'
  <2>1. f <= arrived
    BY <1>2 DEF SessionFrames
  <2> QED
    BY <2>1, <1>1, <1>4 DEF Sturdy, NoneAhead
<1>10. InPlace'
  <2>1. Present => Present'
    BY <1>1, <1>2, <1>3, <1>6 DEF Present
  <2>2. ASSUME phase \notin Clearing, NEW r \in Session, pc'[r] = "created"
        PROVE  \E x \in raw' : x.frame = slot'[r].frame
    <3>1. CASE r = s
      BY <3>1, <1>1, <1>4
    <3>2. CASE r # s
      <4>1. pc[r] = "created" /\ pc[r] \in Writing
        BY <2>2, <3>2, <1>1 DEF Writing
      <4>2. slot[r].frame \in SessionFrames /\ slot[r].frame # f
        BY <3>2, <4>1, <1>2 DEF Sturdy, Numbering
      <4> QED
        BY <2>2, <4>1, <4>2, <1>1, <1>6 DEF Sturdy, InPlace
    <3> QED
      BY <3>1, <3>2
  <2> QED
    BY <1>1, <2>1, <2>2 DEF Sturdy, InPlace
<1> QED
  BY <1>1, <1>7, <1>8, <1>9, <1>10 DEF Sturdy

LEMMA SturdyFills ==
  ASSUME TypeInv, Sturdy, NEW s \in Session, FillFile(s)
  PROVE  Sturdy'
<1> DEFINE f == slot[s].frame
<1>1. /\ raw' = Fill(raw, f)
      /\ pc' = [pc EXCEPT ![s] = "idle"] /\ pc[s] = "created"
      /\ slot' = [slot EXCEPT ![s] = NoSlot]
      /\ stored' = stored \union {f}
      /\ UNCHANGED <<running, phase, arrived, epoch>>
  BY DEF FillFile, stitchVars
<1>2. pc[s] \in Writing /\ f \in SessionFrames /\ f \in Frame /\ raw \subseteq File
  BY <1>1 DEF Writing, Sturdy, Numbering, TypeInv, TypeOK, SlotOK
<1>3. /\ \A x \in raw' : \E y \in raw : x.num = y.num /\ x.frame = y.frame
      /\ \A y \in raw : \E x \in raw' :
           /\ x.num = y.num /\ x.frame = y.frame
           /\ y.whole \/ y.frame = f => x.whole
  <2> HIDE DEF f
  <2> QED
    BY <1>1, <1>2, FillFiles
<1>4. SessionFrames' = SessionFrames
  BY <1>1 DEF SessionFrames
<1>5. Numbering'
  BY FillFileCounts DEF Sturdy
<1>6. Placed'
  BY <1>1, <1>3, <1>4 DEF Sturdy, Placed
<1>7. NoneAhead'
  BY <1>1, <1>2, <1>3 DEF Sturdy, NoneAhead, SessionFrames
<1>8. InPlace'
  <2> SUFFICES ASSUME phase \notin Clearing
               PROVE  /\ Present'
                      /\ \A r \in Session : pc'[r] = "created" =>
                           \E x \in raw' : x.frame = slot'[r].frame
    BY <1>1 DEF InPlace
  <2>1. Present'
    <3> SUFFICES ASSUME NEW g \in SessionFrames, g \in stored \union {f}
                 PROVE \E x \in raw' : x.frame = g /\ x.whole
      BY <1>1, <1>4 DEF Present
    <3>1. CASE g = f
      <4>1. PICK y \in raw : y.frame = f
        BY <1>1 DEF Sturdy, InPlace
      <4> QED
        BY <3>1, <4>1, <1>3
    <3>2. CASE g \in stored
      <4>1. PICK y \in raw : y.frame = g /\ y.whole
        BY <3>2 DEF Sturdy, InPlace, Present
      <4> QED
        BY <4>1, <1>3
    <3> QED
      BY <3>1, <3>2
  <2>2. ASSUME NEW r \in Session, pc'[r] = "created"
        PROVE  \E x \in raw' : x.frame = slot'[r].frame
    <3>1. r # s /\ pc[r] = "created" /\ slot'[r] = slot[r]
      BY <2>2, <1>1 DEF TypeInv, TypeOK
    <3>2. PICK y \in raw : y.frame = slot[r].frame
      BY <3>1 DEF Sturdy, InPlace
    <3> QED
      BY <3>1, <3>2, <1>3
  <2> QED
    BY <2>1, <2>2
<1> QED
  BY <1>1, <1>5, <1>6, <1>7, <1>8 DEF Sturdy

(* A reset that no write straddles, and a restart, begin an empty session.  *)
LEMMA SturdyRestarts ==
  ASSUME TypeInv, Sturdy, ResetCounter \/ Restart, "straddled" \notin mishaps'
  PROVE  Sturdy'
<1>1. /\ frameCounter' = 0 /\ epoch' = arrived /\ arrived' = arrived
      /\ phase' = "free" /\ running' = NoTask
      /\ raw' = raw /\ stored' \subseteq stored
  BY DEF ResetCounter, EndStitch, Restart, folderVars
<1>2. \A s \in Session : pc'[s] \notin Writing
  BY DEF ResetCounter, Straddling, Restart, Writing
<1>3. arrived \in Nat
  BY DEF TypeInv, TypeOK
<1>4. SessionFrames' = {}
  BY <1>1, <1>3 DEF SessionFrames
<1>5. Numbering' /\ Placed' /\ NoneAhead'
  BY <1>1, <1>2, <1>3, <1>4 DEF Sturdy, Numbering, Placed, NoneAhead
<1>6. InPlace'
  BY <1>2, <1>4 DEF InPlace, Present, Writing
<1> QED
  BY <1>1, <1>5, <1>6 DEF Sturdy

LEMMA SturdyStitches ==
  ASSUME TypeInv, Sturdy, StitchAndClean, "straddled" \notin mishaps'
  PROVE  Sturdy'
<1> USE DEF TypeInv, TypeOK
<1>1. CASE \E n \in doomed : DeleteRaw(n)
  <2>1. PICK n \in doomed : DeleteRaw(n)
    BY <1>1
  <2>2. /\ phase = "clearRaw" /\ phase' = phase /\ raw' \subseteq raw
        /\ UNCHANGED <<pc, slot, frameCounter, running, arrived, epoch, stored>>
    BY <2>1 DEF DeleteRaw, Without, sessionVars
  <2>3. SessionFrames' = SessionFrames
    BY <2>2 DEF SessionFrames
  <2>4. Numbering' /\ Placed' /\ NoneAhead'
    BY <2>2, <2>3 DEF Sturdy, Numbering, Placed, NoneAhead
  <2> QED
    BY <2>2, <2>4 DEF Sturdy, InPlace, Clearing
<1>2. CASE ResetCounter
  BY <1>2, SturdyRestarts
<1>3. CASE /\ ~ResetCounter
           /\ \A n \in doomed : ~DeleteRaw(n)
  <2>1. UNCHANGED <<pc, slot, frameCounter, raw, arrived, epoch, stored>>
    BY <1>3 DEF StitchAndClean, BeginStitch, ChooseSource, LaunchFfmpeg,
       StitchFails, FinishVideo, ListAnnotated, DeleteAnnotated, sessionVars,
       folderVars, observerVars
  <2>2. phase' = "free" <=> running' = NoTask
    BY <1>3, RecorderAssumption
       DEF RecorderAssumption, StitchAndClean, BeginStitch, ChooseSource,
           LaunchFfmpeg, StitchFails, EndStitch, FinishVideo, ListAnnotated,
           DeleteAnnotated, Sturdy
  <2>3. phase' \notin Clearing => phase \notin Clearing
    BY <1>3 DEF StitchAndClean, BeginStitch, ChooseSource, LaunchFfmpeg,
       StitchFails, FinishVideo, ListAnnotated, DeleteAnnotated, Clearing,
       Sturdy
  <2> QED
    BY <2>1, <2>2, <2>3, SturdyBystander
<1> QED
  BY <1>1, <1>2, <1>3

LEMMA SturdyStep ==
  ASSUME TypeInv, Sturdy, [Next]_recorderVars, "straddled" \notin mishaps'
  PROVE  Sturdy'
<1>1. ASSUME NEW s \in Session, Callback(s) PROVE Sturdy'
  <2>1. CASE Establish(s) \/ CancelPending(s) \/ DiscardFrame(s) \/ Vanish(s)
               \/ Close(s) \/ CloseSchedule(s) \/ WriteFails(s)
    <3>1. UNCHANGED <<frameCounter, raw, running, phase, arrived, epoch, stored>>
      BY <2>1 DEF Establish, CancelPending, DiscardFrame, Vanish, Close,
         CloseSchedule, WriteFails, folderVars, stitchVars, observerVars
    <3>2. \A r \in Session : pc'[r] \in Writing =>
             pc[r] \in Writing /\ pc'[r] = pc[r] /\ slot'[r] = slot[r]
      <4>1. /\ \/ pc' = pc
               \/ \E place \in {"idle", "cancelling", "closing"} :
                    pc' = [pc EXCEPT ![s] = place]
            /\ slot' = slot \/ (slot' = [slot EXCEPT ![s] = NoSlot]
                                /\ pc' = [pc EXCEPT ![s] = "idle"])
        BY <2>1 DEF Establish, CancelPending, DiscardFrame, Vanish, Close,
           CloseSchedule, WriteFails
      <4> QED
        BY <4>1 DEF TypeInv, TypeOK, Writing
    <3>3. phase = "free" <=> running = NoTask
      BY DEF Sturdy
    <3> QED
      BY <3>1, <3>2, <3>3, SturdyBystander
  <2> QED
    BY <1>1, <2>1, SturdyNumbers, SturdyCreates, SturdyFills DEF Callback
<1>2. CASE StitchOnIdle \/ ToggleCamera \/ Tick \/ UNCHANGED recorderVars
  <2>1. UNCHANGED <<pc, slot, frameCounter, raw, running, phase, arrived, epoch,
                    stored>>
    BY <1>2 DEF StitchOnIdle, IdleBegin, IdleCheck, IdleSchedule, ToggleCamera,
       Tick, recorderVars, sessionVars, folderVars, stitchVars, observerVars
  <2>2. phase = "free" <=> running = NoTask
    BY DEF Sturdy
  <2> QED
    BY <2>1, <2>2, SturdyBystander
<1> QED
  BY <1>1, <1>2, SturdyStitches, SturdyRestarts DEF Next

LEMMA FramesOnlyStep ==
  FramesOnly /\ [Next]_recorderVars => FramesOnly'
<1> SUFFICES ASSUME FramesOnly, [Next]_recorderVars PROVE FramesOnly'
  OBVIOUS
<1>1. annotated' = {}
  BY DEF FramesOnly, Next, Callback, StitchOnIdle, StitchAndClean, recorderVars,
     folderVars, Establish, CancelPending, DiscardFrame, NumberFrame,
     CreateFile, FillFile, WriteFails, Vanish, Close, CloseSchedule, IdleBegin,
     IdleCheck, IdleSchedule, BeginStitch, ChooseSource, LaunchFfmpeg,
     StitchFails, FinishVideo, DeleteRaw, ListAnnotated, DeleteAnnotated,
     ResetCounter, ToggleCamera, Tick, Restart, Without
<1>2. source' = "raw"
  BY DEF FramesOnly, Next, Callback, StitchOnIdle, StitchAndClean, recorderVars,
     stitchVars, Establish, CancelPending, DiscardFrame, NumberFrame,
     CreateFile, FillFile, WriteFails, Vanish, Close, CloseSchedule, IdleBegin,
     IdleCheck, IdleSchedule, BeginStitch, ChooseSource, LaunchFfmpeg,
     StitchFails, FinishVideo, DeleteRaw, ListAnnotated, DeleteAnnotated,
     ResetCounter, EndStitch, ToggleCamera, Tick, Restart, Listed, Numbers
<1> QED
  BY <1>1, <1>2 DEF FramesOnly

LEMMA SturdyInvariant == Spec => [](TypeInv /\ SturdyInv)
<1>1. Init => TypeInv /\ SturdyInv
  BY TypeInit, SturdyInit
<1>2. TypeInv /\ SturdyInv /\ [Next]_recorderVars => (TypeInv /\ SturdyInv)'
  <2> SUFFICES ASSUME TypeInv, SturdyInv, [Next]_recorderVars PROVE SturdyInv'
    BY TypeStep
  <2>1. "straddled" \notin mishaps' => "straddled" \notin mishaps
    BY MishapsGrow DEF recorderVars, observerVars
  <2> QED
    BY <2>1, SturdyStep, FramesOnlyStep DEF SturdyInv
<1> QED
  BY <1>1, <1>2, PTL DEF Spec

(* A stitch takes the session's frames up to the first one that is missing, *)
(* through every mishap but a write that straddles a reset.                 *)
THEOREM StitchesTakeTheStart == Spec => StitchTakesTheStart
<1> DEFINE Step ==
      phase = "launch" /\ phase' = "encode" /\ "straddled" \notin mishaps =>
        \A f \in (epoch + 1)..arrived :
           (epoch + 1)..f \subseteq stored =>
             f \in Frames({x \in reel' : x.whole})
<1>1. TypeInv /\ SturdyInv /\ [Next]_recorderVars => [Step]_recorderVars
  <2> SUFFICES ASSUME TypeInv, SturdyInv, [Next]_recorderVars,
                      phase = "launch", phase' = "encode",
                      "straddled" \notin mishaps,
                      NEW f \in Unbroken
               PROVE  f \in Frames({x \in reel' : x.whole})
    BY DEF Unbroken, SessionFrames
  <2>1. LaunchFfmpeg
    BY DEF Next, Callback, StitchOnIdle, StitchAndClean, recorderVars,
       stitchVars, Establish, CancelPending, DiscardFrame, NumberFrame,
       CreateFile, FillFile, WriteFails, Vanish, Close, CloseSchedule,
       IdleBegin, IdleCheck, IdleSchedule, BeginStitch, ChooseSource,
       StitchFails, EndStitch, FinishVideo, DeleteRaw, ListAnnotated,
       DeleteAnnotated, ResetCounter, ToggleCamera, Tick, Restart
  <2>2. reel' = Sequence(raw)
    BY <2>1 DEF LaunchFfmpeg, SturdyInv, FramesOnly
  <2>3. Placed /\ Present
    BY DEF SturdyInv, Sturdy, InPlace, Clearing
  <2>4. PICK x \in Sequence(raw) : x.frame = f /\ x.whole
    BY <2>3, WholeStart
  <2> QED
    BY <2>2, <2>4 DEF Frames
<1> QED
  BY <1>1, SturdyInvariant, PTL DEF Spec, StitchTakesTheStart

-----------------------------------------------------------------------------
(* The recorder implements SessionRecorder: FillFile records, FinishVideo   *)
(* stitches, and until a mishap every other step leaves OnDisk and saved as *)
(* they are.                                                                *)

LEMMA FillFrames ==
  ASSUME NEW dir, dir \subseteq File, NEW f \in Frame,
         \E y \in dir : y.frame = f
  PROVE  Frames({x \in Fill(dir, f) : x.whole})
           = Frames({x \in dir : x.whole}) \union {f}
<1>1. \A x \in Fill(dir, f) : x.whole =>
        \E y \in dir : x.frame = y.frame /\ (y.whole \/ y.frame = f)
  BY FillFiles
<1>2. \A y \in dir : y.whole \/ y.frame = f =>
        \E x \in Fill(dir, f) : x.frame = y.frame /\ x.whole
  BY FillFiles
<1> QED
  BY <1>1, <1>2 DEF Frames

LEMMA FillRecords ==
  ASSUME TypeInv, Orderly, saved \subseteq stored, NEW s \in Session, FillFile(s)
  PROVE  /\ slot[s].frame \in Frame
         /\ slot[s].frame \notin OnDisk \union saved
         /\ OnDisk' = OnDisk \union {slot[s].frame}
         /\ saved' = saved
<1> DEFINE f == slot[s].frame
<1>1. /\ raw' = Fill(raw, f) /\ saved' = saved
      /\ pc[s] = "created" /\ pc[s] \in Writing
  BY DEF FillFile, Writing
<1>2. f \in Frame /\ raw \subseteq File
  BY <1>1 DEF TypeInv, TypeOK, SlotOK
<1>3. f \notin stored /\ saved \subseteq stored
  BY <1>1 DEF Orderly, Numbering
<1>4. \A x \in raw : x.whole => x.frame \in stored
  BY DEF Orderly, RawFiles
<1>5. \E y \in raw : y.frame = f
  BY <1>1 DEF Orderly, RawFiles
<1> HIDE DEF f
<1>6. Frames({x \in raw' : x.whole}) = Frames({x \in raw : x.whole}) \union {f}
  BY <1>1, <1>2, <1>5, FillFrames
<1>7. OnDisk' = OnDisk \union {f}
  BY <1>1, <1>3, <1>6 DEF OnDisk
<1>8. f \notin OnDisk \union saved
  BY <1>3, <1>4 DEF OnDisk, Frames
<1> QED
  BY <1>1, <1>2, <1>7, <1>8 DEF f

LEMMA FinishStitches ==
  ASSUME TypeInv, Undisturbed, Lossless, FinishVideo
  PROVE  OnDisk' = {} /\ saved' = saved \union OnDisk
<1>1. /\ phase = "encode" /\ raw' = raw
      /\ saved' = saved \union Frames({x \in reel : x.whole})
  BY DEF FinishVideo, folderVars
<1>2. reel = Sequence(raw) /\ reel \subseteq raw
  BY <1>1 DEF Undisturbed, OneFolder, Sequence
<1>3. Unbroken = SessionFrames
  BY <1>1, AllUnbroken DEF Lossless, Undisturbed, Orderly, Settled
<1>4. ASSUME NEW x \in raw, x.whole PROVE x.frame \in saved'
  <2>1. CASE x.frame \in SessionFrames
    <3>1. PICK y \in Sequence(raw) : y.frame = x.frame /\ y.whole
      BY <2>1, <1>1, <1>3, WholeSession DEF Undisturbed, Clearing
    <3> QED
      BY <3>1, <1>1, <1>2 DEF Frames
  <2>2. CASE x.frame <= epoch
    BY <2>2, <1>1, <1>4 DEF Undisturbed, Orderly, RawFiles, Lossless, Archived
  <2> QED
    BY <2>1, <2>2 DEF Undisturbed, Orderly, RawFiles
<1>5. OnDisk' = {}
  BY <1>1, <1>4 DEF OnDisk, Frames
<1>6. saved' = saved \union OnDisk
  BY <1>1, <1>2, <1>4 DEF OnDisk, Frames
<1> QED
  BY <1>5, <1>6

(* A file that is replaced or deleted was not whole, or is in a video.      *)
LEMMA OthersStutter ==
  ASSUME TypeInv, Orderly, Archived, [Next]_recorderVars, mishaps' = {},
         phase \in Clearing => SessionFrames \subseteq saved,
         ~FinishVideo, \A s \in Session : ~FillFile(s)
  PROVE  UNCHANGED <<OnDisk, saved>>
<1>1. saved' = saved
  BY DEF Next, Callback, StitchOnIdle, StitchAndClean, recorderVars,
     observerVars, Establish, CancelPending, DiscardFrame, NumberFrame,
     CreateFile, WriteFails, Vanish, Close, CloseSchedule, IdleBegin, IdleCheck,
     IdleSchedule, BeginStitch, ChooseSource, LaunchFfmpeg, StitchFails,
     DeleteRaw, ListAnnotated, DeleteAnnotated, ResetCounter, ToggleCamera,
     Tick, Restart
<1>2. CASE \E s \in Session : CreateFile(s)
  <2> PICK s \in Session : CreateFile(s)
    BY <1>2
  <2> DEFINE n == slot[s].num
             f == slot[s].frame
  <2>1. raw' = Create(raw, n, f) /\ pc[s] \in Writing
    BY DEF CreateFile, Writing
  <2>2. f \notin stored /\ f = epoch + n + 1 /\ n \in Nat /\ epoch \in Nat
    BY <2>1 DEF Orderly, Numbering, TypeInv, TypeOK
  <2>3. ASSUME NEW x \in raw, x.whole, x.num = n PROVE x.frame \in saved
    <3>1. x.frame \in stored /\ x.frame # f
      BY <2>2, <2>3 DEF Orderly, RawFiles
    <3>2. x.frame <= epoch
      BY <3>1, <2>2, <2>3 DEF Orderly, RawFiles
    <3> QED
      BY <3>1, <3>2 DEF Archived
  <2> HIDE DEF n, f
  <2>4. /\ \A x \in raw' : x.whole => x \in raw
        /\ \A x \in raw : x.num # n => x \in raw'
    BY <2>1, CreateFiles
  <2> QED
    BY <1>1, <2>3, <2>4 DEF OnDisk, Frames
<1>3. CASE \E n \in doomed : DeleteRaw(n)
  <2> PICK n \in doomed : DeleteRaw(n)
    BY <1>3
  <2>1. phase = "clearRaw" /\ raw' = Without(raw, n)
    BY DEF DeleteRaw
  <2>2. SessionFrames \subseteq saved
    BY <2>1 DEF Clearing
  <2>3. \A x \in raw : x.whole => x.frame \in saved
    BY <2>2 DEF Orderly, RawFiles, Archived
  <2> QED
    BY <1>1, <2>1, <2>3 DEF OnDisk, Frames, Without
<1>4. CASE /\ \A s \in Session : ~CreateFile(s)
           /\ \A n \in doomed : ~DeleteRaw(n)
  <2>1. raw' = raw
    BY <1>4 DEF Next, Callback, StitchOnIdle, StitchAndClean, recorderVars,
       folderVars, Establish, CancelPending, DiscardFrame, NumberFrame,
       WriteFails, Vanish, Close, CloseSchedule, IdleBegin, IdleCheck,
       IdleSchedule, BeginStitch, ChooseSource, LaunchFfmpeg, StitchFails,
       ListAnnotated, DeleteAnnotated, ResetCounter, ToggleCamera, Tick, Restart
  <2> QED
    BY <1>1, <2>1 DEF OnDisk
<1> QED
  BY <1>2, <1>3, <1>4

(* Until the first mishap the recorder is an atomic session recorder.       *)
THEOREM RecorderImplements == Spec => ImplementsSessionRecorder
<1>1. Init => Promise!Init
  BY DEF Init, Promise!Init, OnDisk, Frames
<1>2. TypeInv /\ RecorderInv /\ [Next]_recorderVars =>
        [Promise!Next]_Promise!promiseVars
  <2> SUFFICES ASSUME TypeInv, RecorderInv, [Next]_recorderVars
               PROVE  [Promise!Next]_Promise!promiseVars
    OBVIOUS
  <2>1. CASE mishaps' # {}
    BY <2>1 DEF Promise!Next
  <2>2. CASE mishaps' = {}
    <3>1. mishaps = {} /\ Undisturbed /\ Lossless
      BY <2>2, MishapsGrow DEF RecorderInv
    <3>2. ASSUME NEW s \in Session, FillFile(s) PROVE Promise!Next
      BY <2>2, <3>1, <3>2, FillRecords
         DEF Undisturbed, Rescued, Promise!Next, Promise!Record
    <3>3. CASE FinishVideo
      <4>1. OnDisk' = {} /\ saved' = saved \union OnDisk
        BY <3>1, <3>3, FinishStitches
      <4>2. CASE OnDisk = {}
        BY <4>1, <4>2, <2>2, <3>1 DEF Promise!promiseVars
      <4>3. CASE OnDisk # {}
        BY <4>1, <4>3, <2>2 DEF Promise!Next, Promise!Stitch
      <4> QED
        BY <4>2, <4>3
    <3>4. CASE ~FinishVideo /\ \A s \in Session : ~FillFile(s)
      <4>1. phase \in Clearing => SessionFrames \subseteq saved
        BY <3>1, AllUnbroken
           DEF Lossless, Undisturbed, Orderly, Settled, Rescued, Clearing
      <4> QED
        BY <2>2, <3>1, <3>4, <4>1, OthersStutter
           DEF Undisturbed, Lossless, Promise!promiseVars
    <3> QED
      BY <3>2, <3>3, <3>4
  <2> QED
    BY <2>1, <2>2
<1> QED
  BY <1>1, <1>2, RecorderInvariant, PTL
     DEF Spec, ImplementsSessionRecorder, Promise!Spec

=============================================================================
