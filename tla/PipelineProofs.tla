--------------------------- MODULE PipelineProofs ---------------------------
(***************************************************************************)
(* Theorems about RecordingPipeline, for any number of sessions, futures   *)
(* and frames and any delays.  The steps of the recorder keep what         *)
(* RecorderProofs shows they keep, with or without a detector; what the    *)
(* videos owe to annotated/ is shown here.                                 *)
(***************************************************************************)
EXTENDS RecordingPipeline, RecorderProofs, WellFoundedInduction

(* The detector's copies of the operators on folders.                       *)
LEMMA DetectorFolders ==
  /\ \A dir : D!Listed(dir) = Listed(dir)
  /\ \A dir, n, f : D!Create(dir, n, f) = Create(dir, n, f)
  /\ \A dir, f : D!Fill(dir, f) = Fill(dir, f)
BY DEF D!Listed, Listed, D!Numbers, Numbers, D!Create, Create, D!Without,
       Without, D!Fill, Fill

LEMMA LeastExists ==
  ASSUME NEW S, S \subseteq Nat, S # {}
  PROVE  \E n \in S : \A m \in S : n <= m
<1> DEFINE R == OpToRel(<, Nat)
<1>1. \A m, n \in Nat : m < n => <<m, n>> \in R
  BY DEF OpToRel
<1>2. IsWellFoundedOn(R, Nat)
  BY NatLessThanWellFounded
<1> HIDE DEF R
<1>3. PICK n \in S : \A m \in S : <<m, n>> \notin R
  BY <1>2, WFMin
<1>4. ASSUME NEW m \in S PROVE n <= m
  <2>1. m \in Nat /\ n \in Nat
    OBVIOUS
  <2>2. ~(m < n)
    BY <1>1, <1>3, <2>1
  <2> QED
    BY <2>1, <2>2
<1> QED
  BY <1>4

LEMMA CurrentIsNew ==
  ASSUME newFiles \subseteq Nat, newFiles # {}
  PROVE  D!Current \in newFiles
BY LeastExists DEF D!Current

-----------------------------------------------------------------------------
(* Type correctness is inductive once the picture in hand is known to be    *)
(* one of a frame, and a batch to have a file left.                         *)
DetectorTypes ==
  /\ detPc \in {"down", "scan"} \union Batch
  /\ lastProcessed \in Nat \union {-1}
  /\ newFiles \subseteq Nat
  /\ detPc \in Batch => newFiles # {}
  /\ image \in [num : Nat, frame : Nat, whole : BOOLEAN]
  /\ detPc \in {"decoded", "writing"} => image.frame \in Frame
  /\ slips \subseteq Slip

(* The shape of the steps, as far as the recorder's variables go.           *)
LEMMA DetectorLeaves ==
  DetectorStep =>
    /\ raw' = raw
    /\ UNCHANGED <<sessionVars, executorVars, stitchVars, observerVars>>
BY DEF DetectorStep, D!Next, D!Scan, D!Unreadable, D!ReadFrame, D!Crash,
   D!BeginAnnotated, D!FinishAnnotated, D!AnnotateFails

LEMMA RecorderSteps ==
  /\ RecorderStep => Next /\ UNCHANGED processVars
  /\ RestartServer => Restart /\ Next
BY DEF RecorderStep, RestartServer, Next

LEMMA SlipsGrow == [PipelineNext]_pipelineVars => slips \subseteq slips'
BY DEF PipelineNext, RecorderStep, DetectorStep, RestartServer, pipelineVars

LEMMA AnnotatedTypeStep ==
  ASSUME TypeInv, DetectorTypes, DetectorStep
  PROVE  annotated' \subseteq File
<1>1. annotated \subseteq File
  BY DEF TypeInv, TypeOK
<1>2. CASE annotated' = annotated
  BY <1>1, <1>2
<1>3. CASE D!BeginAnnotated
  <2>1. image.num \in Nat /\ image.frame \in Frame
    BY <1>3 DEF D!BeginAnnotated, DetectorTypes
  <2>2. annotated' = Create(annotated, image.num, image.frame)
    BY <1>3, DetectorFolders DEF D!BeginAnnotated
  <2>3. \A n \in Nat, f \in Frame : Create(annotated, n, f) \subseteq File
    BY <1>1, FolderTypes
  <2> QED
    BY <2>1, <2>2, <2>3
<1>4. CASE D!FinishAnnotated
  <2>1. image.frame \in Frame
    BY <1>4 DEF D!FinishAnnotated, DetectorTypes
  <2>2. annotated' = Fill(annotated, image.frame) \/ annotated' = annotated
    BY <1>4, DetectorFolders DEF D!FinishAnnotated
  <2> QED
    BY <1>1, <2>1, <2>2, FolderTypes
<1> QED
  BY <1>2, <1>3, <1>4 DEF DetectorStep, D!Next, D!Scan, D!Unreadable,
     D!ReadFrame, D!Crash, D!AnnotateFails

LEMMA DetectorTypesStep ==
  ASSUME TypeInv, DetectorTypes, D!Next
  PROVE  /\ detPc' \in {"down", "scan"} \union Batch
         /\ lastProcessed' \in Nat \union {-1}
         /\ newFiles' \subseteq Nat
         /\ detPc' \in Batch => newFiles' # {}
         /\ image' \in [num : Nat, frame : Nat, whole : BOOLEAN]
         /\ detPc' \in {"decoded", "writing"} => image'.frame \in Frame
<1> DEFINE Types ==
      /\ detPc' \in {"down", "scan"} \union Batch
      /\ lastProcessed' \in Nat \union {-1}
      /\ newFiles' \subseteq Nat
      /\ detPc' \in Batch => newFiles' # {}
      /\ image' \in [num : Nat, frame : Nat, whole : BOOLEAN]
      /\ detPc' \in {"decoded", "writing"} => image'.frame \in Frame
<1>1. D!NoImage \in [num : Nat, frame : Nat, whole : BOOLEAN]
  BY DEF D!NoImage
<1>2. D!Processed /\ detPc \in Batch => Types
  <2> SUFFICES ASSUME D!Processed, detPc \in Batch PROVE Types
    OBVIOUS
  <2>1. D!Current \in newFiles /\ newFiles \subseteq Nat
    BY CurrentIsNew DEF DetectorTypes
  <2> QED
    BY <1>1, <2>1 DEF D!Processed, Batch
<1>3. CASE D!Scan
  <2>1. newFiles' \subseteq Nat
    BY <1>3, DetectorFolders, FolderTypes DEF D!Scan, TypeInv, TypeOK
  <2>2. /\ lastProcessed' \in Nat \union {-1}
        /\ detPc' \in {"scan", "process"}
        /\ detPc' = "process" => newFiles' # {}
        /\ image' = image
    BY <1>3 DEF D!Scan, DetectorTypes
  <2> QED
    BY <2>1, <2>2 DEF DetectorTypes, Batch
<1>4. CASE D!Unreadable \/ D!FinishAnnotated \/ D!AnnotateFails
  BY <1>2, <1>4 DEF D!Unreadable, D!FinishAnnotated, D!AnnotateFails, Batch
<1>5. CASE D!ReadFrame
  <2>1. PICK x \in raw : image' = x
    BY <1>5 DEF D!ReadFrame
  <2>2. x \in [num : Nat, frame : Nat, whole : BOOLEAN] /\ x.frame \in Frame
    BY DEF TypeInv, TypeOK, File, Frame
  <2> QED
    BY <1>5, <2>1, <2>2 DEF D!ReadFrame, DetectorTypes, Batch
<1>6. CASE D!Crash
  BY <1>1, <1>6 DEF D!Crash, DetectorTypes, Batch
<1>7. CASE D!BeginAnnotated
  BY <1>7 DEF D!BeginAnnotated, DetectorTypes, Batch
<1> QED
  BY <1>3, <1>4, <1>5, <1>6, <1>7 DEF D!Next

PipelineTypeInv == TypeInv /\ DetectorTypes

LEMMA PipelineTypeInit == PipelineInit => PipelineTypeInv
<1> SUFFICES ASSUME PipelineInit PROVE PipelineTypeInv
  OBVIOUS
<1>1. D!NoImage \in [num : Nat, frame : Nat, whole : BOOLEAN]
  BY DEF D!NoImage
<1>2. DetectorTypes
  BY <1>1 DEF PipelineInit, D!Init, DetectorTypes, Batch
<1> QED
  BY <1>2, TypeInit DEF PipelineInit, PipelineTypeInv

LEMMA PipelineTypeStep ==
  PipelineTypeInv /\ [PipelineNext]_pipelineVars => PipelineTypeInv'
<1> SUFFICES ASSUME TypeInv, DetectorTypes, [PipelineNext]_pipelineVars
             PROVE  TypeInv' /\ DetectorTypes'
  BY DEF PipelineTypeInv
<1>1. CASE RecorderStep
  <2>1. TypeInv'
    BY <1>1, RecorderSteps, TypeStep
  <2>2. slips' \subseteq Slip
    BY <1>1 DEF RecorderStep, Flag, Slip, DetectorTypes
  <2> QED
    BY <1>1, <2>1, <2>2, RecorderSteps DEF DetectorTypes, processVars
<1>2. CASE DetectorStep
  <2>1. annotated' \subseteq File
    BY <1>2, AnnotatedTypeStep
  <2>2. TypeInv'
    BY <1>2, <2>1, DetectorLeaves
       DEF TypeInv, TypeOK, SlotOK, sessionVars, executorVars, stitchVars,
           observerVars
  <2>3. slips' \subseteq Slip
    BY <1>2 DEF DetectorStep, Flag, Slip, DetectorTypes
  <2> QED
    BY <1>2, <2>2, <2>3, DetectorTypesStep DEF DetectorStep, DetectorTypes
<1>3. CASE RestartServer
  <2>1. TypeInv'
    BY <1>3, RecorderSteps, TypeStep
  <2>2. D!NoImage \in [num : Nat, frame : Nat, whole : BOOLEAN]
    BY DEF D!NoImage
  <2> QED
    BY <1>3, <2>1, <2>2 DEF RestartServer, DetectorTypes, Batch
<1>4. CASE UNCHANGED pipelineVars
  BY <1>4, TypeStep
     DEF pipelineVars, processVars, DetectorTypes
<1> QED
  BY <1>1, <1>2, <1>3, <1>4 DEF PipelineNext

(* Every variable of the recorder and the detector keeps its type.          *)
THEOREM DetectorTypeCorrect == PipelineSpec => []DetectorTypeOK
<1>1. PipelineTypeInv => DetectorTypeOK
  BY DEF PipelineTypeInv, TypeInv, DetectorTypes, DetectorTypeOK
<1> QED
  BY PipelineTypeInit, PipelineTypeStep, <1>1, PTL DEF PipelineSpec

-----------------------------------------------------------------------------
(* With a detector as without, frames/ is orderly until a mishap that is not*)
(* a failed write, and no frame of the session is missing until a mishap.   *)
FramesInv ==
  /\ mishaps \subseteq {"writeFailed"} => Orderly
  /\ mishaps = {} => Complete

LEMMA MishapsStay ==
  ASSUME [PipelineNext]_pipelineVars
  PROVE  mishaps \subseteq mishaps'
BY MishapsGrow, RecorderSteps, DetectorLeaves
   DEF PipelineNext, pipelineVars, recorderVars, observerVars

LEMMA DetectorKeepsOrder ==
  ASSUME UNCHANGED <<sessionVars, raw, executorVars, stitchVars, observerVars>>
  PROVE  /\ Orderly => Orderly'
         /\ Complete => Complete'
         /\ Archived => Archived'
<1>1. UNCHANGED <<pc, slot, frameCounter, raw, running, phase, doomed, arrived,
                  epoch, stored, saved>>
  BY DEF sessionVars, stitchVars, observerVars
<1>2. Orderly => Orderly'
  BY <1>1, Bystander
<1>3. SessionFrames' = SessionFrames
  BY <1>1 DEF SessionFrames
<1> QED
  BY <1>1, <1>2, <1>3 DEF Complete, Archived

LEMMA FramesInvStep ==
  TypeInv /\ FramesInv /\ [PipelineNext]_pipelineVars => FramesInv'
<1> SUFFICES ASSUME TypeInv, FramesInv, [PipelineNext]_pipelineVars
             PROVE  FramesInv'
  OBVIOUS
<1>1. CASE RecorderStep \/ RestartServer
  BY <1>1, MishapsStay, RecorderSteps, OrderlyStep, CompleteStep DEF FramesInv
<1>2. CASE DetectorStep \/ UNCHANGED pipelineVars
  <2>1. UNCHANGED <<sessionVars, raw, executorVars, stitchVars, observerVars>>
    BY <1>2, DetectorLeaves DEF pipelineVars, recorderVars, folderVars
  <2>2. mishaps' = mishaps
    BY <2>1 DEF observerVars
  <2> QED
    BY <2>1, <2>2, DetectorKeepsOrder DEF FramesInv
<1> QED
  BY <1>1, <1>2 DEF PipelineNext

LEMMA FramesInvInit == PipelineInit => FramesInv
BY RecorderInit DEF PipelineInit, FramesInv, RecorderInv, Undisturbed, Lossless,
   Init

(* A listed file of frames/ is counted, with a detector too.                *)
THEOREM NothingIsStrandedWithDetector == PipelineSpec => []NothingStranded
<1>1. TypeInv /\ Orderly => (Listed(raw) # {} => frameCounter > 0)
  BY ListedCounted
<1>2. TypeInv /\ FramesInv => NothingStranded
  BY <1>1 DEF FramesInv, NothingStranded
<1> QED
  BY PipelineTypeInit, PipelineTypeStep, FramesInvInit, FramesInvStep, <1>2,
     PTL DEF PipelineSpec, PipelineTypeInv

-----------------------------------------------------------------------------
(* The inductive invariant behind LossNeedsSlip, VideoCompleteWithoutSlip,  *)
(* BothFoldersFresh and ResetMeansSavedWithoutSlip.  Without a slip and any *)
(* mishap but failed writes, the picture in the detector's hand and those in*)
(* annotated/ are whole copies of frames of the session, under the number   *)
(* the frame has in frames/; ffmpeg and clearFrames work on folders at rest;*)
(* so a copy can stand for its frame.                                       *)

OfSession(x) ==
  x.frame \in SessionFrames /\ x.frame \in stored /\ x.frame = epoch + x.num + 1

(* Everything that was numbered can be listed.                              *)
Named == frameCounter <= NameLimit /\ \A x \in raw : x.num < NameLimit

(* No batch is being processed while the folders are being consumed.        *)
Apart == phase \in Consuming => detPc \notin Batch

InHand == detPc \in {"decoded", "writing"} => image.whole /\ OfSession(image)

Copies ==
  \A x \in annotated :
    OfSession(x) /\ (x.whole \/ (detPc = "writing" /\ x.num = image.num))

Emptying == phase = "clearAnnotated" => Listed(annotated) \subseteq doomed

Encoding ==
  phase = "encode" =>
    /\ source = "raw" => reel = Sequence(raw)
    /\ source = "annotated" => /\ reel = Sequence(annotated)
                              /\ Listed(annotated) = Listed(raw)

(* frames/ is not cleared before the session, to its first gap, is in a     *)
(* video.                                                                   *)
Filmed == phase \in Clearing => Unbroken \subseteq saved

(* What is in a video was recorded.                                         *)
Genuine == saved \subseteq stored

Faithful ==
  /\ Named /\ Apart /\ InHand /\ Copies
  /\ Emptying /\ Encoding /\ Filmed /\ Genuine

PipelineInv ==
  /\ FramesInv
  /\ mishaps \subseteq {"writeFailed"} /\ slips = {} => Faithful
  /\ mishaps = {} /\ slips = {} => Archived

LEMMA PipelineInvInit == PipelineInit => PipelineInv
<1> SUFFICES ASSUME PipelineInit PROVE Faithful /\ Archived
  BY FramesInvInit DEF PipelineInv
<1> USE DEF PipelineInit, Init, D!Init
<1>1. Named
  BY FoldersAssumption DEF FoldersAssumption, Named
<1>2. /\ Apart /\ InHand /\ Copies
      /\ Emptying /\ Encoding /\ Filmed /\ Genuine /\ Archived
  BY DEF Apart, InHand, Copies, Emptying, Encoding, Filmed, Genuine, Archived,
     Batch, Consuming, Clearing
<1> QED
  BY <1>1, <1>2 DEF Faithful

(* Files of a session that are all listed.                                  *)
LEMMA SessionFiles ==
  ASSUME TypeInv, Orderly, Named
  PROVE  /\ \A x \in raw : x.frame \in SessionFrames /\ x.frame = epoch + x.num + 1
         /\ Listed(raw) = Numbers(raw)
<1>1. \A x \in raw : x.num \in Nat /\ NameLimit \in Nat /\ ~(NameLimit <= x.num)
  BY FoldersAssumption DEF FoldersAssumption, TypeInv, TypeOK, File, Named
<1>2. Listed(raw) = Numbers(raw)
  BY DEF Named, Listed, Numbers
<1> QED
  BY <1>1, <1>2 DEF Orderly, RawFiles

LEMMA CopiesListed ==
  ASSUME TypeInv, Orderly, Named, Copies
  PROVE  Listed(annotated) = Numbers(annotated)
<1>1. ASSUME NEW x \in annotated PROVE x.num < NameLimit
  <2>1. x.num \in Nat /\ epoch \in Nat /\ arrived \in Nat /\ NameLimit \in Nat
        /\ frameCounter \in Nat
    BY FoldersAssumption DEF FoldersAssumption, TypeInv, TypeOK, File
  <2>2. x.frame \in (epoch + 1)..arrived /\ x.frame = epoch + x.num + 1
    BY DEF Copies, OfSession, SessionFrames
  <2>3. arrived = epoch + frameCounter /\ frameCounter <= NameLimit
    BY DEF Orderly, Numbering, Named
  <2> QED
    BY <2>1, <2>2, <2>3
<1> QED
  BY <1>1 DEF Listed, Numbers

(* Nothing but the end of a stitch takes a frame out of the session.        *)
LEMMA SessionGrows ==
  ASSUME TypeInv, Next, ~ResetCounter, mishaps' \subseteq {"writeFailed"}
  PROVE  /\ epoch' = epoch
         /\ SessionFrames \subseteq SessionFrames'
         /\ \A x : OfSession(x) => OfSession(x)'
<1>1. CASE \E s \in Session : NumberFrame(s)
  <2>1. arrived' = arrived + 1 /\ epoch' = epoch /\ stored' = stored
    BY <1>1 DEF NumberFrame
  <2>2. arrived \in Nat /\ epoch \in Nat
    BY DEF TypeInv, TypeOK
  <2>3. SessionFrames \subseteq SessionFrames'
    BY <2>1, <2>2 DEF SessionFrames
  <2> QED
    BY <2>1, <2>3 DEF OfSession
<1>2. CASE \E s \in Session : FillFile(s)
  <2>1. arrived' = arrived /\ epoch' = epoch /\ stored \subseteq stored'
    BY <1>2 DEF FillFile
  <2> QED
    BY <2>1 DEF OfSession, SessionFrames
<1>3. CASE \A s \in Session : ~NumberFrame(s) /\ ~FillFile(s)
  <2>1. UNCHANGED <<arrived, epoch, stored>>
    BY <1>3, FramesStay DEF Restart
  <2> QED
    BY <2>1 DEF OfSession, SessionFrames
<1> QED
  BY <1>1, <1>2, <1>3

(* The video that ffmpeg makes has every frame of the session that no gap   *)
(* precedes, whole.                                                         *)
LEMMA ReelComplete ==
  ASSUME TypeInv, Orderly, Faithful, phase = "encode"
  PROVE  Unbroken \subseteq Frames({x \in reel : x.whole})
<1>1. /\ phase \notin Clearing
      /\ detPc \notin Batch
      /\ source \in {"raw", "annotated"}
  BY DEF Clearing, Faithful, Apart, Consuming, TypeInv, TypeOK
<1>2. ASSUME NEW f \in Unbroken
      PROVE  \E x \in Sequence(raw) : x.frame = f /\ x.whole
  BY <1>1, WholeSession
<1>3. CASE source = "raw"
  BY <1>2, <1>3 DEF Faithful, Encoding, Frames
<1>4. CASE source = "annotated"
  <2>1. reel = Sequence(annotated) /\ Numbers(annotated) = Numbers(raw)
    BY <1>4, SessionFiles, CopiesListed DEF Faithful, Encoding
  <2>2. ASSUME NEW f \in Unbroken PROVE f \in Frames({x \in reel : x.whole})
    <3>1. PICK x \in Sequence(raw) : x.frame = f
      BY <1>2
    <3>2. x \in raw /\ x.frame = epoch + x.num + 1
      BY SessionFiles DEF Faithful, Sequence
    <3>3. PICK y \in annotated : y.num = x.num
      BY <2>1, <3>2 DEF Numbers
    <3>4. y.whole /\ y.frame = f
      BY <1>1, <3>1, <3>2, <3>3 DEF Faithful, Copies, OfSession, Batch
    <3>5. y \in Sequence(annotated)
      BY <2>1, <3>3 DEF Sequence
    <3> QED
      BY <2>1, <3>4, <3>5 DEF Frames
  <2> QED
    BY <2>2
<1> QED
  BY <1>1, <1>3, <1>4

LEMMA WholeSessionFilmed ==
  ASSUME TypeInv, Orderly, Complete, Faithful
  PROVE  /\ phase = "encode" =>
              SessionFrames \subseteq Frames({x \in reel : x.whole})
         /\ phase \in Clearing => SessionFrames \subseteq saved
<1>1. phase # "free" => Unbroken = SessionFrames
  BY AllUnbroken DEF Orderly, Settled
<1> QED
  BY <1>1, ReelComplete DEF Faithful, Filmed, Clearing

(* Without a slip, a step of the recorder keeps each part.                  *)
LEMMA RecorderKeepsCopies ==
  ASSUME TypeInv, Orderly, Faithful, RecorderStep,
         mishaps' \subseteq {"writeFailed"}
  PROVE  InHand' /\ Copies'
<1>1. UNCHANGED <<detPc, image>> /\ Next
  BY RecorderSteps DEF processVars
<1>2. annotated' \subseteq annotated
  BY DEF RecorderStep, Callback, StitchOnIdle, StitchAndClean, Establish,
     CancelPending, DiscardFrame, NumberFrame, CreateFile, FillFile, WriteFails,
     Vanish, Close, CloseSchedule, IdleBegin, IdleCheck, IdleSchedule,
     BeginStitch, ChooseSource, LaunchFfmpeg, StitchFails, FinishVideo,
     DeleteRaw, ListAnnotated, DeleteAnnotated, ResetCounter, ToggleCamera,
     Tick, folderVars, Without
<1>3. CASE ~ResetCounter
  <2>1. \A x : OfSession(x) => OfSession(x)'
    BY <1>1, <1>3, SessionGrows
  <2>2. InHand'
    BY <1>1, <2>1 DEF Faithful, InHand, OfSession
  <2>3. Copies'
    BY <1>1, <1>2, <2>1 DEF Faithful, Copies, OfSession
  <2> QED
    BY <2>2, <2>3
<1>4. CASE ResetCounter
  <2>1. phase = "clearAnnotated" /\ doomed = {}
    BY <1>4 DEF ResetCounter
  <2>2. detPc \notin Batch
    BY <2>1 DEF Faithful, Apart, Consuming
  <2>3. annotated = {}
    BY <2>1, CopiesListed DEF Faithful, Emptying, Numbers
  <2> QED
    BY <1>1, <1>2, <2>2, <2>3 DEF InHand, Copies, Batch
<1> QED
  BY <1>3, <1>4

LEMMA RecorderKeepsStitch ==
  ASSUME TypeInv, Orderly, Faithful, RecorderStep,
         mishaps' \subseteq {"writeFailed"}, slips' = {}
  PROVE  Emptying' /\ Encoding' /\ Filmed'
<1>1. CASE ListAnnotated
  <2>1. /\ phase = "clearRaw" /\ phase' = "clearAnnotated"
        /\ doomed' = Listed(annotated) /\ annotated' = annotated
        /\ UNCHANGED <<arrived, epoch, stored, saved>>
    BY <1>1 DEF ListAnnotated, folderVars, observerVars
  <2>2. Listed(annotated') = Listed(annotated)
    BY <2>1
  <2> QED
    BY <2>1, <2>2 DEF Emptying, Encoding, Filmed, Faithful, Unbroken, SessionFrames,
       Clearing
<1>2. CASE \E n \in doomed : DeleteAnnotated(n)
  <2>1. PICK n \in doomed : DeleteAnnotated(n)
    BY <1>2
  <2>2. /\ phase = "clearAnnotated" /\ phase' = phase
        /\ doomed' = doomed \ {n} /\ annotated' = Without(annotated, n)
        /\ UNCHANGED <<arrived, epoch, stored, saved>>
    BY <2>1 DEF DeleteAnnotated
  <2>3. Listed(annotated') \subseteq doomed'
    BY <2>2 DEF Without, Listed, Numbers, Faithful, Emptying
  <2> QED
    BY <2>2, <2>3 DEF Emptying, Encoding, Filmed, Faithful, Unbroken, SessionFrames,
       Clearing
<1>3. CASE LaunchFfmpeg
  <2>1. /\ phase = "launch" /\ phase' = "encode" /\ source' = source
        /\ reel' = Sequence(IF source = "annotated" THEN annotated ELSE raw)
        /\ raw' = raw /\ annotated' = annotated
    BY <1>3 DEF LaunchFfmpeg, folderVars
  <2>2. source = "annotated" => Listed(annotated) = Listed(raw)
    BY <2>1 DEF RecorderStep, Flag
  <2>3. Encoding'
    <3>1. source = "raw" => reel' = Sequence(raw')
      BY <2>1
    <3>2. source = "annotated" =>
            reel' = Sequence(annotated') /\ Listed(annotated') = Listed(raw')
      BY <2>1, <2>2
    <3> QED
      BY <2>1, <3>1, <3>2 DEF Encoding
  <2> QED
    BY <2>1, <2>3 DEF Emptying, Filmed, Clearing
<1>4. CASE FinishVideo
  <2>1. /\ phase = "encode" /\ phase' = "clearRaw"
        /\ saved' = saved \union Frames({x \in reel : x.whole})
        /\ UNCHANGED <<arrived, epoch, stored>>
    BY <1>4 DEF FinishVideo
  <2>2. Unbroken \subseteq saved'
    BY <2>1, ReelComplete
  <2>3. Unbroken' = Unbroken
    BY <2>1 DEF Unbroken, SessionFrames
  <2> QED
    BY <2>1, <2>2, <2>3 DEF Emptying, Encoding, Filmed, Clearing
<1>5. CASE /\ ~ListAnnotated /\ ~LaunchFfmpeg /\ ~FinishVideo
           /\ \A n \in doomed : ~DeleteAnnotated(n)
  <2>1. /\ annotated' = annotated
        /\ phase' = "encode" => phase = "encode" /\ UNCHANGED <<source, reel>>
        /\ phase' = "clearAnnotated" => phase = "clearAnnotated" /\ doomed' = doomed
    BY <1>5 DEF RecorderStep, Callback, StitchOnIdle, StitchAndClean, Establish,
       CancelPending, DiscardFrame, NumberFrame, CreateFile, FillFile,
       WriteFails, Vanish, Close, CloseSchedule, IdleBegin, IdleCheck,
       IdleSchedule, BeginStitch, ChooseSource, StitchFails, DeleteRaw,
       ResetCounter, EndStitch, ToggleCamera, Tick, folderVars, stitchVars
  <2>2. ASSUME phase' = "encode" PROVE raw' = raw
    <3>1. \A s \in Session : ~CreateFile(s) /\ ~FillFile(s)
      BY <2>1, <2>2 DEF CreateFile, FillFile, Orderly, Settled, Writing
    <3> QED
      BY <1>5, <2>1, <2>2, <3>1 DEF RecorderStep, Callback, StitchOnIdle,
         StitchAndClean, Establish, CancelPending, DiscardFrame, NumberFrame,
         WriteFails, Vanish, Close, CloseSchedule, IdleBegin, IdleCheck,
         IdleSchedule, BeginStitch, ChooseSource, StitchFails, DeleteRaw,
         ResetCounter, EndStitch, ToggleCamera, Tick, folderVars
  <2>3. Listed(annotated') = Listed(annotated) /\ Sequence(annotated') = Sequence(annotated)
    BY <2>1
  <2>4. phase' = "encode" =>
          Listed(raw') = Listed(raw) /\ Sequence(raw') = Sequence(raw)
    BY <2>2
  <2>5. Emptying' /\ Encoding'
    BY <2>1, <2>3, <2>4 DEF Faithful, Emptying, Encoding
  <2>6. Filmed'
    <3>1. saved' = saved /\ Next
      BY <1>5, RecorderSteps, SavedStays
    <3>2. phase' \in Clearing => phase \in Clearing /\ Unbroken' = Unbroken
      BY <1>5, <3>1, ClearingStays DEF Unbroken
    <3> QED
      BY <3>1, <3>2 DEF Faithful, Filmed
  <2> QED
    BY <2>5, <2>6
<1> QED
  BY <1>1, <1>2, <1>3, <1>4, <1>5

LEMMA ReelGenuine ==
  ASSUME Orderly, Faithful, phase = "encode", source \in {"raw", "annotated"}
  PROVE  \A x \in reel : x.whole =>
           x.frame \in stored /\ x.frame \in Frames({y \in raw : y.whole})
<1>1. CASE source = "raw"
  <2>1. reel \subseteq raw
    BY <1>1 DEF Faithful, Encoding, Sequence
  <2> QED
    BY <2>1 DEF Orderly, RawFiles, Frames
<1>2. CASE source = "annotated"
  <2>1. \A x \in reel : x.frame \in SessionFrames /\ x.frame \in stored
    BY <1>2 DEF Faithful, Encoding, Sequence, Copies, OfSession
  <2> QED
    BY <2>1 DEF Orderly, Kept, Present, Clearing, Frames
<1> QED
  BY <1>1, <1>2

LEMMA RecorderKeepsGenuine ==
  ASSUME TypeInv, Orderly, Faithful, RecorderStep,
         mishaps' \subseteq {"writeFailed"}
  PROVE  Genuine'
<1>1. CASE FinishVideo
  <2>1. /\ phase = "encode" /\ stored' = stored
        /\ saved' = saved \union Frames({x \in reel : x.whole})
    BY <1>1 DEF FinishVideo
  <2>2. \A x \in reel : x.whole => x.frame \in stored
    BY <2>1, ReelGenuine DEF TypeInv, TypeOK
  <2> QED
    BY <2>1, <2>2 DEF Faithful, Genuine, Frames
<1>2. CASE ~FinishVideo
  <2> Next /\ ~Restart
    BY RecorderSteps DEF Restart
  <2>1. saved' = saved /\ stored \subseteq stored'
    BY <1>2, SavedStays, FramesStay DEF ResetCounter, NumberFrame, FillFile
  <2> QED
    BY <2>1 DEF Faithful, Genuine
<1> QED
  BY <1>1, <1>2

LEMMA RecorderKeepsFaithful ==
  ASSUME TypeInv, Orderly, Faithful, RecorderStep,
         mishaps' \subseteq {"writeFailed"}, slips' = {}
  PROVE  Faithful'
<1>1. Apart'
  BY RecorderSteps DEF RecorderStep, Flag, Apart, processVars
<1>2. Named'
  <2>1. frameCounter' <= NameLimit
    <3>1. frameCounter' \in Nat /\ NameLimit \in Nat
      BY RecorderSteps, TypeStep, FoldersAssumption
         DEF TypeInv, TypeOK, FoldersAssumption
    <3> QED
      BY <3>1 DEF RecorderStep, Flag
  <2>2. ASSUME NEW x \in raw' PROVE x.num < NameLimit
    <3>1. CASE \E s \in Session : CreateFile(s)
      <4>1. PICK s \in Session : CreateFile(s)
        BY <3>1
      <4>2. x \in raw \/ x.num = slot[s].num
        BY <2>2, <4>1, CreateFiles DEF CreateFile
      <4>3. slot[s].num < NameLimit
        <5>1. /\ slot[s].frame \in SessionFrames
              /\ slot[s].frame = epoch + slot[s].num + 1
              /\ arrived = epoch + frameCounter
          BY <4>1 DEF CreateFile, Writing, Orderly, Numbering
        <5>2. /\ slot[s].num \in Nat /\ epoch \in Nat /\ arrived \in Nat
              /\ frameCounter \in Nat /\ NameLimit \in Nat
          BY FoldersAssumption DEF TypeInv, TypeOK, FoldersAssumption
        <5> QED
          BY <5>1, <5>2 DEF SessionFrames, Faithful, Named
      <4> QED
        BY <4>2, <4>3 DEF Faithful, Named
    <3>2. CASE \E s \in Session : FillFile(s)
      <4>1. PICK s \in Session : FillFile(s)
        BY <3>2
      <4> DEFINE f == slot[s].frame
      <4>2. f \in Frame /\ raw \subseteq File /\ raw' = Fill(raw, f)
        BY <4>1 DEF FillFile, Writing, TypeInv, TypeOK, SlotOK
      <4> HIDE DEF f
      <4>3. \A z \in Fill(raw, f) : \E y \in raw :
              /\ z.num = y.num /\ z.frame = y.frame
              /\ z = [y EXCEPT !.whole = y.whole \/ y.frame = f]
              /\ z.whole => y.whole \/ y.frame = f
        BY <4>2, FillFiles
      <4>4. \E y \in raw : x.num = y.num
        BY <2>2, <4>2, <4>3
      <4> QED
        BY <4>4 DEF Faithful, Named
    <3>3. CASE \A s \in Session : ~CreateFile(s) /\ ~FillFile(s)
      <4>1. raw' \subseteq raw
        BY <3>3 DEF RecorderStep, Callback, StitchOnIdle, StitchAndClean,
           Establish, CancelPending, DiscardFrame, NumberFrame, WriteFails,
           Vanish, Close, CloseSchedule, IdleBegin, IdleCheck, IdleSchedule,
           BeginStitch, ChooseSource, LaunchFfmpeg, StitchFails, FinishVideo,
           DeleteRaw, ListAnnotated, DeleteAnnotated, ResetCounter, ToggleCamera,
           Tick, folderVars, Without
      <4> QED
        BY <2>2, <4>1 DEF Faithful, Named
    <3> QED
      BY <3>1, <3>2, <3>3
  <2> QED
    BY <2>1, <2>2 DEF Named
<1> QED
  BY <1>1, <1>2, RecorderKeepsCopies, RecorderKeepsStitch, RecorderKeepsGenuine
     DEF Faithful

(* A step of the detector without a slip keeps each part as well.           *)
LEMMA PictureRead ==
  ASSUME TypeInv, Orderly, Faithful, D!ReadFrame, image'.whole,
         UNCHANGED <<epoch, arrived, stored>>
  PROVE  OfSession(image')
<1>1. PICK x \in raw : image' = x
  BY DEF D!ReadFrame
<1>2. x.frame \in stored
  BY <1>1 DEF Orderly, RawFiles
<1>3. x.frame \in SessionFrames /\ x.frame = epoch + x.num + 1
  BY SessionFiles DEF Faithful
<1> QED
  BY <1>1, <1>2, <1>3 DEF OfSession

LEMMA DetectorKeepsCopies ==
  ASSUME TypeInv, DetectorTypes, Orderly, Faithful, DetectorStep, slips' = {}
  PROVE  InHand' /\ Copies'
<1>1. /\ UNCHANGED <<raw, epoch, arrived, stored, phase>>
      /\ ~D!Unreadable /\ ~D!Crash /\ ~D!AnnotateFails
      /\ D!ReadFrame => image'.whole
  BY DetectorLeaves DEF DetectorStep, Flag, stitchVars, observerVars
<1>2. \A x : OfSession(x) => OfSession(x)'
  BY <1>1 DEF OfSession, SessionFrames
<1>3. CASE D!Scan
  <2>1. /\ detPc = "scan" /\ detPc' \in {"scan", "process"}
        /\ annotated' = annotated
    BY <1>3 DEF D!Scan
  <2>2. ASSUME NEW x \in annotated' PROVE OfSession(x)' /\ x.whole
    BY <2>1, <1>2 DEF Faithful, Copies
  <2> QED
    BY <2>1, <2>2 DEF InHand, Copies
<1>4. CASE D!ReadFrame
  <2>1. detPc = "process" /\ detPc' = "decoded" /\ annotated' = annotated
    BY <1>4 DEF D!ReadFrame
  <2>2. OfSession(image') /\ image'.whole
    BY <1>1, <1>4, PictureRead
  <2>3. InHand'
    BY <1>1, <1>2, <2>2 DEF InHand, OfSession
  <2>4. ASSUME NEW x \in annotated' PROVE OfSession(x)' /\ x.whole
    BY <2>1, <1>2 DEF Faithful, Copies
  <2> QED
    BY <2>3, <2>4 DEF Copies
<1>5. CASE D!BeginAnnotated
  <2> DEFINE n == image.num
             f == image.frame
  <2>1. /\ detPc = "decoded" /\ detPc' = "writing" /\ image' = image
        /\ annotated' = Create(annotated, n, f)
    BY <1>5, DetectorFolders DEF D!BeginAnnotated
  <2>2. image.whole /\ OfSession(image)
    BY <2>1 DEF Faithful, InHand
  <2>3. InHand'
    BY <1>2, <2>1, <2>2 DEF InHand, OfSession
  <2>4. \A x \in annotated' :
          \/ x \in annotated /\ x.num # n
          \/ x.num = n /\ x.frame = f
    <3> HIDE DEF n, f
    <3> QED
      BY <2>1, CreateFiles
  <2>5. ASSUME NEW x \in annotated'
        PROVE OfSession(x)' /\ (x.whole \/ x.num = image'.num)
    <3>1. OfSession(x) /\ (x.whole \/ x.num = image.num)
      BY <2>1, <2>2, <2>4 DEF Faithful, Copies, OfSession
    <3> QED
      BY <1>2, <2>1, <3>1
  <2> QED
    BY <2>1, <2>3, <2>5 DEF Copies
<1>6. CASE D!FinishAnnotated
  <2> DEFINE f == image.frame
  <2>1. /\ detPc = "writing" /\ detPc' \in {"scan", "process"}
    BY <1>6 DEF D!FinishAnnotated, D!Processed
  <2>2. image.whole /\ OfSession(image) /\ f \in Frame /\ annotated \subseteq File
    BY <2>1 DEF Faithful, InHand, DetectorTypes, TypeInv, TypeOK
  <2>3. annotated' = Fill(annotated, f)
    BY <1>6, <2>2, DetectorFolders DEF D!FinishAnnotated
  <2>4. ASSUME NEW x \in annotated' PROVE OfSession(x) /\ x.whole
    <3>1. PICK y \in annotated :
            /\ x.num = y.num /\ x.frame = y.frame
            /\ x = [y EXCEPT !.whole = y.whole \/ y.frame = f]
      <4> HIDE DEF f
      <4> QED
        BY <2>2, <2>3, FillFiles
    <3>2. OfSession(y) /\ (y.whole \/ y.num = image.num)
      BY DEF Faithful, Copies
    <3>3. y.whole \/ y.frame = f
      BY <2>2, <3>2 DEF OfSession
    <3>4. y \in [num : Nat, frame : Frame, whole : BOOLEAN]
      BY <2>2 DEF File
    <3>5. x.whole
      BY <3>1, <3>3, <3>4
    <3> QED
      BY <3>1, <3>2, <3>5 DEF OfSession
  <2>5. ASSUME NEW x \in annotated' PROVE OfSession(x)' /\ x.whole
    BY <1>2, <2>4
  <2> QED
    BY <2>1, <2>5 DEF InHand, Copies
<1> QED
  BY <1>1, <1>3, <1>4, <1>5, <1>6 DEF DetectorStep, D!Next

LEMMA DetectorKeepsFaithful ==
  ASSUME TypeInv, DetectorTypes, Orderly, Faithful, DetectorStep, slips' = {}
  PROVE  Faithful'
<1>1. UNCHANGED <<raw, frameCounter, phase, source, reel, doomed, stored, saved,
                  arrived, epoch>>
  BY DetectorLeaves DEF sessionVars, stitchVars, observerVars
<1>2. Apart'
  BY <1>1 DEF DetectorStep, Flag, Apart
<1>3. phase \in Consuming => annotated' = annotated
  BY DEF DetectorStep, Faithful, Apart, Batch, D!Next, D!Scan, D!Unreadable,
     D!ReadFrame, D!Crash, D!BeginAnnotated, D!FinishAnnotated, D!AnnotateFails
<1>4. Named' /\ Filmed' /\ Genuine'
  BY <1>1 DEF Faithful, Named, Filmed, Genuine, Unbroken, SessionFrames
<1>5. Emptying' /\ Encoding'
  <2>1. phase \in Consuming =>
          /\ Listed(annotated') = Listed(annotated)
          /\ Sequence(annotated') = Sequence(annotated)
          /\ Listed(raw') = Listed(raw) /\ Sequence(raw') = Sequence(raw)
    BY <1>1, <1>3
  <2> QED
    BY <1>1, <2>1 DEF Faithful, Emptying, Encoding, Consuming
<1> QED
  BY <1>2, <1>4, <1>5, DetectorKeepsCopies DEF Faithful

LEMMA FaithfulStep ==
  ASSUME TypeInv, DetectorTypes, Orderly, Faithful,
         [PipelineNext]_pipelineVars, mishaps' \subseteq {"writeFailed"},
         slips' = {}
  PROVE  Faithful'
<1>1. CASE RecorderStep
  BY <1>1, RecorderKeepsFaithful
<1>2. CASE DetectorStep
  BY <1>2, DetectorKeepsFaithful
<1>3. CASE RestartServer
  BY <1>3 DEF RestartServer, Restart
<1>4. CASE UNCHANGED pipelineVars
  BY <1>4
     DEF pipelineVars, processVars, recorderVars, sessionVars, folderVars,
         stitchVars, observerVars, Faithful, Named, Apart, InHand, Copies,
         Emptying, Encoding, Filmed, Genuine, OfSession, Unbroken, SessionFrames
<1> QED
  BY <1>1, <1>2, <1>3, <1>4 DEF PipelineNext

LEMMA PipelineInvStep ==
  PipelineTypeInv /\ PipelineInv /\ [PipelineNext]_pipelineVars => PipelineInv'
<1> SUFFICES ASSUME TypeInv, DetectorTypes, PipelineInv,
                    [PipelineNext]_pipelineVars
             PROVE  PipelineInv'
  BY DEF PipelineTypeInv
<1>1. mishaps \subseteq mishaps' /\ slips \subseteq slips'
  BY MishapsStay, SlipsGrow
<1>2. FramesInv'
  BY FramesInvStep DEF PipelineInv
<1>3. ASSUME mishaps' \subseteq {"writeFailed"}, slips' = {} PROVE Faithful'
  BY <1>1, <1>3, FaithfulStep DEF PipelineInv, FramesInv
<1>4. ASSUME mishaps' = {}, slips' = {} PROVE Archived'
  <2>1. Orderly /\ Complete /\ Faithful /\ Archived
    BY <1>1, <1>4 DEF PipelineInv, FramesInv
  <2>2. CASE RecorderStep
    <3>1. phase = "clearAnnotated" => SessionFrames \subseteq saved
      BY <2>1, WholeSessionFilmed DEF Clearing
    <3> QED
      BY <1>4, <2>1, <2>2, <3>1, RecorderSteps, ArchivedStep
  <2>3. CASE DetectorStep
    BY <2>1, <2>3, DetectorLeaves, DetectorKeepsOrder
  <2>4. CASE RestartServer
    BY <1>4, <2>4 DEF RestartServer, Restart
  <2>5. CASE UNCHANGED pipelineVars
    BY <2>1, <2>5 DEF pipelineVars, recorderVars, observerVars, Archived
  <2> QED
    BY <2>2, <2>3, <2>4, <2>5 DEF PipelineNext
<1> QED
  BY <1>2, <1>3, <1>4 DEF PipelineInv

LEMMA PipelineInvariant == PipelineSpec => [](PipelineTypeInv /\ PipelineInv)
<1>1. PipelineInit => PipelineTypeInv /\ PipelineInv
  BY PipelineTypeInit, PipelineInvInit
<1>2. PipelineTypeInv /\ PipelineInv /\ [PipelineNext]_pipelineVars
        => (PipelineTypeInv /\ PipelineInv)'
  BY PipelineTypeStep, PipelineInvStep
<1> QED
  BY <1>1, <1>2, PTL DEF PipelineSpec

-----------------------------------------------------------------------------
(* Without a slip of the detector, no frame that was written is in neither  *)
(* frames/ nor a video, until a mishap.                                     *)
THEOREM LossesNeedSlips == PipelineSpec => []LossNeedsSlip
<1>1. PipelineTypeInv /\ PipelineInv => LossNeedsSlip
  <2> SUFFICES ASSUME TypeInv, Orderly, Complete, Faithful, Archived,
                      NEW f \in stored
               PROVE  f \in saved \union Frames(raw)
    BY DEF PipelineTypeInv, PipelineInv, FramesInv, LossNeedsSlip, NoQuietLoss
  <2>1. f \in Nat /\ epoch \in Nat /\ arrived \in Nat /\ f <= arrived
    BY DEF TypeInv, TypeOK, Frame, Orderly, Kept
  <2>2. CASE f <= epoch
    BY <2>2 DEF Archived
  <2>3. CASE f > epoch
    <3>1. f \in SessionFrames
      BY <2>1, <2>3 DEF SessionFrames
    <3>2. CASE phase \in Clearing
      BY <3>1, <3>2, WholeSessionFilmed
    <3>3. CASE phase \notin Clearing
      BY <3>1, <3>3 DEF Orderly, Kept, Present, Frames
    <3> QED
      BY <3>2, <3>3
  <2> QED
    BY <2>1, <2>2, <2>3
<1> QED
  BY <1>1, PipelineInvariant, PTL

(* Without a slip, whichever folder it is made from, the video has every    *)
(* frame of its session, whole, and none of an earlier one, until a mishap. *)
THEOREM VideosCompleteWithDetector == PipelineSpec => []VideoCompleteWithoutSlip
<1>1. PipelineTypeInv /\ PipelineInv => VideoCompleteWithoutSlip
  <2> SUFFICES ASSUME TypeInv, Orderly, Complete, Faithful, phase = "encode"
               PROVE  /\ Frames(reel) = SessionFrames
                      /\ \A x \in reel : x.whole
    BY DEF PipelineTypeInv, PipelineInv, FramesInv, VideoCompleteWithoutSlip,
       VideoComplete, SessionFrames
  <2>1. SessionFrames \subseteq Frames(reel)
    BY WholeSessionFilmed DEF Frames
  <2>2. ASSUME NEW x \in reel PROVE x.frame \in SessionFrames /\ x.whole
    <3>1. CASE source = "annotated"
      <4>1. x \in annotated /\ detPc # "writing"
        BY <3>1 DEF Faithful, Encoding, Apart, Consuming, Batch, Sequence
      <4> QED
        BY <4>1 DEF Faithful, Copies, OfSession
    <3>2. CASE source = "raw"
      <4>1. x \in raw
        BY <3>2 DEF Faithful, Encoding, Sequence
      <4>2. x.frame \in SessionFrames /\ x.frame = epoch + x.num + 1
        BY <4>1, SessionFiles DEF Faithful
      <4>3. SessionFrames \subseteq stored
        BY AllUnbroken DEF Orderly, Settled
      <4>4. PICK y \in raw : y.frame = x.frame /\ y.whole
        BY <4>2, <4>3 DEF Orderly, Kept, Present, Clearing
      <4>5. y.frame = epoch + y.num + 1
        BY SessionFiles DEF Faithful
      <4>6. x.num \in Nat /\ y.num \in Nat /\ epoch \in Nat
        BY <4>1 DEF TypeInv, TypeOK, File
      <4>7. y.num = x.num
        BY <4>2, <4>4, <4>5, <4>6
      <4> QED
        BY <4>1, <4>2, <4>4, <4>7 DEF Orderly, RawFiles
    <3> QED
      BY <3>1, <3>2 DEF TypeInv, TypeOK
  <2> QED
    BY <2>1, <2>2 DEF Frames
<1> QED
  BY <1>1, PipelineInvariant, PTL

(* The pair implements SessionRecorder: as for the recorder alone, FillFile *)
(* records and FinishVideo stitches, from either folder; the detector writes*)
(* nothing that counts.                                                     *)
LEMMA PairStitches ==
  ASSUME TypeInv, Orderly, Complete, Faithful, FinishVideo
  PROVE  OnDisk' = {} /\ saved' = saved \union OnDisk
<1>1. /\ phase = "encode" /\ raw' = raw
      /\ saved' = saved \union Frames({x \in reel : x.whole})
  BY DEF FinishVideo, folderVars
<1>2. SessionFrames \subseteq saved'
  BY <1>1, WholeSessionFilmed
<1>3. \A x \in raw : x.frame \in saved'
  BY <1>2, SessionFiles DEF Faithful
<1>4. Frames({x \in reel : x.whole}) \subseteq Frames({y \in raw : y.whole})
  BY <1>1, ReelGenuine DEF Frames, TypeInv, TypeOK
<1>5. OnDisk' = {}
  BY <1>1, <1>3 DEF OnDisk, Frames
<1>6. saved' = saved \union OnDisk
  BY <1>1, <1>3, <1>4 DEF OnDisk, Frames
<1> QED
  BY <1>5, <1>6

(* Until the first mishap or slip, the recorder and the detector are one    *)
(* atomic session recorder.                                                 *)
THEOREM PairImplements == PipelineSpec => PairImplementsSessionRecorder
<1>1. PipelineInit => PromiseToo!Init
  BY DEF PipelineInit, Init, PromiseToo!Init, OnDisk, Frames
<1>2. PipelineTypeInv /\ PipelineInv /\ [PipelineNext]_pipelineVars =>
        [PromiseToo!Next]_PromiseToo!promiseVars
  <2> SUFFICES ASSUME TypeInv, PipelineInv, [PipelineNext]_pipelineVars
               PROVE  [PromiseToo!Next]_PromiseToo!promiseVars
    BY DEF PipelineTypeInv
  <2>1. CASE ~(mishaps' = {} /\ slips' = {})
    BY <2>1 DEF PromiseToo!Next
  <2>2. CASE mishaps' = {} /\ slips' = {}
    <3>1. mishaps = {} /\ slips = {}
      BY <2>2, MishapsStay, SlipsGrow
    <3>2. Orderly /\ Complete /\ Faithful /\ Archived
      BY <3>1 DEF PipelineInv, FramesInv
    <3>3. ASSUME NEW s \in Session, FillFile(s) PROVE PromiseToo!Next
      BY <2>2, <3>2, <3>3, FillRecords
         DEF Faithful, Genuine, PromiseToo!Next, PromiseToo!Record
    <3>4. CASE FinishVideo
      <4>1. OnDisk' = {} /\ saved' = saved \union OnDisk
        BY <3>2, <3>4, PairStitches
      <4>2. CASE OnDisk = {}
        BY <4>1, <4>2, <2>2, <3>1 DEF PromiseToo!promiseVars
      <4>3. CASE OnDisk # {}
        BY <4>1, <4>3, <2>2 DEF PromiseToo!Next, PromiseToo!Stitch
      <4> QED
        BY <4>2, <4>3
    <3>5. CASE Next /\ ~FinishVideo /\ \A s \in Session : ~FillFile(s)
      <4>1. phase \in Clearing => SessionFrames \subseteq saved
        BY <3>2, WholeSessionFilmed
      <4>2. UNCHANGED <<OnDisk, saved>>
        BY <2>2, <3>2, <3>5, <4>1, OthersStutter
      <4> QED
        BY <2>2, <3>1, <4>2 DEF PromiseToo!promiseVars
    <3>6. CASE DetectorStep \/ UNCHANGED pipelineVars
      <4>1. UNCHANGED <<raw, saved>>
        BY <3>6, DetectorLeaves
           DEF pipelineVars, recorderVars, folderVars, observerVars
      <4>2. OnDisk' = OnDisk
        BY <4>1 DEF OnDisk
      <4> QED
        BY <2>2, <3>1, <4>1, <4>2 DEF PromiseToo!promiseVars
    <3> QED
      BY <3>3, <3>4, <3>5, <3>6, RecorderSteps DEF PipelineNext
  <2> QED
    BY <2>1, <2>2
<1> QED
  BY <1>1, <1>2, PipelineInvariant, PTL
     DEF PipelineSpec, PairImplementsSessionRecorder, PromiseToo!Spec

(* Without a slip, a counter at 0 finds both folders empty, until a mishap  *)
(* that is not a failed write.                                              *)
THEOREM FoldersStartFresh == PipelineSpec => []BothFoldersFresh
<1>1. PipelineTypeInv /\ PipelineInv => BothFoldersFresh
  <2> SUFFICES ASSUME TypeInv, Orderly, Faithful, frameCounter = 0
               PROVE  Listed(raw) \union Listed(annotated) = {}
    BY DEF PipelineTypeInv, PipelineInv, FramesInv, BothFoldersFresh
  <2>1. SessionFrames = {}
    BY DEF Orderly, Numbering, SessionFrames, TypeInv, TypeOK
  <2>2. raw = {}
    BY <2>1, SessionFiles DEF Faithful
  <2>3. annotated = {}
    BY <2>1 DEF Faithful, Copies, OfSession
  <2> QED
    BY <2>2, <2>3 DEF Listed, Numbers
<1> QED
  BY <1>1, PipelineInvariant, PTL

(* Without a slip, the counter is not reset before every frame of the       *)
(* session that no gap precedes is in a video, whichever folder it is made  *)
(* from, until a mishap that is not a failed write.                         *)
THEOREM ResetsMeanSavedWithDetector ==
  PipelineSpec => ResetMeansSavedWithoutSlip
<1> DEFINE Step ==
      frameCounter' < frameCounter
      /\ mishaps' \subseteq {"writeFailed"} /\ slips' = {}
      => \A f \in (epoch + 1)..arrived :
           (epoch + 1)..f \subseteq stored => f \in saved
<1>1. PipelineTypeInv /\ PipelineInv /\ [PipelineNext]_pipelineVars
        => [Step]_pipelineVars
  <2> SUFFICES ASSUME TypeInv, PipelineInv, [PipelineNext]_pipelineVars,
                      frameCounter' < frameCounter,
                      mishaps' \subseteq {"writeFailed"}, slips' = {}
               PROVE  Unbroken \subseteq saved
    BY DEF PipelineTypeInv, Unbroken, SessionFrames
  <2>1. Faithful
    BY MishapsStay, SlipsGrow DEF PipelineInv
  <2>2. ResetCounter
    <3>1. frameCounter \in Nat
      BY DEF TypeInv, TypeOK
    <3>2. Next
      BY <3>1, DetectorLeaves, RecorderSteps
         DEF PipelineNext, pipelineVars, recorderVars, sessionVars
    <3>3. ~Restart
      BY DEF Restart
    <3> QED
      BY <3>1, <3>2, <3>3, OnlyResetsLower
  <2> QED
    BY <2>1, <2>2 DEF Faithful, Filmed, Clearing, ResetCounter
<1> QED
  BY <1>1, PipelineInvariant, PTL DEF PipelineSpec, ResetMeansSavedWithoutSlip

-----------------------------------------------------------------------------
(* Whatever slips there are, as long as no batch was being processed while  *)
(* the folders were being consumed, a listed file of annotated/, the picture*)
(* in the detector's hand and what ffmpeg reads show a frame of the session *)
(* under the number it has in frames/.                                      *)

Own(x) == x.num < NameLimit => x.frame = epoch + x.num + 1

HandOwn == detPc \in {"decoded", "writing"} => Own(image)

AllOwn ==
  /\ \A x \in annotated : Own(x)
  /\ phase = "encode" => \A x \in reel : Own(x)

OwnPictures == Apart /\ HandOwn /\ AllOwn /\ Emptying

OwnInv == mishaps \subseteq {"writeFailed"} /\ "busy" \notin slips => OwnPictures

LEMMA OwnInit == PipelineInit => OwnInv
BY DEF PipelineInit, Init, D!Init, OwnInv, OwnPictures, Apart, HandOwn, AllOwn,
       Emptying, Consuming

LEMMA RawOwn ==
  ASSUME TypeInv, Orderly
  PROVE  \A x \in raw : Own(x)
<1>1. \A x \in raw : x.num \in Nat /\ NameLimit \in Nat
  BY FoldersAssumption DEF FoldersAssumption, TypeInv, TypeOK, File
<1> QED
  BY <1>1 DEF Orderly, RawFiles, Own

(* The end of a stitch, when the next session's numbers begin.              *)
LEMMA ResetKeepsOwn ==
  ASSUME TypeInv, OwnPictures, ResetCounter, UNCHANGED processVars
  PROVE  OwnPictures'
<1>1. /\ phase = "clearAnnotated" /\ phase' = "free" /\ doomed = {}
      /\ annotated' = annotated
  BY DEF ResetCounter, EndStitch, folderVars
<1>2. UNCHANGED <<detPc, image>>
  BY DEF processVars
<1>3. detPc \notin Batch
  BY <1>1 DEF OwnPictures, Apart, Consuming
<1>4. \A x \in annotated : ~(x.num < NameLimit)
  BY <1>1 DEF OwnPictures, Emptying, Listed, Numbers
<1>5. Apart' /\ Emptying'
  BY <1>1 DEF Apart, Consuming, Emptying
<1>6. HandOwn'
  BY <1>2, <1>3 DEF HandOwn, Batch
<1>7. AllOwn'
  BY <1>1, <1>4 DEF AllOwn, Own
<1> QED
  BY <1>5, <1>6, <1>7 DEF OwnPictures

LEMMA LaunchKeepsOwn ==
  ASSUME TypeInv, Orderly, OwnPictures, LaunchFfmpeg
  PROVE  AllOwn'
<1>1. /\ reel' = Sequence(IF source = "annotated" THEN annotated ELSE raw)
      /\ annotated' = annotated /\ epoch' = epoch
  BY DEF LaunchFfmpeg, folderVars
<1>2. reel' \subseteq annotated \union raw
  BY <1>1 DEF Sequence
<1>3. \A x \in annotated \union raw : Own(x)
  BY RawOwn DEF OwnPictures, AllOwn
<1> QED
  BY <1>1, <1>2, <1>3 DEF AllOwn, Own

LEMMA ClearingKeepsEmptying ==
  ASSUME OwnPictures, Next, ~Restart, mishaps' \subseteq {"writeFailed"}
  PROVE  Emptying'
<1>1. CASE ListAnnotated
  <2>1. doomed' = Listed(annotated) /\ annotated' = annotated
    BY <1>1 DEF ListAnnotated, folderVars
  <2>2. Listed(annotated') = Listed(annotated)
    BY <2>1
  <2> QED
    BY <2>1, <2>2 DEF Emptying
<1>2. CASE \E n \in doomed : DeleteAnnotated(n)
  <2>1. PICK n \in doomed : DeleteAnnotated(n)
    BY <1>2
  <2>2. /\ phase = "clearAnnotated" /\ doomed' = doomed \ {n}
        /\ annotated' = Without(annotated, n)
    BY <2>1 DEF DeleteAnnotated
  <2> QED
    BY <2>2 DEF Without, Listed, Numbers, OwnPictures, Emptying
<1>3. CASE /\ ~ListAnnotated
           /\ \A n \in doomed : ~DeleteAnnotated(n)
  <2>1. phase' = "clearAnnotated" =>
          phase = phase' /\ doomed' = doomed /\ annotated' = annotated
    BY <1>3 DEF Next, Callback, StitchOnIdle, StitchAndClean, Establish,
       CancelPending, DiscardFrame, NumberFrame, CreateFile, FillFile,
       WriteFails, Vanish, Close, CloseSchedule, IdleBegin, IdleCheck,
       IdleSchedule, BeginStitch, ChooseSource, LaunchFfmpeg, StitchFails,
       FinishVideo, DeleteRaw, ResetCounter, EndStitch, ToggleCamera, Tick,
       stitchVars, folderVars
  <2>2. phase' = "clearAnnotated" => Listed(annotated') = Listed(annotated)
    BY <2>1
  <2> QED
    BY <2>1, <2>2 DEF OwnPictures, Emptying
<1> QED
  BY <1>1, <1>2, <1>3

LEMMA RecorderKeepsOwn ==
  ASSUME TypeInv, Orderly, OwnPictures, RecorderStep,
         mishaps' \subseteq {"writeFailed"}, "busy" \notin slips'
  PROVE  OwnPictures'
<1>1. UNCHANGED <<detPc, image>> /\ UNCHANGED processVars /\ Next
  BY RecorderSteps DEF processVars
<1>2. ~Restart
  BY DEF Restart
<1>3. CASE ResetCounter
  BY <1>1, <1>3, ResetKeepsOwn
<1>4. CASE ~ResetCounter
  <2>1. epoch' = epoch /\ annotated' \subseteq annotated
    BY <1>4 DEF RecorderStep, Callback, StitchOnIdle, StitchAndClean, Establish,
       CancelPending, DiscardFrame, NumberFrame, CreateFile, FillFile,
       WriteFails, Vanish, Close, CloseSchedule, IdleBegin, IdleCheck,
       IdleSchedule, BeginStitch, ChooseSource, LaunchFfmpeg, StitchFails,
       FinishVideo, DeleteRaw, ListAnnotated, DeleteAnnotated, ToggleCamera,
       Tick, folderVars, observerVars, Without
  <2>2. Apart'
    BY <1>1 DEF RecorderStep, Flag, Apart
  <2>3. HandOwn'
    BY <1>1, <2>1 DEF OwnPictures, HandOwn, Own
  <2>4. AllOwn'
    <3>1. CASE LaunchFfmpeg
      BY <3>1, LaunchKeepsOwn
    <3>2. CASE ~LaunchFfmpeg
      <4>1. phase' = "encode" => phase = "encode" /\ reel' = reel
        BY <1>4, <3>2 DEF RecorderStep, Callback, StitchOnIdle, StitchAndClean,
           Establish, CancelPending, DiscardFrame, NumberFrame, CreateFile,
           FillFile, WriteFails, Vanish, Close, CloseSchedule, IdleBegin,
           IdleCheck, IdleSchedule, BeginStitch, ChooseSource, StitchFails,
           FinishVideo, DeleteRaw, ListAnnotated, DeleteAnnotated, EndStitch,
           ToggleCamera, Tick, stitchVars
      <4> QED
        BY <2>1, <4>1 DEF OwnPictures, AllOwn, Own
    <3> QED
      BY <3>1, <3>2
  <2>5. Emptying'
    BY <1>1, <1>2, ClearingKeepsEmptying
  <2> QED
    BY <2>2, <2>3, <2>4, <2>5 DEF OwnPictures
<1> QED
  BY <1>3, <1>4

(* What the detector writes is the picture it has in hand.                  *)
LEMMA DetectorWrites ==
  ASSUME TypeInv, DetectorTypes, Orderly, OwnPictures, D!Next,
         raw' = raw, epoch' = epoch
  PROVE  HandOwn' /\ \A x \in annotated' : Own(x)
<1>1. CASE D!Scan \/ D!Unreadable \/ D!Crash \/ D!AnnotateFails
  <2>1. annotated' = annotated /\ detPc' \notin {"decoded", "writing"}
    BY <1>1 DEF D!Scan, D!Unreadable, D!Crash, D!AnnotateFails, D!Processed
  <2> QED
    BY <2>1 DEF OwnPictures, AllOwn, HandOwn
<1>2. CASE D!ReadFrame
  <2>1. image' \in raw /\ annotated' = annotated
    BY <1>2 DEF D!ReadFrame
  <2>2. Own(image')
    BY <2>1, RawOwn
  <2> QED
    BY <2>1, <2>2 DEF OwnPictures, AllOwn, HandOwn, Own
<1>3. CASE D!BeginAnnotated
  <2> DEFINE n == image.num
             f == image.frame
  <2>1. /\ detPc = "decoded" /\ image' = image
        /\ annotated' = Create(annotated, n, f)
    BY <1>3, DetectorFolders DEF D!BeginAnnotated
  <2>2. Own(image)
    BY <2>1 DEF OwnPictures, HandOwn
  <2>3. \A x \in annotated' :
          \/ x \in annotated /\ x.num # n
          \/ x.num = n /\ x.frame = f
    <3> HIDE DEF n, f
    <3> QED
      BY <2>1, CreateFiles
  <2>4. \A x \in annotated' : Own(x)
    BY <2>2, <2>3 DEF OwnPictures, AllOwn, Own
  <2> QED
    BY <2>1, <2>2, <2>4 DEF HandOwn, Own
<1>4. CASE D!FinishAnnotated
  <2> DEFINE f == image.frame
  <2>1. /\ detPc = "writing" /\ detPc' \notin {"decoded", "writing"}
        /\ annotated' \in {annotated, Fill(annotated, f)}
    BY <1>4, DetectorFolders DEF D!FinishAnnotated, D!Processed
  <2>2. f \in Frame /\ annotated \subseteq File
    BY <2>1 DEF DetectorTypes, TypeInv, TypeOK
  <2> HIDE DEF f
  <2>3. ASSUME NEW z \in Fill(annotated, f)
        PROVE  \E y \in annotated : z.num = y.num /\ z.frame = y.frame
    <3>1. PICK y \in annotated :
            /\ z.num = y.num /\ z.frame = y.frame
            /\ z = [y EXCEPT !.whole = y.whole \/ y.frame = f]
      BY <2>2, FillFiles
    <3> QED
      BY <3>1
  <2>4. \A x \in annotated' : Own(x)
    BY <2>1, <2>3 DEF OwnPictures, AllOwn, Own
  <2> QED
    BY <2>1, <2>4 DEF HandOwn
<1> QED
  BY <1>1, <1>2, <1>3, <1>4 DEF D!Next

LEMMA DetectorKeepsOwn ==
  ASSUME TypeInv, DetectorTypes, Orderly, OwnPictures, DetectorStep,
         "busy" \notin slips'
  PROVE  OwnPictures'
<1>1. UNCHANGED <<raw, phase, reel, doomed, epoch>>
  BY DetectorLeaves DEF stitchVars, observerVars
<1>2. Apart'
  BY <1>1 DEF DetectorStep, Flag, Apart
<1>3. phase \in Consuming => annotated' = annotated
  BY DEF DetectorStep, OwnPictures, Apart, Batch, D!Next, D!Scan, D!Unreadable,
     D!ReadFrame, D!Crash, D!BeginAnnotated, D!FinishAnnotated, D!AnnotateFails
<1>4. HandOwn' /\ \A x \in annotated' : Own(x)
  BY <1>1, DetectorWrites DEF DetectorStep
<1>5. AllOwn'
  BY <1>1, <1>4 DEF OwnPictures, AllOwn, Own
<1>6. Emptying'
  <2>1. phase = "clearAnnotated" => Listed(annotated') = Listed(annotated)
    BY <1>3 DEF Consuming
  <2> QED
    BY <1>1, <2>1 DEF OwnPictures, Emptying
<1> QED
  BY <1>2, <1>4, <1>5, <1>6 DEF OwnPictures

LEMMA OwnStep ==
  PipelineTypeInv /\ FramesInv /\ OwnInv /\ [PipelineNext]_pipelineVars
    => OwnInv'
<1> SUFFICES ASSUME TypeInv, DetectorTypes, FramesInv, OwnInv,
                    [PipelineNext]_pipelineVars,
                    mishaps' \subseteq {"writeFailed"}, "busy" \notin slips'
             PROVE  OwnPictures'
  BY DEF PipelineTypeInv, OwnInv
<1>1. Orderly /\ OwnPictures
  BY MishapsStay, SlipsGrow DEF FramesInv, OwnInv
<1>2. CASE RecorderStep
  BY <1>1, <1>2, RecorderKeepsOwn
<1>3. CASE DetectorStep
  BY <1>1, <1>3, DetectorKeepsOwn
<1>4. CASE RestartServer
  BY <1>4 DEF RestartServer, Restart
<1>5. CASE UNCHANGED pipelineVars
  BY <1>1, <1>5
     DEF pipelineVars, processVars, recorderVars, folderVars, stitchVars,
         observerVars, OwnPictures, Apart, HandOwn, AllOwn, Emptying, Own
<1> QED
  BY <1>2, <1>3, <1>4, <1>5 DEF PipelineNext

(* Slips cost frames, but a video shows frames of its own session only, each*)
(* at its place, unless the detector was busy while folders were consumed.  *)
THEOREM VideosOfOneSession == PipelineSpec => []VideoOfOneSession
<1>1. PipelineInit => PipelineTypeInv /\ FramesInv /\ OwnInv
  BY PipelineTypeInit, FramesInvInit, OwnInit
<1>2. PipelineTypeInv /\ FramesInv /\ OwnInv /\ [PipelineNext]_pipelineVars
        => (PipelineTypeInv /\ FramesInv /\ OwnInv)'
  BY PipelineTypeStep, FramesInvStep, OwnStep DEF PipelineTypeInv
<1>3. OwnInv => VideoOfOneSession
  BY DEF OwnInv, OwnPictures, AllOwn, Own, VideoOfOneSession
<1> QED
  BY <1>1, <1>2, <1>3, PTL DEF PipelineSpec

=============================================================================
