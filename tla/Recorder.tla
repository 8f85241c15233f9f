------------------------------ MODULE Recorder ------------------------------
(***************************************************************************)
(* The camera recorder, FrameWebSocketHandler.java: WebSocket sessions     *)
(* save numbered JPEG files in frames/, and a single-threaded executor     *)
(* stitches them into a video and clears the folders, either a grace       *)
(* period after a disconnection or when no frame has arrived for long.     *)
(*                                                                         *)
(* Threads: one container thread per session (its callbacks are            *)
(* sequential), the Spring scheduling thread (stitchOnIdle), the executor  *)
(* of delayed stitches, and the ffmpeg process.  They share frameCounter,  *)
(* pendingStitch, lastFrameMs and the folders, without any lock.           *)
(*                                                                         *)
(* Time is counted in ticks; StitchDelay and IdleStitch are STITCH_DELAY_MS*)
(* and IDLE_STITCH_MS in that unit.  A timer may fire late, never early.   *)
(***************************************************************************)
EXTENDS Folders

CONSTANTS
  Session,      (* WebSocket sessions; each connects at most once per start  *)
  Task,         (* identities of the executor's ScheduledFutures, recycled  *)
  NoTask,       (* pendingStitch before the first one (null)                *)
  StitchDelay,  (* STITCH_DELAY_MS, in ticks                                *)
  IdleStitch    (* IDLE_STITCH_MS, in ticks                                 *)

ASSUME RecorderAssumption ==
  /\ NoTask \notin Task
  /\ StitchDelay \in Nat
  /\ IdleStitch \in Nat

VARIABLES
  conn,          (* conn[s]: the connection as the network sees it          *)
  pc,            (* pc[s]: where the thread of session s is in its callback *)
  slot,          (* slot[s]: number and frame the thread is writing         *)
  cameraEnabled, (* ServerState.cameraEnabled                               *)
  frameCounter,
  idle,          (* ticks since lastFrameMs, saturating at IdleStitch       *)
  raw,           (* the files of frames/                                    *)
  annotated,     (* the files of annotated/, written by the detector        *)
  pendingStitch,
  active,        (* the futures whose isDone() is FALSE                     *)
  left,          (* left[t]: ticks before t is due                          *)
  idlePc,        (* where stitchOnIdle is                                   *)
  running,       (* the future the executor thread is executing             *)
  phase,         (* where it is in stitchAndClean                           *)
  source,        (* sourceDir                                               *)
  reel,          (* the files ffmpeg opened                                 *)
  doomed         (* numbers of the listed files still to be deleted         *)

(* Observers: no action of the program reads them.                          *)
VARIABLES
  arrived,       (* frames numbered so far; the k-th one is frame k         *)
  epoch,         (* value of arrived when frameCounter was last reset       *)
  stored,        (* frames whose Files.write returned, without those that a *)
                 (* restart has found on disk                               *)
  saved,         (* frames in a finished video                              *)
  lately,        (* frames of the video whose name the clock still gives    *)
  mishaps        (* the kinds of Mishap that have happened                  *)

sessionVars  == <<conn, pc, slot, cameraEnabled, frameCounter, idle>>
folderVars   == <<raw, annotated>>
executorVars == <<pendingStitch, active, left, idlePc>>
stitchVars   == <<running, phase, source, reel, doomed>>
observerVars == <<arrived, epoch, stored, saved, lately, mishaps>>
recorderVars == <<sessionVars, folderVars, executorVars, stitchVars,
                  observerVars>>

Writing == {"numbered", "created"}

NoSlot == [num |-> 0, frame |-> 0]

(* A frame was being written while a stitch was under way, or even while it *)
(* reset the counter; Files.write threw; File.delete returned FALSE; a video*)
(* was given the name of another one; the server was killed and restarted.  *)
Mishap == {"overlap", "straddled", "writeFailed", "deleteFailed", "sameName",
           "restarted"}

-----------------------------------------------------------------------------
(* Identities that denote no future the program can still reach.            *)
FreeTask == Task \ (active \union {running, pendingStitch})

-----------------------------------------------------------------------------
Init ==
  /\ conn = [s \in Session |-> "new"]
  /\ pc = [s \in Session |-> "idle"]
  /\ slot = [s \in Session |-> NoSlot]
  /\ cameraEnabled = FALSE
  /\ frameCounter = 0
  /\ idle = IdleStitch
  /\ raw = {}
  /\ annotated = {}
  /\ pendingStitch = NoTask
  /\ active = {}
  /\ left = [t \in Task |-> 0]
  /\ idlePc = "waiting"
  /\ running = NoTask
  /\ phase = "free"
  /\ source = "raw"
  /\ reel = {}
  /\ doomed = {}
  /\ arrived = 0
  /\ epoch = 0
  /\ stored = {}
  /\ saved = {}
  /\ lately = {}
  /\ mishaps = {}

-----------------------------------------------------------------------------
(* Callbacks of a WebSocket session.                                        *)

(* Mutant: a connection that does not cancel anything starts a new session. *)
EstablishResets(s) ==
  /\ conn[s] = "new"
  /\ \A r \in Session : conn[r] # "open"
  /\ conn' = [conn EXCEPT ![s] = "open"]
  /\ frameCounter' = IF pendingStitch \in active THEN frameCounter ELSE 0
  /\ epoch' = IF pendingStitch \in active THEN epoch ELSE arrived
  /\ pc' = [pc EXCEPT ![s] = IF pendingStitch \in active
                             THEN "cancelling" ELSE "idle"]
  /\ UNCHANGED <<slot, cameraEnabled, idle, folderVars, executorVars,
                 stitchVars, arrived, stored, saved, lately, mishaps>>

(* afterConnectionEstablished, up to its test of pendingStitch.  There is   *)
(* one pair of glasses: it connects again only after losing its connection, *)
(* which the server need not have noticed yet.                              *)
Establish(s) ==
  /\ conn[s] = "new"
  /\ \A r \in Session : conn[r] # "open"
  /\ conn' = [conn EXCEPT ![s] = "open"]
  /\ pc' = [pc EXCEPT ![s] = IF pendingStitch \in active
                             THEN "cancelling" ELSE "idle"]
  /\ UNCHANGED <<slot, cameraEnabled, frameCounter, idle, folderVars,
                 executorVars, stitchVars, observerVars>>

(* pendingStitch.cancel(false), on the future pendingStitch denotes by now: *)
(* the future is done at once, but a run that has begun goes on.            *)
CancelPending(s) ==
  /\ pc[s] = "cancelling"
  /\ active' = active \ {pendingStitch}
  /\ left' = [left EXCEPT ![pendingStitch] = 0]
  /\ pc' = [pc EXCEPT ![s] = "idle"]
  /\ UNCHANGED <<conn, slot, cameraEnabled, frameCounter, idle, folderVars,
                 pendingStitch, idlePc, stitchVars, observerVars>>

(* handleBinaryMessage while the camera is disabled: only the time stamp.   *)
DiscardFrame(s) ==
  /\ conn[s] = "open" /\ pc[s] = "idle"
  /\ ~cameraEnabled
  /\ idle' = 0
  /\ UNCHANGED <<conn, pc, slot, cameraEnabled, frameCounter, folderVars,
                 executorVars, stitchVars, observerVars>>

(* handleBinaryMessage up to frameCounter.getAndIncrement().                *)
NumberFrame(s) ==
  /\ conn[s] = "open" /\ pc[s] = "idle"
  /\ cameraEnabled
  /\ arrived < MaxFrames
  /\ idle' = 0
  /\ frameCounter' = frameCounter + 1
  /\ arrived' = arrived + 1
  /\ slot' = [slot EXCEPT ![s] = [num |-> frameCounter, frame |-> arrived + 1]]
  /\ pc' = [pc EXCEPT ![s] = "numbered"]
  /\ mishaps' = mishaps \union (IF phase # "free" THEN {"overlap"} ELSE {})
  /\ UNCHANGED <<conn, cameraEnabled, folderVars, executorVars, stitchVars,
                 epoch, stored, saved, lately>>

(* Files.write creates or truncates the file ...                            *)
CreateFile(s) ==
  /\ pc[s] = "numbered"
  /\ raw' = Create(raw, slot[s].num, slot[s].frame)
  /\ pc' = [pc EXCEPT ![s] = "created"]
  /\ UNCHANGED <<conn, slot, cameraEnabled, frameCounter, idle, annotated,
                 executorVars, stitchVars, observerVars>>

(* ... and then writes the bytes, into nothing if the file is gone.         *)
FillFile(s) ==
  /\ pc[s] = "created"
  /\ raw' = Fill(raw, slot[s].frame)
  /\ stored' = stored \union {slot[s].frame}
  /\ pc' = [pc EXCEPT ![s] = "idle"]
  /\ slot' = [slot EXCEPT ![s] = NoSlot]
  /\ UNCHANGED <<conn, cameraEnabled, frameCounter, idle, annotated,
                 executorVars, stitchVars, arrived, epoch, saved, lately,
                 mishaps>>

(* Files.write throws (a full disk): the frame has its number and no file,  *)
(* or half of one.  Spring closes a session whose handler throws.           *)
WriteFails(s) ==
  /\ pc[s] \in Writing
  /\ pc' = [pc EXCEPT ![s] = "idle"]
  /\ slot' = [slot EXCEPT ![s] = NoSlot]
  /\ conn' = [conn EXCEPT ![s] = "lost"]
  /\ mishaps' = mishaps \union {"writeFailed"}
  /\ UNCHANGED <<cameraEnabled, frameCounter, idle, folderVars,
                 executorVars, stitchVars, arrived, epoch, stored, saved,
                 lately>>

(* The glasses disappear without a close frame: nothing fires here.         *)
Vanish(s) ==
  /\ conn[s] = "open"
  /\ conn' = [conn EXCEPT ![s] = "lost"]
  /\ UNCHANGED <<pc, slot, cameraEnabled, frameCounter, idle, folderVars,
                 executorVars, stitchVars, observerVars>>

(* afterConnectionClosed, for a clean close or a lost connection that TCP   *)
(* detects at last, up to its test of frameCounter.                         *)
Close(s) ==
  /\ conn[s] \in {"open", "lost"} /\ pc[s] = "idle"
  /\ conn' = [conn EXCEPT ![s] = "closed"]
  /\ pc' = [pc EXCEPT ![s] = IF frameCounter = 0 THEN "idle" ELSE "closing"]
  /\ UNCHANGED <<slot, cameraEnabled, frameCounter, idle, folderVars,
                 executorVars, stitchVars, observerVars>>

(* pendingStitch = scheduler.schedule(..., delay).                          *)
Schedule(delay) ==
  \E t \in FreeTask :
    /\ active' = active \union {t}
    /\ left' = [left EXCEPT ![t] = delay]
    /\ pendingStitch' = t

CloseSchedule(s) ==
  /\ pc[s] = "closing"
  /\ Schedule(StitchDelay)
  /\ pc' = [pc EXCEPT ![s] = "idle"]
  /\ UNCHANGED <<conn, slot, cameraEnabled, frameCounter, idle, folderVars,
                 idlePc, stitchVars, observerVars>>

-----------------------------------------------------------------------------
(* stitchOnIdle, on the scheduling thread: its first early return, the two  *)
(* others, then the schedule with no delay.                                 *)

IdleBegin ==
  /\ idlePc = "waiting"
  /\ frameCounter # 0
  /\ idlePc' = "checking"
  /\ UNCHANGED <<sessionVars, folderVars, pendingStitch, active, left,
                 stitchVars, observerVars>>

IdleCheck ==
  /\ idlePc = "checking"
  /\ idlePc' = IF pendingStitch \notin active /\ idle = IdleStitch
               THEN "deciding" ELSE "waiting"
  /\ UNCHANGED <<sessionVars, folderVars, pendingStitch, active, left,
                 stitchVars, observerVars>>

IdleSchedule ==
  /\ idlePc = "deciding"
  /\ Schedule(0)
  /\ idlePc' = "waiting"
  /\ UNCHANGED <<sessionVars, folderVars, stitchVars, observerVars>>

-----------------------------------------------------------------------------
(* stitchAndClean, on the executor thread.                                  *)

(* The executor takes a future that is due.                                 *)
BeginStitch(t) ==
  /\ running = NoTask
  /\ t \in active /\ left[t] = 0
  /\ running' = t
  /\ phase' = "choose"
  /\ mishaps' = mishaps \union
       (IF \E s \in Session : pc[s] \in Writing THEN {"overlap"} ELSE {})
  /\ UNCHANGED <<sessionVars, folderVars, executorVars, source, reel, doomed,
                 arrived, epoch, stored, saved, lately>>

ChooseSource ==
  /\ phase = "choose"
  /\ source' = IF Listed(annotated) # {} THEN "annotated" ELSE "raw"
  /\ phase' = "launch"
  /\ UNCHANGED <<sessionVars, folderVars, executorVars, running, reel, doomed,
                 observerVars>>

(* ffmpeg starts, opens its input and, if it has any, its output: -y over a *)
(* video that has the same name, which is the time in whole seconds.        *)
LaunchFfmpeg ==
  /\ phase = "launch"
  /\ reel' = Sequence(IF source = "annotated" THEN annotated ELSE raw)
  /\ phase' = "encode"
  /\ lately' = IF reel' = {} THEN lately ELSE Frames(reel')
  /\ \/ UNCHANGED <<saved, mishaps>>
     \/ /\ lately \intersect saved # {} /\ reel' # {}
        /\ saved' = saved \ lately
        /\ mishaps' = mishaps \union {"sameName"}
  /\ UNCHANGED <<sessionVars, folderVars, executorVars, running, source,
                 doomed, arrived, epoch, stored>>

(* The future completes and the executor thread is free again.              *)
EndStitch ==
  /\ active' = active \ {running}
  /\ running' = NoTask
  /\ phase' = "free"
  /\ source' = "raw"
  /\ reel' = {}
  /\ UNCHANGED <<pendingStitch, left, idlePc, doomed>>

(* Mutant: the exit code of ffmpeg is not tested.                           *)
StitchFailsAndClears ==
  /\ phase \in {"launch", "encode"}
  /\ doomed' = Listed(raw)
  /\ phase' = "clearRaw"
  /\ UNCHANGED <<sessionVars, folderVars, executorVars, running, source, reel,
                 observerVars>>

(* ffmpeg cannot be started (the IOException is caught by the scheduled     *)
(* lambda) or exits with an error: the method returns and keeps the frames. *)
StitchFails ==
  /\ phase \in {"launch", "encode"}
  /\ EndStitch
  /\ UNCHANGED <<sessionVars, folderVars, observerVars>>

(* ffmpeg exits with 0, which it cannot without input; clearFrames lists    *)
(* frames/.                                                                 *)
FinishVideo ==
  /\ phase = "encode"
  /\ reel # {}
  /\ saved' = saved \union Frames({x \in reel : x.whole})
  /\ doomed' = Listed(raw)
  /\ phase' = "clearRaw"
  /\ UNCHANGED <<sessionVars, folderVars, executorVars, running, source, reel,
                 arrived, epoch, stored, lately, mishaps>>

(* f.delete() on one listed file; FALSE leaves the file where it is.        *)
DeleteRaw(n) ==
  /\ phase = "clearRaw" /\ n \in doomed
  /\ doomed' = doomed \ {n}
  /\ \/ raw' = Without(raw, n) /\ UNCHANGED mishaps
     \/ /\ mishaps' = mishaps \union {"deleteFailed"}
        /\ UNCHANGED raw
  /\ UNCHANGED <<sessionVars, annotated, executorVars, running, phase, source,
                 reel, arrived, epoch, stored, saved, lately>>

(* Mutant: clearing frames/ stops before its last file.                     *)
ListAnnotatedEarly ==
  /\ phase = "clearRaw"
  /\ doomed' = Listed(annotated)
  /\ phase' = "clearAnnotated"
  /\ UNCHANGED <<sessionVars, folderVars, executorVars, running, source, reel,
                 observerVars>>

(* Mutant: annotated/ is not cleared.                                       *)
ListAnnotatedNot ==
  /\ phase = "clearRaw" /\ doomed = {}
  /\ phase' = "clearAnnotated"
  /\ UNCHANGED <<sessionVars, folderVars, executorVars, running, source, reel,
                 doomed, observerVars>>

(* clearFrames lists annotated/.                                            *)
ListAnnotated ==
  /\ phase = "clearRaw" /\ doomed = {}
  /\ doomed' = Listed(annotated)
  /\ phase' = "clearAnnotated"
  /\ UNCHANGED <<sessionVars, folderVars, executorVars, running, source, reel,
                 observerVars>>

DeleteAnnotated(n) ==
  /\ phase = "clearAnnotated" /\ n \in doomed
  /\ doomed' = doomed \ {n}
  /\ \/ annotated' = Without(annotated, n) /\ UNCHANGED mishaps
     \/ /\ mishaps' = mishaps \union {"deleteFailed"}
        /\ UNCHANGED annotated
  /\ UNCHANGED <<sessionVars, raw, executorVars, running, phase, source, reel,
                 arrived, epoch, stored, saved, lately>>

Straddling ==
  IF \E s \in Session : pc[s] \in Writing THEN {"straddled"} ELSE {}

(* Mutant: the counter is not reset.                                        *)
ResetCounterNot ==
  /\ phase = "clearAnnotated" /\ doomed = {}
  /\ epoch' = arrived
  /\ mishaps' = mishaps \union Straddling
  /\ EndStitch
  /\ UNCHANGED <<sessionVars, folderVars, arrived, stored, saved, lately>>

(* frameCounter.set(0), and stitchAndClean returns.                         *)
ResetCounter ==
  /\ phase = "clearAnnotated" /\ doomed = {}
  /\ frameCounter' = 0
  /\ epoch' = arrived
  /\ mishaps' = mishaps \union Straddling
  /\ EndStitch
  /\ UNCHANGED <<conn, pc, slot, cameraEnabled, idle, folderVars, arrived,
                 stored, saved, lately>>

-----------------------------------------------------------------------------
(* The rest of the system, as the recorder meets it.                        *)

(* ServerState.toggleCamera, from the dashboard.                            *)
ToggleCamera ==
  /\ cameraEnabled' = ~cameraEnabled
  /\ UNCHANGED <<conn, pc, slot, frameCounter, idle, folderVars, executorVars,
                 stitchVars, observerVars>>

(* Mutant: a timer that is due goes on counting.                            *)
TickPastZero ==
  /\ idle' = IF idle < IdleStitch THEN idle + 1 ELSE idle
  /\ left' = [t \in Task |-> IF t \in active THEN left[t] - 1 ELSE left[t]]
  /\ <<idle, left>>' # <<idle, left>>
  /\ UNCHANGED <<conn, pc, slot, cameraEnabled, frameCounter, folderVars,
                 pendingStitch, active, idlePc, stitchVars, observerVars>>

(* A tick is longer than a second: the videos' names are used up, unless the*)
(* stitch that is about to start has taken its own already.                 *)
Tick ==
  /\ idle' = IF idle < IdleStitch THEN idle + 1 ELSE idle
  /\ left' = [t \in Task |-> IF t \in active /\ left[t] > 0
                            THEN left[t] - 1 ELSE left[t]]
  /\ lately' = IF phase = "launch" THEN lately ELSE {}
  /\ <<idle, left, lately>>' # <<idle, left, lately>>
  /\ UNCHANGED <<conn, pc, slot, cameraEnabled, frameCounter, folderVars,
                 pendingStitch, active, idlePc, stitchVars, arrived, epoch,
                 stored, saved, mishaps>>

(* The server process dies and is started again: the folders survive, every *)
(* field of the handler has its initial value, and the connections to come  *)
(* are new ones.  What is in no video by then is given up: no trigger is    *)
(* left to stitch it.  BOUND: one restart.                                  *)
Restart ==
  /\ "restarted" \notin mishaps
  /\ mishaps' = mishaps \union {"restarted"}
  /\ conn' = [s \in Session |-> "new"]
  /\ pc' = [s \in Session |-> "idle"]
  /\ slot' = [s \in Session |-> NoSlot]
  /\ cameraEnabled' = FALSE
  /\ frameCounter' = 0
  /\ idle' = IdleStitch
  /\ pendingStitch' = NoTask
  /\ active' = {}
  /\ left' = [t \in Task |-> 0]
  /\ idlePc' = "waiting"
  /\ running' = NoTask
  /\ phase' = "free"
  /\ source' = "raw"
  /\ reel' = {}
  /\ doomed' = {}
  /\ epoch' = arrived
  /\ lately' = {}
  /\ stored' = stored \intersect saved
  /\ UNCHANGED <<folderVars, arrived, saved>>

-----------------------------------------------------------------------------
Callback(s) ==
  \/ Establish(s) \/ CancelPending(s)
  \/ DiscardFrame(s) \/ NumberFrame(s) \/ CreateFile(s) \/ FillFile(s)
  \/ WriteFails(s) \/ Vanish(s)
  \/ Close(s) \/ CloseSchedule(s)

StitchOnIdle == IdleBegin \/ IdleCheck \/ IdleSchedule

StitchAndClean ==
  \/ \E t \in Task : BeginStitch(t)
  \/ ChooseSource \/ LaunchFfmpeg \/ StitchFails \/ FinishVideo
  \/ \E n \in doomed : DeleteRaw(n) \/ DeleteAnnotated(n)
  \/ ListAnnotated \/ ResetCounter

Next ==
  \/ \E s \in Session : Callback(s)
  \/ StitchOnIdle
  \/ StitchAndClean
  \/ ToggleCamera \/ Tick \/ Restart

Spec == Init /\ [][Next]_recorderVars

(* Threads that have something to do go on, the scheduled method and the    *)
(* executor run, time passes, ffmpeg gives up when it has no input and does *)
(* not fail for ever when it has.  One condition for all sessions is enough,*)
(* since none goes on for ever.  Nothing is assumed of the glasses or the   *)
(* network.                                                                 *)
Fairness ==
  /\ WF_recorderVars(\E s \in Session : CancelPending(s) \/ CreateFile(s)
                                     \/ FillFile(s) \/ CloseSchedule(s))
  /\ WF_recorderVars(StitchOnIdle)
  /\ WF_recorderVars(\/ \E t \in Task : BeginStitch(t)
                     \/ ChooseSource \/ ListAnnotated \/ ResetCounter
                     \/ \E n \in doomed : DeleteRaw(n) \/ DeleteAnnotated(n)
                     \/ phase = "encode" /\ reel = {} /\ StitchFails)
  /\ WF_recorderVars(Tick)
  /\ SF_recorderVars(LaunchFfmpeg)
  /\ SF_recorderVars(FinishVideo)

-----------------------------------------------------------------------------
(* Properties that hold.                                                    *)

(* The type invariant of the handler's fields, the folders, the executor    *)
(* and the observers.                                                       *)
TypeOK ==
  /\ conn \in [Session -> {"new", "open", "lost", "closed"}]
  /\ pc \in [Session -> {"idle", "cancelling", "closing"} \union Writing]
  /\ slot \in [Session -> [num : Nat, frame : Nat]]
  /\ cameraEnabled \in BOOLEAN
  /\ frameCounter \in Nat
  /\ idle \in 0..IdleStitch
  /\ raw \subseteq File /\ annotated \subseteq File
  /\ pendingStitch \in Task \union {NoTask}
  /\ active \subseteq Task
  /\ left \in [Task -> Nat]
  /\ idlePc \in {"waiting", "checking", "deciding"}
  /\ running \in Task \union {NoTask}
  /\ phase \in {"free", "choose", "launch", "encode", "clearRaw",
               "clearAnnotated"}
  /\ source \in {"raw", "annotated"}
  /\ reel \subseteq File
  /\ doomed \subseteq Nat
  /\ arrived \in 0..MaxFrames /\ epoch \in 0..arrived
  /\ stored \subseteq Frame /\ saved \subseteq Frame
  /\ lately \subseteq Frame
  /\ mishaps \subseteq Mishap

(* "Frames keep their numbers and nothing is lost": a frame that was written*)
(* is in frames/ or in a finished video, through hiccups, reconnections,    *)
(* cancelled stitches, failed ffmpeg runs, the idle stitch and the camera   *)
(* being switched, as long as no frame is being written during a stitch, no *)
(* write or delete fails and the server stays up (stitchAndClean,           *)
(* clearFrames, the numbering in handleBinaryMessage).                      *)
NoQuietLoss ==
  mishaps = {} => stored \subseteq saved \union Frames(raw)

(* Under the same conditions, the video of a stitch has every frame of its  *)
(* session, whole, and none of an earlier one, below the 100000th frame.    *)
VideoComplete ==
  phase = "encode" /\ mishaps = {} /\ arrived <= NameLimit =>
    /\ Frames(reel) = (epoch + 1)..arrived
    /\ \A x \in reel : x.whole

(* Files that a stitch would clear imply frameCounter > 0: otherwise both   *)
(* afterConnectionClosed and stitchOnIdle return at their first test and no *)
(* video is made of them.  Write failures included.                         *)
NothingStranded ==
  mishaps \subseteq {"writeFailed"} /\ Listed(raw) # {} => frameCounter > 0

(* frameCounter goes back to 0 only once every frame that was numbered since*)
(* its last reset is in a video (clearFrames is called on ffmpeg's success  *)
(* only).  A failed write costs its own frame and those after it, which     *)
(* ffmpeg does not come to, and none of those before it.                    *)
ResetMeansSaved ==
  [][frameCounter' < frameCounter =>
       /\ mishaps' = {} => (epoch + 1)..arrived \subseteq saved
       /\ mishaps' \subseteq {"writeFailed"} =>
            \A f \in (epoch + 1)..arrived :
               (epoch + 1)..f \subseteq stored => f \in saved]_recorderVars

(* Whatever goes wrong, if only no write straddles a reset of the counter,  *)
(* ffmpeg reads every frame of the session that was stored and that no gap  *)
(* precedes, whole: frames that arrive during stitches, failed writes,      *)
(* deletions and ffmpeg runs, videos that replace others and files that a   *)
(* restart left behind under the same numbers cost no other frame.          *)
StitchTakesTheStart ==
  [][phase = "launch" /\ phase' = "encode" /\ "straddled" \notin mishaps =>
       \A f \in (epoch + 1)..arrived :
          (epoch + 1)..f \subseteq stored =>
            f \in Frames({x \in reel' : x.whole})]_recorderVars

(* The frames whose file is complete and that are in no video yet.          *)
OnDisk == Frames({x \in raw : x.whole}) \ saved

Promise == INSTANCE SessionRecorder WITH
  onDisk <- OnDisk,
  inVideos <- saved,
  disturbed <- mishaps # {}

(* Until the first mishap, the sessions, folders, timers and threads look   *)
(* from outside like one atomic SessionRecorder: the whole files that are in*)
(* no video yet go into one together, and no frame ever disappears, although*)
(* handleBinaryMessage writes a file in steps and stitchAndClean and        *)
(* clearFrames list, encode and delete files one by one.                    *)
ImplementsSessionRecorder == Promise!Spec

(* Frame f of the present session is on its way into a video: it and those  *)
(* before it are stored, and ffmpeg has not been started since.             *)
Due(f) ==
  /\ epoch < f /\ (epoch + 1)..f \subseteq stored
  /\ phase \in {"free", "choose", "launch"}

(* The picture of an earlier frame stands in annotated/ under the number of *)
(* frame f.                                                                 *)
Outdated(f) ==
  \E x \in annotated, y \in raw : x.num = y.num /\ y.frame = f /\ x.frame < f

-----------------------------------------------------------------------------
(* Statements of the source that the program does not keep.                 *)

(* FrameWebSocketHandler.java:32: "Only if the glasses stay disconnected for*)
(* the full 5 seconds is the video stitched and frames cleared", or after   *)
(* IDLE_STITCH_MS without a frame.                                          *)
NoStitchDuringUse ==
  [][phase = "free" /\ phase' # "free" =>
       idle = IdleStitch \/ \A s \in Session : conn[s] # "open"]_recorderVars

=============================================================================
