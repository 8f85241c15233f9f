-------------------------- MODULE RecordingPipeline --------------------------
(***************************************************************************)
(* The recorder and the detector at work on the same folders, and the      *)
(* launcher that starts and stops the detector with the server.  The       *)
(* recorder stitches annotated/ if there is anything in it and frames/     *)
(* otherwise, and clears both.                                             *)
(***************************************************************************)
EXTENDS Recorder, Integers

VARIABLES detPc, lastProcessed, newFiles, image

(* Observer: what has kept annotated/ from being a copy of frames/ when a   *)
(* stitch needed it.                                                        *)
VARIABLE slips

D == INSTANCE Detector

processVars  == <<detPc, lastProcessed, newFiles, image>>
pipelineVars == <<recorderVars, processVars, slips>>

(* imread returned None; it returned a truncated picture; the process died; *)
(* imwrite failed; ffmpeg was started on annotated/ while it and frames/ had*)
(* files with different numbers; the detector was processing a batch while  *)
(* ffmpeg ran or the folders were being cleared; a frame was given a number *)
(* that the detector's glob (and clearFrames) does not list.                *)
Slip == {"unreadable", "truncated", "crashed", "annotateFailed", "lagged",
         "busy", "unlisted"}

Batch == {"process", "decoded", "writing"}
Consuming == {"encode", "clearRaw", "clearAnnotated"}

Flag(condition, slip) == IF condition THEN {slip} ELSE {}

-----------------------------------------------------------------------------
PipelineInit ==
  /\ Init
  /\ D!Init
  /\ slips = {}

RecorderStep ==
  /\ \/ \E s \in Session : Callback(s)
     \/ StitchOnIdle
     \/ StitchAndClean
     \/ ToggleCamera
     \/ Tick
  /\ slips' = slips
       \union Flag(/\ phase = "launch" /\ phase' = "encode"
                   /\ source = "annotated"
                   /\ Listed(annotated) # Listed(raw), "lagged")
       \union Flag(phase' \in Consuming /\ detPc \in Batch, "busy")
       \union Flag(frameCounter' > NameLimit, "unlisted")
  /\ UNCHANGED processVars

DetectorStep ==
  /\ D!Next
  /\ slips' = slips
       \union Flag(D!Unreadable, "unreadable")
       \union Flag(D!ReadFrame /\ ~image'.whole, "truncated")
       \union Flag(D!Crash, "crashed")
       \union Flag(D!AnnotateFails, "annotateFailed")
       \union Flag(phase \in Consuming /\ detPc' \in Batch, "busy")
  /\ UNCHANGED <<sessionVars, executorVars, stitchVars, observerVars>>

(* The server is stopped, and the detector with it, and started again.      *)
RestartServer ==
  /\ Restart
  /\ detPc' \in {"scan", "down"}
  /\ lastProcessed' = -1
  /\ newFiles' = {}
  /\ image' = D!NoImage
  /\ UNCHANGED slips

PipelineNext == RecorderStep \/ DetectorStep \/ RestartServer

PipelineSpec == PipelineInit /\ [][PipelineNext]_pipelineVars

PipelineFairSpec ==
  /\ PipelineSpec
  /\ Fairness
  /\ WF_pipelineVars(DetectorStep)

-----------------------------------------------------------------------------
(* Properties that hold.                                                    *)

(* The type invariant of the detector's variables and of the observer.      *)
DetectorTypeOK ==
  /\ TypeOK
  /\ detPc \in {"down", "scan"} \union Batch
  /\ lastProcessed \in Nat \union {-1}
  /\ newFiles \subseteq Nat
  /\ image \in [num : Nat, frame : Nat, whole : BOOLEAN]
  /\ slips \subseteq Slip

(* The only ways to lose a frame that was written, beyond those of the      *)
(* recorder alone, are the seven slips: while there has been none, choosing *)
(* annotated/ for the video (stitchAndClean) and clearing both folders loses*)
(* nothing.                                                                 *)
LossNeedsSlip ==
  slips = {} => NoQuietLoss

(* Without a slip the video has every frame of its session, whole, and no   *)
(* older one, whichever folder it is made from.                             *)
VideoCompleteWithoutSlip ==
  slips = {} => VideoComplete

(* What slips cost are frames, not the sense of the video: a detector that  *)
(* dies, lags, skips frames, misses a reset or writes half a picture leaves *)
(* files under the numbers of their own frames only, so that no picture of  *)
(* an earlier session and none out of turn gets into a video, unless the    *)
(* detector was busy while ffmpeg ran or the folders were being cleared.    *)
VideoOfOneSession ==
  phase = "encode" /\ mishaps \subseteq {"writeFailed"} /\ "busy" \notin slips =>
    \A x \in reel : x.num < NameLimit => x.frame = epoch + x.num + 1

(* Without a slip the two folders are both empty of listed files whenever   *)
(* frameCounter is 0 and no frame is on its way: the next session starts    *)
(* fresh, and does not choose annotated/ for pictures of an earlier one.    *)
(* Write failures included.                                                 *)
BothFoldersFresh ==
  mishaps \subseteq {"writeFailed"} /\ slips = {} /\ frameCounter = 0 =>
    Listed(raw) \union Listed(annotated) = {}

(* Without a slip, frameCounter goes back to 0 only once every frame of the *)
(* session that no gap precedes is in a video, from whichever folder: a     *)
(* failed write costs its own frame and those after it, in frames/ as in    *)
(* the detector's copies of it, and none before it.                         *)
ResetMeansSavedWithoutSlip ==
  [][frameCounter' < frameCounter
     /\ mishaps' \subseteq {"writeFailed"} /\ slips' = {}
     => \A f \in (epoch + 1)..arrived :
          (epoch + 1)..f \subseteq stored => f \in saved]_pipelineVars

PromiseToo == INSTANCE SessionRecorder WITH
  onDisk <- OnDisk,
  inVideos <- saved,
  disturbed <- mishaps # {} \/ slips # {}

(* Until the first mishap or slip, the recorder and the detector together   *)
(* still look like one atomic SessionRecorder: a frame is recorded once, in *)
(* frames/, and all those of a session go into its video in one step, even  *)
(* if what ffmpeg reads are the detector's copies of them and clearFrames   *)
(* deletes both.  The steps of the detector do not show at all.             *)
PairImplementsSessionRecorder == PromiseToo!Spec

(* The detector keeps up, and either frames come during stitches and videos *)
(* share a name, or both processes are stopped and started again.           *)
KeptUp ==
  /\ slips = {}
  /\ \/ mishaps \subseteq {"overlap", "sameName"}
     \/ mishaps \subseteq {"restarted"}

(* Under these conditions, when frames stop coming, frameCounter returns to *)
(* 0 for good, and every frame of the session that was stored, after all    *)
(* those before it, is in a video by then: with or without a detector,      *)
(* through lost connections and cancelled stitches.  A restart gives up the *)
(* frames that it finds on disk, and none that arrives after it, although   *)
(* both folders have files.  An outdated picture in annotated/ stands in for*)
(* a frame: the detector may annotate a file that a restart or a stitch has *)
(* left behind and not the one that replaces it.                            *)
EventuallyStitchedWithDetector ==
  []KeptUp /\ <>[](idle = IdleStitch)
  => /\ <>[](frameCounter = 0)
     /\ \A f \in Frame :
          Due(f) ~> f \in saved \/ f \notin stored \/ Outdated(f)

-----------------------------------------------------------------------------
(* Statements of the source that the program does not keep.                 *)

(* FrameWebSocketHandler.java:31: "Frames keep their numbers and nothing is *)
(* lost".  Here no deletion fails, no frame arrives during a stitch, the    *)
(* server stays up; the detector stops before the end of the session.       *)
NothingLostWithDetector ==
  slips \subseteq {"crashed", "lagged"} => NoQuietLoss

(* FrameWebSocketHandler.java:147: the check "runs every 5 seconds and      *)
(* stitches whenever" frames have been captured, none has arrived in        *)
(* IDLE_STITCH_MS and no stitch is pending.                                 *)
IdleSessionStitched ==
  /\ [](mishaps = {} /\ slips \subseteq {"lagged"})
  /\ <>[](idle = IdleStitch)
  => <>[](frameCounter = 0)

=============================================================================
