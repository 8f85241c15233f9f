--------------------------- MODULE SessionRecorder ---------------------------
(***************************************************************************)
(* What the recorder promises, without numbers, folders, timers, threads or*)
(* ffmpeg: frames are recorded one by one, and all those of a session go   *)
(* into its video in one step.  Nothing that was recorded ever disappears. *)
(***************************************************************************)
CONSTANT Frame

VARIABLES
  onDisk,    (* the frames recorded and in no video yet                     *)
  inVideos,  (* the frames in a video                                       *)
  disturbed  (* something has happened that ends the promise                *)

promiseVars == <<onDisk, inVideos, disturbed>>

Init ==
  /\ onDisk = {}
  /\ inVideos = {}
  /\ disturbed = FALSE

(* The glasses' frame f is stored.                                          *)
Record(f) ==
  /\ f \notin onDisk \union inVideos
  /\ onDisk' = onDisk \union {f}
  /\ UNCHANGED inVideos

(* The video of the session is made.                                        *)
Stitch ==
  /\ onDisk # {}
  /\ inVideos' = inVideos \union onDisk
  /\ onDisk' = {}

Next ==
  \/ ~disturbed' /\ (Stitch \/ \E f \in Frame : Record(f))
  \/ disturbed'

Spec == Init /\ [][Next]_promiseVars

=============================================================================
