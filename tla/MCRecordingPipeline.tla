------------------------- MODULE MCRecordingPipeline -------------------------
(* TLC instances of RecordingPipeline.                                     *)
EXTENDS RecordingPipeline, TLC

Symmetry == Permutations(Task)

(* Each property of these runs is an implication from one of the           *)
(* constraints (from its always holding, for a liveness property), which   *)
(* stays false once it is: what follows need not be explored.              *)
NoMishap == mishaps = {}
UpToWriteFailure == mishaps \subseteq {"writeFailed"}
AtMostLagged == mishaps = {} /\ slips \subseteq {"lagged"}

(* BOUND of the run with fairness: what it combines.  The detector meets a  *)
(* restart or nothing; without it, one session may have frames in flight    *)
(* during a stitch, or two have one frame and every order of a close, a     *)
(* reconnection and the timers.  Sessions are interchangeable: the first    *)
(* connects first.                                                          *)
First == CHOOSE s \in Session : TRUE
NoDetector == detPc = "down" /\ annotated = {}
OneSession == \A s \in Session \ {First} : conn[s] = "new"
Reconnecting ==
  /\ NoDetector /\ mishaps = {}
  /\ arrived <= 1 /\ conn[First] # "new"
Combined ==
  /\ KeptUp
  /\ \/ OneSession /\ (mishaps \subseteq {"restarted"} \/ NoDetector)
     \/ Reconnecting
=============================================================================
