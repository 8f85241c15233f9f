----------------------------- MODULE MCRecorder -----------------------------
(* TLC instances of Recorder.                                              *)
EXTENDS Recorder, TLC

(* Futures are interchangeable. *)
Symmetry == Permutations(Task)

(* The properties of the run are implications from this, and mishaps only *)
(* grows: what follows another mishap need not be explored.                *)
UpToWriteFailure == mishaps \subseteq {"writeFailed"}
=============================================================================
