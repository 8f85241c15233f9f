------------------------------- MODULE Folders -------------------------------
(***************************************************************************)
(* The folders frames/ and annotated/, shared by the recorder and the      *)
(* detector: sets of files with distinct numbers.  A file knows which frame*)
(* its picture shows and whether all of its bytes have been written.       *)
(***************************************************************************)
EXTENDS Naturals

CONSTANTS
  MaxFrames,    (* BOUND on the frames that are given a number              *)
  NameLimit,    (* first number that frame_\d{5}.jpg does not match: 100000 *)
  StartRange    (* ffmpeg looks for its first file at 0 .. StartRange - 1   *)

ASSUME FoldersAssumption ==
  /\ MaxFrames \in Nat
  /\ NameLimit \in Nat
  /\ StartRange \in Nat \ {0}

Frame == 1..MaxFrames
File  == [num : Nat, frame : Frame, whole : BOOLEAN]

Numbers(dir) == {x.num : x \in dir}

Frames(files) == {x.frame : x \in files}

(* The numbers of the files that match frame_\d{5}\.jpg (listFiles in the   *)
(* recorder) or frame_?????.jpg (glob in the detector).                     *)
Listed(dir) == {n \in Numbers(dir) : n < NameLimit}

Without(dir, n) == {x \in dir : x.num # n}

(* Create or truncate file n, to receive the picture of frame f.            *)
Create(dir, n, f) ==
  Without(dir, n) \union {[num |-> n, frame |-> f, whole |-> FALSE]}

(* The bytes of frame f are written to the file created for it, or to no    *)
(* file of the folder if it has been deleted or replaced since.             *)
Fill(dir, f) == {[x EXCEPT !.whole = @ \/ x.frame = f] : x \in dir}

(* What ffmpeg -i frame_%05d.jpg reads: it starts at the first number it    *)
(* finds in its start range and stops at the first number that is missing.  *)
Sequence(dir) ==
  {x \in dir : \E first \in 0..(StartRange - 1) :
     /\ first \in Numbers(dir)
     /\ \A n \in 0..(first - 1) : n \notin Numbers(dir)
     /\ first <= x.num
     /\ first..x.num \subseteq Numbers(dir)}

=============================================================================
