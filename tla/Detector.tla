------------------------------ MODULE Detector ------------------------------
(***************************************************************************)
(* The weld pool detector, pool_detector.py: a process that scans frames/  *)
(* ten times a second, reads every frame it has not processed yet and      *)
(* writes it, with the detection drawn on it, to annotated/ under the same *)
(* name.  It shares the two folders with the Java server and nothing else: *)
(* a cleared folder is inferred from the numbers it sees.                  *)
(*                                                                         *)
(* What is detected in a picture, and the POST of it to the dashboard, are *)
(* left out: every outcome writes the picture.                             *)
(***************************************************************************)
EXTENDS Folders, Integers

VARIABLES
  raw,           (* the files of frames/                                    *)
  annotated,     (* the files of annotated/                                 *)
  detPc,         (* where main() is; "down" when the process does not run   *)
  lastProcessed, (* last_processed, -1 before the first frame               *)
  newFiles,      (* numbers of new_files still to be processed              *)
  image          (* color_frame: the picture read and not yet written       *)

processVars  == <<detPc, lastProcessed, newFiles, image>>
detectorVars == <<raw, annotated, processVars>>

NoImage == [num |-> 0, frame |-> 0, whole |-> FALSE]

(* sorted(files): the batch is processed in ascending order.                *)
Current == CHOOSE n \in newFiles : \A m \in newFiles : n <= m

Highest(numbers) == CHOOSE n \in numbers : \A m \in numbers : m <= n

(* The launcher starts the process with the server, or finds no usable      *)
(* Python and leaves it.                                                    *)
Init ==
  /\ detPc \in {"scan", "down"}
  /\ lastProcessed = -1
  /\ newFiles = {}
  /\ image = NoImage

(* One pass of the loop up to new_files.  A highest number below            *)
(* lastProcessed is taken for a new session.                                *)
Scan ==
  /\ detPc = "scan"
  /\ Listed(raw) # {}
  /\ lastProcessed' = IF Highest(Listed(raw)) < lastProcessed
                      THEN -1 ELSE lastProcessed
  /\ newFiles' = {n \in Listed(raw) : n > lastProcessed'}
  /\ detPc' = IF newFiles' = {} THEN "scan" ELSE "process"
  /\ UNCHANGED <<raw, annotated, image>>

(* lastProcessed = frame_number, and the loop over new_files goes on.       *)
Processed ==
  /\ lastProcessed' = Current
  /\ newFiles' = newFiles \ {Current}
  /\ detPc' = IF newFiles' = {} THEN "scan" ELSE "process"
  /\ image' = NoImage

(* cv2.imread returns None: the file is gone or not completely written.     *)
Unreadable ==
  /\ detPc = "process"
  /\ \A x \in raw : x.num = Current => ~x.whole
  /\ Processed
  /\ UNCHANGED <<raw, annotated>>

(* cv2.imread returns a picture, which is truncated if the file is.         *)
ReadFrame ==
  /\ detPc = "process"
  /\ \E x \in raw : x.num = Current /\ image' = x
  /\ detPc' = "decoded"
  /\ UNCHANGED <<raw, annotated, lastProcessed, newFiles>>

(* cv2.GaussianBlur raises on an even blurKernel, which the dashboard       *)
(* accepts and fetch_settings takes over: nothing catches it.               *)
Crash ==
  /\ detPc = "decoded"
  /\ detPc' = "down"
  /\ newFiles' = {}
  /\ image' = NoImage
  /\ UNCHANGED <<raw, annotated, lastProcessed>>

(* cv2.imwrite opens the annotated file ...                                 *)
BeginAnnotated ==
  /\ detPc = "decoded"
  /\ annotated' = Create(annotated, image.num, image.frame)
  /\ detPc' = "writing"
  /\ UNCHANGED <<raw, lastProcessed, newFiles, image>>

(* ... and writes it, or cannot and returns False, which nobody reads.      *)
FinishAnnotated ==
  /\ detPc = "writing"
  /\ annotated' = IF image.whole THEN Fill(annotated, image.frame)
                  ELSE annotated
  /\ Processed
  /\ UNCHANGED raw

AnnotateFails ==
  /\ detPc \in {"decoded", "writing"}
  /\ Processed
  /\ UNCHANGED <<raw, annotated>>

Next ==
  \/ Scan \/ Unreadable \/ ReadFrame \/ Crash
  \/ BeginAnnotated \/ FinishAnnotated \/ AnnotateFails

=============================================================================
