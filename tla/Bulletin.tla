------------------------------ MODULE Bulletin ------------------------------
(***************************************************************************)
(* What the clients of a broadcast are promised, without threads, locks,   *)
(* loops or connections: notices follow one another, and a client that     *)
(* follows them sees each one in its turn.  A new notice is posted when    *)
(* every client has either seen the present one or lost track; a client    *)
(* that has lost track takes it up again with the notice of the day.       *)
(***************************************************************************)
CONSTANT Client

VARIABLES
  notice,  (* the notice posted last                                        *)
  seen     (* what each client saw last, or "unknown"                       *)

bulletinVars == <<notice, seen>>

Losing(left) == [c \in Client |-> IF c \in left THEN "unknown" ELSE seen[c]]

Init == seen = [c \in Client |-> "unknown"]

(* Some clients may be left out of the notice that is posted.               *)
Post ==
  /\ \A c \in Client : seen[c] \in {notice, "unknown"}
  /\ \E left \in SUBSET Client : seen' = Losing(left)

See(c) ==
  /\ seen' = [seen EXCEPT ![c] = notice]
  /\ UNCHANGED notice

Lose ==
  /\ \E left \in SUBSET Client : seen' = Losing(left)
  /\ UNCHANGED notice

Next == Post \/ Lose \/ \E c \in Client : See(c)

Spec == Init /\ [][Next]_bulletinVars

=============================================================================
