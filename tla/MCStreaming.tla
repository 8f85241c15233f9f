----------------------------- MODULE MCStreaming -----------------------------
(* TLC instances of Streaming.                                             *)
EXTENDS Streaming, TLC

Symmetry == Permutations(Client) \union Permutations(Request)
            \union Permutations(Packet)
=============================================================================
