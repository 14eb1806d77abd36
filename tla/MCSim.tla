------------------------------- MODULE MCSim -------------------------------
(***************************************************************************)
(* Three simulated nodes and two writes of one key, for TLC.               *)
(***************************************************************************)
EXTENDS Sim, TLC

CONSTANTS n1, n2, n3, k1, v1, v2, c1, c2

MCIds == <<n1, n2, n3>>

MCDecode == c1 :> [op |-> "Set", key |-> k1, value |-> v1]
            @@ c2 :> [op |-> "Set", key |-> k1, value |-> v2]

\* A seed for which the nodes' timeouts differ, and each draws the same one again.
MCDraws == {n1 :> 2 @@ n2 :> 3 @@ n3 :> 4}

=============================================================================
