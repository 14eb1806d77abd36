----------------------------- MODULE MCCluster -----------------------------
(***************************************************************************)
(* Three nodes and up to three commands on one key, for TLC.               *)
(***************************************************************************)
EXTENDS Refinement, TLC

CONSTANTS n1, n2, n3, k1, v1, v2, c1, c2, c3

\* Two writes of different values and a deletion.
Meaning == c1 :> [op |-> "Set", key |-> k1, value |-> v1]
           @@ c2 :> [op |-> "Set", key |-> k1, value |-> v2]
           @@ c3 :> [op |-> "Del", keys |-> {k1}]
MCDecode == [c \in Command |-> Meaning[c]]

NodeSymmetry == Permutations(Node)

\* The two Set commands are alike, if their values are exchanged with them.
SameWrites == c1 :> c1 @@ c2 :> c2 @@ v1 :> v1 @@ v2 :> v2
SwapWrites == c1 :> c2 @@ c2 :> c1 @@ v1 :> v2 @@ v2 :> v1
NodeAndWriteSymmetry == {p @@ w : p \in NodeSymmetry, w \in {SameWrites, SwapWrites}}

(***************************************************************************)
(* OrderlySpec with a bound on the third command: it is sent in the first  *)
(* term, once two are applied, and no second term comes after it.          *)
(***************************************************************************)
FirstTerm == \A n \in Node : nodes[n].current_term <= 1
Sendable == {c \in Command : c = c3 => Cardinality(applied) >= 2 /\ FirstTerm}

BoundedNext == \E n \in Node :
                   \/ Tick(n)
                   \/ \E p \in Node : Receive(n, p)
                   \/ \E c \in Sendable : Propose(n, c) \/ Redirect(n, c)

BoundedOrderlySpec ==
    Init /\ [][BoundedNext /\ lapses' = {} /\ (outcomes[c3] = "Unsent" \/ FirstTerm')]_vars

\* State constraints that let one kind of lapse happen and no other.
OnlyUnverifiedTails == lapses \subseteq {"unverified_tail"}
OnlyShifts == lapses \subseteq {"shifted_entries"}
OnlyDiscards == lapses \subseteq {"discarded_entries"}
OnlySnapshotTerms == lapses \subseteq {"snapshot_term"}

=============================================================================
