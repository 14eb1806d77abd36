----------------------------- MODULE Refinement -----------------------------
(***************************************************************************)
(* The cluster as an implementation of ReplicatedStore.                    *)
(***************************************************************************)
EXTENDS Safety

\* The behaviours in which no node ever departs from the protocol.
OrderlySpec == Init /\ [][Next /\ lapses' = {}]_vars

Furthest == CHOOSE n \in Node : \A m \in Node : nodes[m].last_applied <= nodes[n].last_applied

Promised == INSTANCE ReplicatedStore WITH
    Replica   <- Node,
    submitted <- {c \in Command : outcomes[c] # "Unsent"},
    chosen    <- [i \in {x[1] : x \in applied} |->
                    CHOOSE c \in Command : <<i, c>> \in applied],
    latest    <- stores[Furthest],
    position  <- [n \in Node |-> nodes[n].last_applied]

(***************************************************************************)
(* The cluster implements one store whose replicas follow it: the commands *)
(* take effect in one order, each once and only after a client sent it;    *)
(* whoever has applied the most has the store they produce; no replica is  *)
(* ahead of that order or moves back (advance_commit, apply_committed and  *)
(* handle_install_snapshot, through every election and lost message).      *)
(***************************************************************************)
ImplementsReplicatedStore == Promised!AbstractSpec

=============================================================================
