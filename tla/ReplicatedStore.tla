--------------------------- MODULE ReplicatedStore ---------------------------
(***************************************************************************)
(* What the cluster promises its clients, without nodes' logs, terms,      *)
(* elections or messages: one store, changed by one command after another, *)
(* and replicas that follow it, each at its own pace and never backwards.  *)
(***************************************************************************)
EXTENDS Storage, SequencesExt

CONSTANT Replica

VARIABLES submitted,    \* the commands clients have sent
          chosen,       \* the commands that took effect, in their order
          latest,       \* the store they produce
          position      \* how many of them each replica has applied

abstractVars == <<submitted, chosen, latest, position>>

AbstractInit ==
    /\ submitted = {}
    /\ chosen = <<>>
    /\ latest = EmptyStore
    /\ position = [r \in Replica |-> 0]

\* A client sends a command.
Submit(c) ==
    /\ submitted' = submitted \cup {c}
    /\ UNCHANGED <<chosen, latest, position>>

(***************************************************************************)
(* Replica r applies commands up to position k: those chosen already, then *)
(* perhaps some that it chooses by applying them first.  A replica that is *)
(* a cluster by itself does so when it is sent a command; sent has it.     *)
(***************************************************************************)
Advance(r, k, sent) ==
    /\ k > position[r]
    /\ position' = [position EXCEPT ![r] = k]
    /\ submitted' = submitted \cup sent
    /\ \E cs \in SetToAllKPermutations(submitted' \ ToSet(chosen)) :
          /\ chosen' = chosen \o cs
          /\ IF cs = <<>> THEN k <= Len(chosen) ELSE k = Len(chosen')
          /\ latest' = apply_all(latest, [i \in 1..Len(cs) |->
                                            [kind |-> "Command", index |-> Len(chosen) + i,
                                             command |-> cs[i]]])

AbstractNext ==
    \/ \E c \in Command : Submit(c)
    \/ \E r \in Replica, k \in 1..Cardinality(Command),
          sent \in {{}} \cup {{c} : c \in Command} : Advance(r, k, sent)

AbstractSpec == AbstractInit /\ [][AbstractNext]_abstractVars

=============================================================================
