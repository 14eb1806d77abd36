-------------------------------- MODULE Sim --------------------------------
(***************************************************************************)
(* The deterministic simulation of src/sim.rs: a second composition of the *)
(* Raft core, in lock-step rounds over an in-memory bus, with the controls *)
(* its tests use to crash, restart, isolate and reconnect nodes.  A node's *)
(* state survives a crash here, and snapshots travel without their data.   *)
(***************************************************************************)
EXTENDS RaftNode, SequencesExt

CONSTANTS Ids,       \* the nodes in index order
          Draws,     \* the timeouts the nodes' generators may return in one round
          MaxTerm,   \* bound: no candidacy beyond this term
          MaxFaults  \* bound: so many crashes and disconnections

ASSUME SimAssumption ==
    /\ MaxTerm \in Nat /\ MaxFaults \in Nat
    /\ Draws \subseteq [Node -> Timeout]
    /\ Ids \in Seq(Node) /\ Len(Ids) = Cardinality(Node)
    /\ \A n \in Node : \E i \in 1..Len(Ids) : Ids[i] = n

VARIABLES nodes, stores,
          alive,        \* the nodes that run
          connected,    \* the nodes the network reaches
          round,        \* the parity of the harness's step counter
          proposed,     \* the commands the test has proposed so far
          faults        \* how often it has crashed or isolated a node

simVars == <<nodes, stores, alive, connected, round, proposed, faults>>

SimInit ==
    /\ nodes \in {[n \in Node |-> new(draw[n])] : draw \in Draws}
    /\ stores = [n \in Node |-> EmptyStore]
    /\ alive = Node
    /\ connected = Node
    /\ round = 0
    /\ proposed = {} /\ faults = 0

SimTypeOK ==
    /\ nodes \in [Node -> RaftState]
    /\ stores \in [Node -> Store]
    /\ alive \subseteq Node /\ connected \subseteq Node
    /\ round \in 0..1
    /\ proposed \subseteq Command /\ faults \in 0..MaxFaults

-----------------------------------------------------------------------------
(* A round *)

\* Slip: the receiver's side of the partition is not looked at.
deliverable_from(from, to) == from \in alive \cap connected /\ to \in alive

deliverable(from, to) == {from, to} \subseteq alive \cap connected

\* At the bound on terms an election timer no longer runs out.
ticked(n, timeout) ==
    LET s == tick(n, nodes[n], timeout)
    IN IF n \in alive /\ s.current_term <= MaxTerm THEN s ELSE nodes[n]

\* What the bus brings to one node, in the order in which the senders are drained.
inbox(ready, to) ==
    FlattenSeq([i \in 1..Len(Ids) |->
        IF deliverable(Ids[i], to)
        THEN [k \in 1..Len(ready[Ids[i]].outgoing[to]) |->
                 [from |-> Ids[i], message |-> ready[Ids[i]].outgoing[to][k]]]
        ELSE <<>>])

deliver(n, s, envelopes, timeout) ==
    FoldLeft(LAMBDA r, e : step(n, r, e.from, e.message, timeout), s, envelopes)

\* The store of node n once its batch is applied; a crashed node is not drained.
applied_to(n, ready) ==
    IF n \in alive THEN apply_all(stores[n], ready.committed) ELSE stores[n]

(***************************************************************************)
(* SimCluster::step: every live node ticks; then every live node's output  *)
(* is drained and applied to its store; then the messages are delivered.   *)
(* What a delivery makes a node send leaves in the next round.  Of the     *)
(* timeouts a node draws in one round only the last is ever looked at.     *)
(***************************************************************************)
Step ==
    \E timeout \in Draws :
        LET ready == [n \in Node |-> apply_committed(ticked(n, timeout[n]))]
        IN /\ nodes' = [n \in Node |->
                           IF n \in alive
                           THEN deliver(n, drain(ready[n]), inbox(ready, n), timeout[n])
                           ELSE nodes[n]]
           /\ stores' = [n \in Node |-> applied_to(n, ready[n])]
           /\ round' = 1 - round
           /\ UNCHANGED <<alive, connected, proposed, faults>>

-----------------------------------------------------------------------------
(* Observations *)

\* SimCluster::leader: the leader of the highest live term, if there is one only.
leaders ==
    {n \in alive : /\ nodes[n].role = "Leader"
                   /\ \A m \in alive : nodes[m].current_term <= nodes[n].current_term}


-----------------------------------------------------------------------------
(* What a test does between rounds *)

\* SimCluster::propose looks at the role only, not at whether the node is up.
SimPropose(n, c) ==
    /\ c \notin proposed
    /\ nodes[n].role = "Leader"
    /\ nodes' = [nodes EXCEPT ![n] = propose(n, @, c)]
    /\ proposed' = proposed \cup {c}
    /\ UNCHANGED <<stores, alive, connected, round, faults>>

Crash(n) ==
    /\ n \in alive
    /\ alive' = alive \ {n}
    /\ faults < MaxFaults /\ faults' = faults + 1
    /\ UNCHANGED <<nodes, stores, connected, round, proposed>>

Restart(n) ==
    /\ n \notin alive
    /\ alive' = alive \cup {n}
    /\ UNCHANGED <<nodes, stores, connected, round, proposed, faults>>

Disconnect(n) ==
    /\ n \in connected
    /\ connected' = connected \ {n}
    /\ faults < MaxFaults /\ faults' = faults + 1
    /\ UNCHANGED <<nodes, stores, alive, round, proposed>>

Reconnect(n) ==
    /\ n \notin connected
    /\ connected' = connected \cup {n}
    /\ UNCHANGED <<nodes, stores, alive, round, proposed, faults>>

\* As in every test, the controls are used while leader() names a node.
SimNext ==
    \/ Step
    \/ /\ Cardinality(leaders) = 1
       /\ \E n \in Node : \/ \E c \in Command : SimPropose(n, c)
                          \/ Crash(n) \/ Restart(n)
                          \/ Disconnect(n) \/ Reconnect(n)

(***************************************************************************)
(* Fairness: rounds go on (every test calls run or run_until after what it *)
(* does to the cluster, and a round is always possible).  Nothing else is  *)
(* owed; in particular no fault needs to heal.                             *)
(***************************************************************************)
SimSpec == SimInit /\ [][SimNext]_simVars /\ WF_round(round' = 1 - round)

-----------------------------------------------------------------------------
(* Properties *)

reachable == alive \cap connected
isolated(n) == n \notin reachable \/ reachable = {n}

\* A peer is credited with entries that the log of leader n does not have.
overcredited(n) == \E p \in Peers(n) : nodes[n].match_index[p] > last_index(nodes[n].log)

IsolatedNodesStall ==
    \A n \in Node : isolated(n) =>
        /\ nodes'[n].role = "Leader" => nodes[n].role = "Leader"
        /\ nodes'[n].commit_index > nodes[n].commit_index => overcredited(n)

(***************************************************************************)
(* An isolated node is not elected, and an isolated leader commits nothing *)
(* (the test minority_partition_cannot_make_progress), unless a peer has   *)
(* acknowledged a tail the leader does not have: then it commits its next  *)
(* write alone.                                                            *)
(***************************************************************************)
IsolatedCannotProgress == [][IsolatedNodesStall]_simVars

\* A snapshot of this log would be sent under the term of its snapshot point.
well_labelled(log) == log.snapshot_index = 0 \/ last_term(log) = log.snapshot_term

\* A leader that reaches every live node, a majority, and knows its snapshot's term.
Settled ==
    /\ alive \subseteq connected /\ Cardinality(alive) >= majority
    /\ Cardinality(leaders) = 1
    /\ \A l \in leaders : well_labelled(nodes[l].log)

(***************************************************************************)
(* Node n holds the log of l, has applied as far, and has its store if it  *)
(* got there by commands (the harness ships snapshots without data).       *)
(***************************************************************************)
Follows(n, l) ==
    /\ nodes[n].last_applied >= nodes[l].last_applied
    /\ \A i \in nodes[n].log.snapshot_index + 1..last_index(nodes[l].log) :
          term_at(nodes[l].log, i) \in {NoTerm, term_at(nodes[n].log, i)}
    /\ nodes[n].log.snapshot_index = 0 /\ nodes[n].last_applied = nodes[l].last_applied
          => stores[n] = stores[l]

(***************************************************************************)
(* Once the cluster settles, every live node ends up with the leader's log *)
(* and what the leader has applied, however far it lagged or diverged      *)
(* (conflict_hint, send_append, handle_install_snapshot_reply).            *)
(***************************************************************************)
FollowersCatchUp == <>[]Settled => <>[](\A n \in alive, l \in leaders : Follows(n, l))

(***************************************************************************)
(* Once the cluster settles, a leader with a write of its own term commits *)
(* and applies its whole log (the tests writes_replicate_to_all_nodes and  *)
(* cluster_survives_leader_crash).  Without such a write it need not.      *)
(***************************************************************************)
WritesCommit ==
    <>[]Settled =>
        <>[](\A l \in leaders :
                last_term(nodes[l].log) = nodes[l].current_term =>
                    nodes[l].last_applied = last_index(nodes[l].log))

=============================================================================
