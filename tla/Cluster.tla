------------------------------ MODULE Cluster ------------------------------
(***************************************************************************)
(* A running cluster: on every node the driver task of src/server.rs,      *)
(* which owns the Raft core, the store and the clients waiting for their   *)
(* writes, and between the nodes the peer links of src/net/peer.rs.        *)
(*                                                                         *)
(* An action is one turn of Driver::run's select loop: one event (a tick,  *)
(* a message, a client write) and the process_ready that follows it.       *)
(***************************************************************************)
EXTENDS RaftNode

CONSTANTS MaxTerm,      \* bound: no candidacy beyond this term
          MaxInFlight,  \* bound: no more frames than this travel at the same time
          Reorder       \* may a link deliver its messages in another order?

ASSUME ClusterAssumption ==
    MaxTerm \in Nat /\ MaxInFlight \in Nat /\ Reorder \in BOOLEAN

VARIABLES nodes,        \* the RaftNode of each driver
          stores,       \* its storage engine
          waiters,      \* its waiters: the (index, command) of each unanswered write
          outcomes,     \* what the client of each command was told
          links         \* links[from][to]: frames queued or in flight

(***************************************************************************)
(* History, read by the properties only: the votes cast, the nodes that    *)
(* deferred to a leader in a term, the elections won, the commands applied *)
(* at an index, and the occurrences of the behaviours named in Lapse.      *)
(***************************************************************************)
VARIABLES grants, heard, elected, applied, lapses

driver  == <<nodes, stores, waiters, outcomes, links>>
history == <<grants, heard, elected, applied, lapses>>
vars    == <<driver, history>>

Outcome == {"Unsent", "Waiting", "Committed", "NotLeader"}

\* What nodes may do that the Raft protocol does not allow (see lapses_of).
Lapse == {"revote", "unverified_tail", "shifted_entries",
          "discarded_entries", "snapshot_term"}

TypeOK ==
    /\ nodes \in [Node -> RaftState]
    /\ stores \in [Node -> Store]
    /\ waiters \in [Node -> SUBSET (Nat \X Command)]
    /\ outcomes \in [Command -> Outcome]
    /\ links \in [Node -> [Node -> Seq(Message)]]
    /\ grants \subseteq Node \X Nat \X Node
    /\ heard \subseteq Node \X Nat
    /\ elected \subseteq Nat \X Node
    /\ applied \subseteq Nat \X Command
    /\ lapses \subseteq Lapse

Init ==
    /\ nodes \in [Node -> {new(t) : t \in Timeout}]
    /\ stores = [n \in Node |-> EmptyStore]
    /\ waiters = [n \in Node |-> {}]
    /\ outcomes = [c \in Command |-> "Unsent"]
    /\ links = [p \in Node |-> [q \in Node |-> <<>>]]
    /\ grants = {} /\ heard = {} /\ elected = {} /\ applied = {} /\ lapses = {}

-----------------------------------------------------------------------------
(* Peer links *)

remove(q, i) == SubSeq(q, 1, i - 1) \o SubSeq(q, i + 1, Len(q))

\* The number of frames that travel, counted as far as the bound needs it.
in_flight(net) ==
    Cardinality({f \in Node \X Node \X (1..MaxInFlight + 1) : f[3] <= Len(net[f[1]][f[2]])})

\* The queue positions whose frame may arrive next.
deliverable(q) == {i \in 1..Len(q) : Reorder \/ i = 1}

-----------------------------------------------------------------------------
(* The driver *)

\* Slip: the snapshot leaves as the core made it, without data.
fill_nothing(m, store) == m

fill_snapshot(m, store) ==
    IF m.type = "InstallSnapshot" THEN [m EXCEPT !.data = snapshot(store)] ELSE m

fill_snapshots(msgs, store) == [i \in 1..Len(msgs) |-> fill_snapshot(msgs[i], store)]

(***************************************************************************)
(* Peers::send and peer_link: each peer's frames join its link in order.   *)
(* The frames to a peer that is not up are lost, because its connection    *)
(* cannot be made or breaks; a frame is written once, never sent again.    *)
(***************************************************************************)
transmit(net, n, up, outgoing, store) ==
    [net EXCEPT ![n] = [p \in Node |->
                           IF p \in up
                           THEN @[p] \o fill_snapshots(outgoing[p], store)
                           ELSE @[p]]]

commands(batch) == {i \in 1..Len(batch) : batch[i].kind = "Command"}

\* Slip: a committed index also resolves the waiters behind it.
resolved_from(ws, batch) == {w \in ws : \E i \in commands(batch) : batch[i].index <= w[1]}

\* Waiters the batch resolves as committed.
resolved(ws, batch) == {w \in ws : \E i \in commands(batch) : batch[i].index = w[1]}

\* Slip: the waiters of a lost leadership are kept.
failed_never(s, ws) == {}

\* Waiters told NotLeader once the node no longer leads.
failed(s, ws) == IF s.role = "Leader" THEN {} ELSE ws

(***************************************************************************)
(* lapses_of(n, m): how message m makes node n depart from the protocol.   *)
(*   revote             n grants a second candidate in one term            *)
(*   unverified_tail    n acknowledges entries that m's leader neither     *)
(*                      sent with m nor created                            *)
(*   shifted_entries    n merges entries below its own snapshot point      *)
(*   discarded_entries  n drops entries past the snapshot it installs      *)
(* The fifth, snapshot_term, is a leader's: it ships its snapshot under    *)
(* another term than its snapshot point has.                               *)
(***************************************************************************)
grants_vote(s, m) == m.type = "RequestVote" /\ can_grant(observe_term(s, m, 0), m)

accepts_append(s, m) ==
    /\ m.type = "AppendEntries" /\ m.term >= s.current_term
    /\ matches(s.log, m.prev_log_index, m.prev_log_term)

accepts_snapshot(s, m) == m.type = "InstallSnapshot" /\ m.term >= s.current_term

has_unverified_tail(log, m) ==
    /\ last_index(log) > m.prev_log_index + Len(m.entries)
    /\ last_term(log) # m.term

lapses_of(n, m) ==
    LET s == nodes[n]
    IN {l \in Lapse :
          \/ /\ l = "revote" /\ grants_vote(s, m)
             /\ \E c \in Node \ {m.candidate_id} : <<n, m.term, c>> \in grants
          \/ /\ l = "unverified_tail" /\ accepts_append(s, m)
             /\ has_unverified_tail(splice(s.log, m.prev_log_index, m.entries), m)
          \/ /\ l = "shifted_entries" /\ accepts_append(s, m)
             /\ m.prev_log_index < s.log.snapshot_index
          \/ /\ l = "discarded_entries" /\ accepts_snapshot(s, m)
             /\ last_index(s.log) > m.last_included_index}

mislabels_snapshot(s) ==
    \E p \in Node : \E i \in 1..Len(s.outgoing[p]) :
        /\ s.outgoing[p][i].type = "InstallSnapshot"
        /\ s.outgoing[p][i].last_included_term # s.log.snapshot_term

(***************************************************************************)
(* process_ready, after an event has left the core of n in state s with    *)
(* waiters ws, client answers outs and links net: messages go out (with    *)
(* the store as it is) before the batch is applied; the waiters of the     *)
(* batch's indexes are told Committed; a node that is not leader fails the *)
(* waiters that remain.                                                    *)
(***************************************************************************)
process_ready(n, s, ws, outs, net, ls) ==
    LET r    == apply_committed(s)
        done == resolved(ws, r.committed)
        lost == failed(r, ws \ done)
    IN /\ nodes' = [nodes EXCEPT ![n] = drain(r)]
       /\ stores' = [stores EXCEPT ![n] = apply_all(@, r.committed)]
       /\ waiters' = [waiters EXCEPT ![n] = (ws \ done) \ lost]
       /\ outcomes' = [c \in Command |->
                          IF \E w \in done : w[2] = c THEN "Committed"
                          ELSE IF \E w \in lost : w[2] = c THEN "NotLeader"
                          ELSE outs[c]]
       /\ \E up \in SUBSET {p \in Node : r.outgoing[p] # <<>>} :
             links' = transmit(net, n, up, r.outgoing, stores[n])
       /\ in_flight(links') <= MaxInFlight
       /\ grants' = grants \cup {<<n, r.current_term, c>> : c \in {r.voted_for} \ {None}}
       /\ heard' = heard \cup {<<n, r.current_term>> :
                                 l \in {r.leader_id} \ {None, n}}
       /\ elected' = elected \cup {<<r.current_term, n>> : l \in {r.role} \cap {"Leader"}}
       /\ applied' = applied \cup {<<r.committed[i].index, r.committed[i].command>> :
                                     i \in commands(r.committed)}
       /\ lapses' = lapses \cup ls \cup
                      (IF mislabels_snapshot(s) THEN {"snapshot_term"} ELSE {})

-----------------------------------------------------------------------------
(* Turns of the driver *)

\* At the bound on terms an election timer no longer runs out.
Tick(n) ==
    \E t \in Timeout :
        LET s == tick(n, nodes[n], t)
        IN process_ready(n, IF s.current_term <= MaxTerm THEN s ELSE nodes[n],
                         waiters[n], outcomes, links, {})

\* A frame of the link from p reaches the driver of n.
Receive(n, p) ==
    \E i \in deliverable(links[p][n]), t \in Timeout :
        LET m == links[p][n][i]
        IN process_ready(n, step(n, nodes[n], p, m, t), waiters[n], outcomes,
                         [links EXCEPT ![p][n] = remove(@, i)], lapses_of(n, m))

\* A client sends a write to the leader; every command is written once.
Propose(n, c) ==
    /\ outcomes[c] = "Unsent"
    /\ nodes[n].role = "Leader"
    /\ LET s == propose(n, nodes[n], c)
       IN process_ready(n, s, waiters[n] \cup {<<last_index(s.log), c>>},
                        [outcomes EXCEPT ![c] = "Waiting"], links, {})

\* A client sends a write to a node that is not the leader and is redirected.
Redirect(n, c) ==
    /\ outcomes[c] = "Unsent"
    /\ nodes[n].role # "Leader"
    /\ process_ready(n, nodes[n], waiters[n],
                     [outcomes EXCEPT ![c] = "NotLeader"], links, {})

Next == \E n \in Node :
            \/ Tick(n)
            \/ \E p \in Node : Receive(n, p)
            \/ \E c \in Command : Propose(n, c) \/ Redirect(n, c)

Spec == Init /\ [][Next]_vars

=============================================================================
