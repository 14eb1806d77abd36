------------------------------ MODULE RaftNode ------------------------------
(***************************************************************************)
(* The Raft core of src/raft/node.rs (with state.rs and message.rs): a     *)
(* deterministic machine that consumes ticks, proposals and messages, and  *)
(* accumulates messages and committed commands until take_ready drains     *)
(* them.  A method of RaftNode is an operator from the node's record to    *)
(* its new record; n is the node's own id, and timeout the value the       *)
(* random generator returns if the method resets the election timer.       *)
(***************************************************************************)
EXTENDS Storage

CONSTANTS Node,                 \* the members of the cluster
          None,                 \* Option::None of a node id
          HeartbeatTicks, ElectionTimeoutMin, ElectionTimeoutMax,
          SnapshotThreshold     \* RaftConfig

ASSUME RaftAssumption ==
    /\ IsFiniteSet(Node) /\ Node # {} /\ None \notin Node
    /\ HeartbeatTicks \in Nat /\ SnapshotThreshold \in Nat
    /\ ElectionTimeoutMin \in Nat /\ ElectionTimeoutMax \in Nat
    /\ ElectionTimeoutMin <= ElectionTimeoutMax

Timeout == ElectionTimeoutMin..ElectionTimeoutMax
Peers(n) == Node \ {n}
majority == Cardinality(Node) \div 2 + 1

Role == {"Follower", "Candidate", "Leader"}

RequestVote ==
    [type : {"RequestVote"}, term : Nat, candidate_id : Node,
     last_log_index : Nat, last_log_term : Nat]
RequestVoteReply ==
    [type : {"RequestVoteReply"}, term : Nat, voter_id : Node, vote_granted : BOOLEAN]
AppendEntries ==
    [type : {"AppendEntries"}, term : Nat, leader_id : Node,
     prev_log_index : Nat, prev_log_term : Nat,
     entries : Seq(LogEntry), leader_commit : Nat]
AppendEntriesReply ==
    [type : {"AppendEntriesReply"}, term : Nat, follower_id : Node,
     success : BOOLEAN, match_index : Nat, conflict_index : Nat]
InstallSnapshot ==
    [type : {"InstallSnapshot"}, term : Nat, leader_id : Node,
     last_included_index : Nat, last_included_term : Nat,
     data : SUBSET KeyValue]
InstallSnapshotReply ==
    [type : {"InstallSnapshotReply"}, term : Nat, follower_id : Node]
Message == RequestVote \cup RequestVoteReply \cup AppendEntries
             \cup AppendEntriesReply \cup InstallSnapshot \cup InstallSnapshotReply

(***************************************************************************)
(* next_index and match_index are maps with defaults 1 and 0; they are     *)
(* total functions here.  outgoing keeps one queue per destination: only   *)
(* the order of the envelopes to one peer can be observed.                 *)
(***************************************************************************)
RaftState ==
    [role : Role, leader_id : Node \cup {None},
     current_term : Nat, voted_for : Node \cup {None}, log : Log,
     commit_index : Nat, last_applied : Nat,
     next_index : [Node -> Nat \ {0}], match_index : [Node -> Nat],
     votes : SUBSET Node,
     election_elapsed : Nat, heartbeat_elapsed : Nat, election_timeout : Nat,
     outgoing : [Node -> Seq(Message)], committed : Seq(Committed)]

new(timeout) ==
    [role |-> "Follower", leader_id |-> None,
     current_term |-> 0, voted_for |-> None, log |-> EmptyLog,
     commit_index |-> 0, last_applied |-> 0,
     next_index |-> [p \in Node |-> 1], match_index |-> [p \in Node |-> 0],
     votes |-> {},
     election_elapsed |-> 0, heartbeat_elapsed |-> 0, election_timeout |-> timeout,
     outgoing |-> [p \in Node |-> <<>>], committed |-> <<>>]

-----------------------------------------------------------------------------
(* Sending *)

send(s, to, m) == [s EXCEPT !.outgoing[to] = Append(@, m)]

\* One message to every peer.
send_all(n, s, msgs) ==
    [s EXCEPT !.outgoing = [p \in Node |-> IF p = n THEN s.outgoing[p]
                                           ELSE Append(s.outgoing[p], msgs[p])]]

\* The message send_append builds for a peer.
append_for(n, s, peer) ==
    LET next == s.next_index[peer]
        prev == next - 1
    IN IF next <= s.log.snapshot_index
       THEN [type |-> "InstallSnapshot", term |-> s.current_term, leader_id |-> n,
             last_included_index |-> s.log.snapshot_index,
             last_included_term |-> last_term(s.log),
             data |-> {}]
       ELSE [type |-> "AppendEntries", term |-> s.current_term, leader_id |-> n,
             prev_log_index |-> prev,
             prev_log_term |-> IF term_at(s.log, prev) = NoTerm
                               THEN 0 ELSE term_at(s.log, prev),
             entries |-> entries_from(s.log, next),
             leader_commit |-> s.commit_index]

send_append(n, s, peer) == send(s, peer, append_for(n, s, peer))

broadcast_append(n, s) == send_all(n, s, [p \in Node |-> append_for(n, s, p)])

-----------------------------------------------------------------------------
(* Commitment *)

\* Slip: the leader is counted twice.
committable_counting_twice(n, s) ==
    {i \in s.commit_index + 1..last_index(s.log) :
        /\ term_at(s.log, i) = s.current_term
        /\ Cardinality({p \in Peers(n) : s.match_index[p] >= i}) + 2 >= majority}

\* Slip: an entry counts on a peer that holds only the one before it.
committable_too_soon(n, s) ==
    {i \in s.commit_index + 1..last_index(s.log) :
        /\ term_at(s.log, i) = s.current_term
        /\ Cardinality({p \in Peers(n) : s.match_index[p] >= i - 1}) + 1 >= majority}

\* The current-term indexes above commit_index that match_index puts on a majority.
committable(n, s) ==
    {i \in s.commit_index + 1..last_index(s.log) :
        /\ term_at(s.log, i) = s.current_term
        /\ Cardinality({p \in Peers(n) : s.match_index[p] >= i}) + 1 >= majority}

advance_commit(n, s) ==
    IF s.role = "Leader" /\ committable(n, s) # {}
    THEN [s EXCEPT !.commit_index = Max(committable(n, s))]
    ELSE s

maybe_compact(s) ==
    IF /\ s.last_applied >= s.log.snapshot_index
       /\ s.last_applied - s.log.snapshot_index >= SnapshotThreshold
    THEN [s EXCEPT !.log = compact(@, s.last_applied)]
    ELSE s

(***************************************************************************)
(* apply_committed walks last_applied up to commit_index and emits every   *)
(* entry it finds in the log; indexes the log does not hold are passed     *)
(* over.  The indexes it does hold are an interval.                        *)
(***************************************************************************)
newly_committed(s) ==
    LET first == max(s.last_applied, s.log.snapshot_index) + 1
        last  == min(s.commit_index, last_index(s.log))
    IN [k \in 1..max(0, last - first + 1) |->
            [kind |-> "Command", index |-> first + k - 1,
             command |-> get(s.log, first + k - 1).command]]

apply_committed(s) ==
    maybe_compact([s EXCEPT !.committed = @ \o newly_committed(s),
                            !.last_applied = max(@, s.commit_index)])

\* take_ready returns apply_committed(s)'s outgoing and committed, and leaves this.
drain(s) == [s EXCEPT !.outgoing = [p \in Node |-> <<>>], !.committed = <<>>]

-----------------------------------------------------------------------------
(* Role transitions *)

reset_election_timer(s, timeout) ==
    [s EXCEPT !.election_elapsed = 0, !.election_timeout = timeout]

become_follower(s, term, leader, timeout) ==
    reset_election_timer([s EXCEPT !.current_term = term, !.role = "Follower",
                                   !.voted_for = None, !.leader_id = leader],
                         timeout)

become_leader(n, s) ==
    LET l == [s EXCEPT !.role = "Leader", !.leader_id = n,
                       !.next_index = [p \in Node |-> last_index(s.log) + 1],
                       !.match_index = [p \in Node |-> 0],
                       !.heartbeat_elapsed = 0]
    IN advance_commit(n, broadcast_append(n, l))

become_candidate(n, s, timeout) ==
    LET c == reset_election_timer([s EXCEPT !.role = "Candidate",
                                            !.current_term = @ + 1,
                                            !.voted_for = n, !.leader_id = None,
                                            !.votes = {n}],
                                  timeout)
        request == [type |-> "RequestVote", term |-> c.current_term,
                    candidate_id |-> n, last_log_index |-> last_index(c.log),
                    last_log_term |-> last_term(c.log)]
    IN IF Cardinality(c.votes) >= majority
       THEN become_leader(n, c)
       ELSE send_all(n, c, [p \in Node |-> request])

-----------------------------------------------------------------------------
(* Ticks and proposals *)

tick(n, s, timeout) ==
    IF s.role = "Leader"
    THEN IF s.heartbeat_elapsed + 1 >= HeartbeatTicks
         THEN broadcast_append(n, [s EXCEPT !.heartbeat_elapsed = 0])
         ELSE [s EXCEPT !.heartbeat_elapsed = @ + 1]
    ELSE IF s.election_elapsed + 1 >= s.election_timeout
         THEN become_candidate(n, s, timeout)
         ELSE [s EXCEPT !.election_elapsed = @ + 1]

\* propose on a leader; the index it returns is the new last index.
propose(n, s, command) ==
    LET entry == [term |-> s.current_term, command |-> command]
    IN advance_commit(n,
           broadcast_append(n, [s EXCEPT !.log = append(@, <<entry>>)]))

-----------------------------------------------------------------------------
(* Messages *)

\* Slip: the terms are compared and the lengths are not.
candidate_has_term(s, index, term) == term >= last_term(s.log)

candidate_is_up_to_date(s, index, term) ==
    \/ term > last_term(s.log)
    \/ term = last_term(s.log) /\ index >= last_index(s.log)

\* Slip: a vote already cast is not looked at.
can_grant_again(s, m) ==
    /\ m.term >= s.current_term
    /\ candidate_is_up_to_date(s, m.last_log_index, m.last_log_term)

can_grant(s, m) ==
    /\ m.term >= s.current_term
    /\ s.voted_for \in {None, m.candidate_id}
    /\ candidate_is_up_to_date(s, m.last_log_index, m.last_log_term)

handle_request_vote(n, s, m, timeout) ==
    LET v == IF can_grant(s, m)
             THEN reset_election_timer([s EXCEPT !.voted_for = m.candidate_id], timeout)
             ELSE s
    IN send(v, m.candidate_id,
            [type |-> "RequestVoteReply", term |-> s.current_term, voter_id |-> n,
             vote_granted |-> can_grant(s, m)])

\* Slip: refusals are tallied too.
count_every_reply(n, s, m) ==
    IF s.role # "Candidate" \/ m.term # s.current_term THEN s
    ELSE LET v == [s EXCEPT !.votes = @ \cup {m.voter_id}]
         IN IF Cardinality(v.votes) >= majority THEN become_leader(n, v) ELSE v

handle_request_vote_reply(n, s, m) ==
    IF s.role # "Candidate" \/ m.term # s.current_term \/ ~m.vote_granted THEN s
    ELSE LET v == [s EXCEPT !.votes = @ \cup {m.voter_id}]
         IN IF Cardinality(v.votes) >= majority THEN become_leader(n, v) ELSE v

conflict_hint(s, prev) ==
    IF prev > last_index(s.log) THEN last_index(s.log) + 1
                                ELSE max(prev, first_index(s.log))

append_reply(n, s, success, match, conflict) ==
    [type |-> "AppendEntriesReply", term |-> s.current_term, follower_id |-> n,
     success |-> success, match_index |-> match, conflict_index |-> conflict]

reject_append(n, s, leader, conflict) ==
    send(s, leader, append_reply(n, s, FALSE, 0, conflict))

\* Slip: commit_index follows leader_commit down as well as up.
accept_append_commit(n, f, m) ==
    LET log == splice(f.log, m.prev_log_index, m.entries)
        a   == [f EXCEPT !.log = log,
                         !.commit_index = min(m.leader_commit, last_index(log))]
    IN send(a, m.leader_id, append_reply(n, a, TRUE, last_index(log), 0))

accept_append(n, f, m) ==
    LET log == splice(f.log, m.prev_log_index, m.entries)
        a   == [f EXCEPT !.log = log,
                         !.commit_index = IF m.leader_commit > @
                                          THEN min(m.leader_commit, last_index(log))
                                          ELSE @]
    IN send(a, m.leader_id, append_reply(n, a, TRUE, last_index(log), 0))

handle_append_entries(n, s, m, timeout) ==
    LET f == become_follower(s, m.term, m.leader_id, timeout)
    IN IF m.term < s.current_term THEN reject_append(n, s, m.leader_id, 0)
       ELSE IF ~matches(f.log, m.prev_log_index, m.prev_log_term)
            THEN reject_append(n, f, m.leader_id, conflict_hint(f, m.prev_log_index))
            ELSE accept_append(n, f, m)

\* Slip: next_index is the last matching index, not the one after it.
resend_last_match(n, s, from, m) ==
    IF s.role # "Leader" \/ m.term # s.current_term THEN s
    ELSE IF m.success
    THEN advance_commit(n, [s EXCEPT !.match_index[from] = m.match_index,
                                     !.next_index[from] = m.match_index])
    ELSE send_append(n, [s EXCEPT !.next_index[from] = max(m.conflict_index, 1)], from)

\* Slip: a rejection is dropped.
ignore_rejection(n, s, from, m) ==
    IF s.role # "Leader" \/ m.term # s.current_term \/ ~m.success THEN s
    ELSE advance_commit(n, [s EXCEPT !.match_index[from] = m.match_index,
                                     !.next_index[from] = m.match_index + 1])

\* Slip: the commit index is left for the next proposal to advance.
reply_without_commit(n, s, from, m) ==
    IF s.role # "Leader" \/ m.term # s.current_term THEN s
    ELSE IF m.success
    THEN [s EXCEPT !.match_index[from] = m.match_index,
                   !.next_index[from] = m.match_index + 1]
    ELSE send_append(n, [s EXCEPT !.next_index[from] = max(m.conflict_index, 1)], from)

handle_append_entries_reply(n, s, from, m) ==
    IF s.role # "Leader" \/ m.term # s.current_term THEN s
    ELSE IF m.success
    THEN advance_commit(n, [s EXCEPT !.match_index[from] = m.match_index,
                                     !.next_index[from] = m.match_index + 1])
    ELSE send_append(n, [s EXCEPT !.next_index[from] = max(m.conflict_index, 1)], from)

handle_install_snapshot(n, s, m, timeout) ==
    IF m.term < s.current_term THEN s
    ELSE LET f == become_follower(s, m.term, m.leader_id, timeout)
             i == [f EXCEPT !.log = install_snapshot(@, m.last_included_index,
                                                        m.last_included_term),
                            !.commit_index = m.last_included_index,
                            !.last_applied = m.last_included_index,
                            !.committed = Append(@, [kind |-> "Snapshot",
                                                     data |-> m.data])]
         IN send(i, m.leader_id, [type |-> "InstallSnapshotReply",
                                  term |-> i.current_term, follower_id |-> n])

handle_install_snapshot_reply(s, from, m) ==
    IF s.role # "Leader" \/ m.term # s.current_term THEN s
    ELSE [s EXCEPT !.match_index[from] = s.log.snapshot_index,
                   !.next_index[from] = s.log.snapshot_index + 1]

\* A message of a higher term first makes the node a follower of that term.
observe_term(s, m, timeout) ==
    IF m.term > s.current_term THEN become_follower(s, m.term, None, timeout) ELSE s

step(n, s, from, m, timeout) ==
    LET o == observe_term(s, m, timeout)
    IN CASE m.type = "RequestVote"          -> handle_request_vote(n, o, m, timeout)
         [] m.type = "RequestVoteReply"     -> handle_request_vote_reply(n, o, m)
         [] m.type = "AppendEntries"        -> handle_append_entries(n, o, m, timeout)
         [] m.type = "AppendEntriesReply"   -> handle_append_entries_reply(n, o, from, m)
         [] m.type = "InstallSnapshot"      -> handle_install_snapshot(n, o, m, timeout)
         [] m.type = "InstallSnapshotReply" -> handle_install_snapshot_reply(o, from, m)

=============================================================================
