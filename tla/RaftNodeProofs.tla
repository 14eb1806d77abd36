--------------------------- MODULE RaftNodeProofs ---------------------------
(***************************************************************************)
(* Type correctness of the Raft core: whatever event a well-formed node    *)
(* handles, it is well formed afterwards.                                  *)
(***************************************************************************)
EXTENDS RaftNode, StorageProofs

\* send queues a message.
LEMMA SendType ==
    ASSUME NEW s \in RaftState, NEW to \in Node, NEW m \in Message
    PROVE  send(s, to, m) \in RaftState
<1>1. Append(s.outgoing[to], m) \in Seq(Message)
  BY AppendProperties DEF RaftState
<1>2. [s.outgoing EXCEPT ![to] = Append(@, m)] \in [Node -> Seq(Message)]
  BY <1>1 DEF RaftState
<1>. QED BY <1>2 DEF send, RaftState

\* One message to every peer keeps the queues.
LEMMA SendAllType ==
    ASSUME NEW n \in Node, NEW s \in RaftState, NEW msgs \in [Node -> Message]
    PROVE  send_all(n, s, msgs) \in RaftState
<1>. DEFINE out == [p \in Node |-> IF p = n THEN s.outgoing[p]
                                   ELSE Append(s.outgoing[p], msgs[p])]
<1>1. \A p \in Node : s.outgoing[p] \in Seq(Message)
  BY DEF RaftState
<1>2. \A p \in Node : Append(s.outgoing[p], msgs[p]) \in Seq(Message)
  BY <1>1, AppendProperties
<1>3. out \in [Node -> Seq(Message)]
  BY <1>1, <1>2
<1>4. send_all(n, s, msgs) = [s EXCEPT !.outgoing = out]
  BY DEF send_all
<1>. HIDE DEF out
<1>. QED BY <1>3, <1>4 DEF RaftState

\* send_append builds a well-formed AppendEntries or InstallSnapshot.
LEMMA AppendForType ==
    ASSUME NEW n \in Node, NEW s \in RaftState, NEW peer \in Node
    PROVE  append_for(n, s, peer) \in Message
<1>. DEFINE next == s.next_index[peer]
            prev == next - 1
            t    == IF term_at(s.log, prev) = NoTerm THEN 0 ELSE term_at(s.log, prev)
<1>1. next \in Nat /\ prev \in Nat /\ s.log \in Log
  <2>1. next \in Nat \ {0} /\ s.log \in Log
    BY DEF RaftState
  <2>. QED BY <2>1
<1>2. last_term(s.log) \in Nat /\ s.log.snapshot_index \in Nat
  BY <1>1, LastTermType, LogFields
<1>3. t \in Nat
  BY <1>1, TermAtType
<1>4. entries_from(s.log, next) \in Seq(LogEntry)
  BY <1>1, EntriesFromType
<1>5. s.current_term \in Nat /\ s.commit_index \in Nat
  BY DEF RaftState
<1>6. CASE next <= s.log.snapshot_index
  <2>1. append_for(n, s, peer) \in InstallSnapshot
    BY <1>2, <1>5, <1>6 DEF append_for, InstallSnapshot
  <2>. QED BY <2>1 DEF Message
<1>7. CASE ~(next <= s.log.snapshot_index)
  <2>. HIDE DEF t
  <2>1. append_for(n, s, peer) =
          [type |-> "AppendEntries", term |-> s.current_term, leader_id |-> n,
           prev_log_index |-> prev, prev_log_term |-> t,
           entries |-> entries_from(s.log, next), leader_commit |-> s.commit_index]
    BY <1>7 DEF append_for, t
  <2>. HIDE DEF prev
  <2>2. append_for(n, s, peer) \in AppendEntries
    BY <1>1, <1>3, <1>4, <1>5, <2>1 DEF AppendEntries
  <2>. QED BY <2>2 DEF Message
<1>. QED BY <1>6, <1>7

\* send_append keeps the node well formed.
LEMMA SendAppendType ==
    ASSUME NEW n \in Node, NEW s \in RaftState, NEW peer \in Node
    PROVE  send_append(n, s, peer) \in RaftState
BY AppendForType, SendType DEF send_append

\* broadcast_append keeps the node well formed.
LEMMA BroadcastType ==
    ASSUME NEW n \in Node, NEW s \in RaftState
    PROVE  broadcast_append(n, s) \in RaftState
<1>1. [p \in Node |-> append_for(n, s, p)] \in [Node -> Message]
  BY AppendForType
<1>. QED BY <1>1, SendAllType DEF broadcast_append

\* advance_commit moves commit_index to a natural number.
LEMMA AdvanceCommitType ==
    ASSUME NEW n \in Node, NEW s \in RaftState
    PROVE  advance_commit(n, s) \in RaftState
<1>. DEFINE C == committable(n, s)
<1>1. s.commit_index \in Nat /\ last_index(s.log) \in Nat
  BY LogFields DEF RaftState
<1>2. C \in SUBSET Nat /\ \A x \in C : x <= last_index(s.log)
  BY <1>1 DEF committable
<1>3. C # {} => Max(C) \in Nat
  BY <1>1, <1>2, MaxProperty
<1>. HIDE DEF C
<1>. QED BY <1>3 DEF advance_commit, RaftState, C

\* What apply_committed emits are commands of the log.
LEMMA NewlyCommittedType ==
    ASSUME NEW s \in RaftState
    PROVE  newly_committed(s) \in Seq(Committed)
<1>. DEFINE first == max(s.last_applied, s.log.snapshot_index) + 1
            last  == min(s.commit_index, last_index(s.log))
            item(k) == [kind |-> "Command", index |-> first + k - 1,
                        command |-> get(s.log, first + k - 1).command]
<1>1. /\ s.log \in Log /\ s.last_applied \in Nat /\ s.commit_index \in Nat
      /\ s.log.snapshot_index \in Nat /\ last_index(s.log) \in Nat
  BY LogFields DEF RaftState
<1>2. first \in Nat /\ last \in Nat
  BY <1>1 DEF max, min
<1>. DEFINE len == max(0, last - first + 1)
<1>3. len \in Nat /\ 1..len \subseteq 1..(last - first + 1)
  BY <1>2 DEF max
<1>4. ASSUME NEW k \in 1..len
      PROVE  item(k) \in Committed
  <2>1. first + k - 1 \in Nat /\ present(s.log, first + k - 1)
    <3>1. k \in 1..(last - first + 1)
      BY <1>3
    <3>. QED BY <1>1, <1>2, <3>1 DEF present, max, min
  <2>2. get(s.log, first + k - 1) \in LogEntry
    BY <1>1, <2>1, GetType
  <2>3. get(s.log, first + k - 1).command \in Command
    BY <2>2 DEF LogEntry
  <2>. HIDE DEF first
  <2>. QED BY <2>1, <2>3 DEF Committed
<1>5. newly_committed(s) = [k \in 1..len |-> item(k)]
  BY DEF newly_committed
<1>. HIDE DEF item, len
<1>6. newly_committed(s) \in [1..len -> Committed]
  BY <1>4, <1>5
<1>. QED BY <1>3, <1>6, SeqDef

\* maybe_compact keeps the node well formed.
LEMMA MaybeCompactType ==
    ASSUME NEW s \in RaftState
    PROVE  maybe_compact(s) \in RaftState
<1>1. compact(s.log, s.last_applied) \in Log
  BY CompactType DEF RaftState
<1>. QED BY <1>1 DEF maybe_compact, RaftState

\* apply_committed keeps the node well formed.
LEMMA ApplyCommittedType ==
    ASSUME NEW s \in RaftState
    PROVE  apply_committed(s) \in RaftState
<1>. DEFINE a == [s EXCEPT !.committed = @ \o newly_committed(s),
                           !.last_applied = max(@, s.commit_index)]
<1>1. s.committed \o newly_committed(s) \in Seq(Committed)
  BY NewlyCommittedType, ConcatProperties DEF RaftState
<1>2. max(s.last_applied, s.commit_index) \in Nat
  BY DEF RaftState, max
<1>3. a \in RaftState
  BY <1>1, <1>2 DEF RaftState
<1>. HIDE DEF a
<1>. QED BY <1>3, MaybeCompactType DEF apply_committed, a

\* take_ready leaves a well-formed node with empty queues.
LEMMA DrainType ==
    ASSUME NEW s \in RaftState
    PROVE  drain(s) \in RaftState
<1>1. [p \in Node |-> <<>>] \in [Node -> Seq(Message)] /\ <<>> \in Seq(Committed)
  OBVIOUS
<1>. QED BY <1>1 DEF drain, RaftState

\* become_follower keeps the node well formed.
LEMMA BecomeFollowerType ==
    ASSUME NEW s \in RaftState, NEW term \in Nat, NEW leader \in Node \cup {None},
           NEW timeout \in Nat
    PROVE  become_follower(s, term, leader, timeout) \in RaftState
BY DEF become_follower, reset_election_timer, RaftState, Role

\* become_leader keeps the node well formed.
LEMMA BecomeLeaderType ==
    ASSUME NEW n \in Node, NEW s \in RaftState
    PROVE  become_leader(n, s) \in RaftState
<1>. DEFINE l == [s EXCEPT !.role = "Leader", !.leader_id = n,
                           !.next_index = [p \in Node |-> last_index(s.log) + 1],
                           !.match_index = [p \in Node |-> 0],
                           !.heartbeat_elapsed = 0]
<1>1. last_index(s.log) \in Nat
  BY LogFields DEF RaftState
<1>2. last_index(s.log) + 1 \in Nat \ {0}
  BY <1>1
<1>3. l \in RaftState
  BY <1>2 DEF RaftState, Role
<1>. HIDE DEF l
<1>. QED BY <1>3, BroadcastType, AdvanceCommitType DEF become_leader, l

\* become_candidate keeps the node well formed.
LEMMA BecomeCandidateType ==
    ASSUME NEW n \in Node, NEW s \in RaftState, NEW timeout \in Nat
    PROVE  become_candidate(n, s, timeout) \in RaftState
<1>. DEFINE c == reset_election_timer([s EXCEPT !.role = "Candidate",
                                                !.current_term = @ + 1,
                                                !.voted_for = n, !.leader_id = None,
                                                !.votes = {n}],
                                      timeout)
            request == [type |-> "RequestVote", term |-> c.current_term,
                        candidate_id |-> n, last_log_index |-> last_index(c.log),
                        last_log_term |-> last_term(c.log)]
<1>1. c \in RaftState
  <2>1. s.current_term + 1 \in Nat /\ {n} \in SUBSET Node /\ "Candidate" \in Role
    <3>1. s.current_term \in Nat
      BY DEF RaftState
    <3>2. s.current_term + 1 \in Nat
      BY <3>1
    <3>. QED BY <3>2 DEF Role
  <2>. QED BY <2>1 DEF reset_election_timer, RaftState
<1>. HIDE DEF c
<1>2. c.current_term \in Nat /\ last_index(c.log) \in Nat /\ last_term(c.log) \in Nat
  BY <1>1, LogFields, LastTermType DEF RaftState
<1>3. request \in Message
  BY <1>2 DEF Message, RequestVote
<1>. HIDE DEF request
<1>4. [p \in Node |-> request] \in [Node -> Message]
  BY <1>3
<1>. QED BY <1>1, <1>4, BecomeLeaderType, SendAllType DEF become_candidate, c, request

\* tick keeps the node well formed.
LEMMA TickType ==
    ASSUME NEW n \in Node, NEW s \in RaftState, NEW timeout \in Nat
    PROVE  tick(n, s, timeout) \in RaftState
<1>1. [s EXCEPT !.heartbeat_elapsed = 0] \in RaftState
  BY DEF RaftState
<1>0. s.heartbeat_elapsed \in Nat /\ s.election_elapsed \in Nat
  BY DEF RaftState
<1>2. s.heartbeat_elapsed + 1 \in Nat /\ s.election_elapsed + 1 \in Nat
  BY <1>0
<1>3. [s EXCEPT !.heartbeat_elapsed = @ + 1] \in RaftState
  BY <1>2 DEF RaftState
<1>4. [s EXCEPT !.election_elapsed = @ + 1] \in RaftState
  BY <1>2 DEF RaftState
<1>. QED BY <1>1, <1>3, <1>4, BroadcastType, BecomeCandidateType DEF tick

\* propose keeps the node well formed.
LEMMA ProposeType ==
    ASSUME NEW n \in Node, NEW s \in RaftState, NEW c \in Command
    PROVE  propose(n, s, c) \in RaftState
<1>. DEFINE entry == [term |-> s.current_term, command |-> c]
            a == [s EXCEPT !.log = append(@, <<entry>>)]
<1>1. entry \in LogEntry
  BY DEF RaftState, LogEntry
<1>2. <<entry>> \in Seq(LogEntry)
  BY <1>1
<1>3. append(s.log, <<entry>>) \in Log
  BY <1>2, AppendType DEF RaftState
<1>4. a \in RaftState
  BY <1>3 DEF RaftState
<1>. HIDE DEF a
<1>. QED BY <1>4, BroadcastType, AdvanceCommitType DEF propose, a

\* handle_request_vote keeps the node well formed.
LEMMA RequestVoteType ==
    ASSUME NEW n \in Node, NEW s \in RaftState, NEW m \in RequestVote, NEW timeout \in Nat
    PROVE  handle_request_vote(n, s, m, timeout) \in RaftState
<1>. DEFINE v == IF can_grant(s, m)
                 THEN reset_election_timer([s EXCEPT !.voted_for = m.candidate_id], timeout)
                 ELSE s
            reply == [type |-> "RequestVoteReply", term |-> s.current_term, voter_id |-> n,
                      vote_granted |-> can_grant(s, m)]
<1>1. m.candidate_id \in Node
  BY DEF RequestVote
<1>2. v \in RaftState
  BY <1>1 DEF reset_election_timer, RaftState
<1>3. can_grant(s, m) \in BOOLEAN
  BY DEF can_grant
<1>4. reply \in Message
  BY <1>3 DEF RaftState, Message, RequestVoteReply
<1>. HIDE DEF v, reply
<1>. QED BY <1>1, <1>2, <1>4, SendType DEF handle_request_vote, v, reply

\* handle_request_vote_reply keeps the node well formed.
LEMMA RequestVoteReplyType ==
    ASSUME NEW n \in Node, NEW s \in RaftState, NEW m \in RequestVoteReply
    PROVE  handle_request_vote_reply(n, s, m) \in RaftState
<1>. DEFINE v == [s EXCEPT !.votes = @ \cup {m.voter_id}]
<1>1. v \in RaftState
  BY DEF RaftState, RequestVoteReply
<1>. HIDE DEF v
<1>. QED BY <1>1, BecomeLeaderType DEF handle_request_vote_reply, v

\* Every AppendEntriesReply a follower builds is a message.
LEMMA AppendReplyType ==
    ASSUME NEW n \in Node, NEW s \in RaftState, NEW success \in BOOLEAN,
           NEW match \in Nat, NEW conflict \in Nat
    PROVE  append_reply(n, s, success, match, conflict) \in Message
BY DEF append_reply, RaftState, Message, AppendEntriesReply

\* Merging the entries of a leader keeps the node well formed.
LEMMA AcceptAppendType ==
    ASSUME NEW n \in Node, NEW f \in RaftState, NEW m \in AppendEntries
    PROVE  accept_append(n, f, m) \in RaftState
<1>. DEFINE log == splice(f.log, m.prev_log_index, m.entries)
            commit == IF m.leader_commit > f.commit_index
                      THEN min(m.leader_commit, last_index(log)) ELSE f.commit_index
            a   == [f EXCEPT !.log = log, !.commit_index = commit]
<1>1. m.leader_id \in Node /\ m.leader_commit \in Nat
  BY DEF AppendEntries
<1>2. log \in Log
  BY SpliceType DEF RaftState, AppendEntries
<1>3. last_index(log) \in Nat
  BY <1>2, LogFields
<1>. HIDE DEF log
<1>4. commit \in Nat
  BY <1>1, <1>3 DEF RaftState, min
<1>5. a \in RaftState
  BY <1>2, <1>4 DEF RaftState
<1>6. accept_append(n, f, m) =
         send(a, m.leader_id, append_reply(n, a, TRUE, last_index(log), 0))
  BY DEF accept_append, log
<1>. HIDE DEF a
<1>7. append_reply(n, a, TRUE, last_index(log), 0) \in Message
  BY <1>3, <1>5, AppendReplyType
<1>. QED BY <1>1, <1>5, <1>6, <1>7, SendType

\* reject_append keeps the node well formed.
LEMMA RejectAppendType ==
    ASSUME NEW n \in Node, NEW s \in RaftState, NEW leader \in Node, NEW conflict \in Nat
    PROVE  reject_append(n, s, leader, conflict) \in RaftState
BY AppendReplyType, SendType DEF reject_append

\* handle_append_entries keeps the node well formed.
LEMMA AppendEntriesType ==
    ASSUME NEW n \in Node, NEW s \in RaftState, NEW m \in AppendEntries, NEW timeout \in Nat
    PROVE  handle_append_entries(n, s, m, timeout) \in RaftState
<1>. DEFINE f == become_follower(s, m.term, m.leader_id, timeout)
<1>1. m.term \in Nat /\ m.leader_id \in Node /\ m.prev_log_index \in Nat
  BY DEF AppendEntries
<1>2. f \in RaftState
  BY <1>1, BecomeFollowerType
<1>. HIDE DEF f
<1>a. f.log \in Log
  BY <1>2 DEF RaftState
<1>b. last_index(f.log) \in Nat /\ first_index(f.log) \in Nat
  BY <1>a, LogFields DEF first_index
<1>3. conflict_hint(f, m.prev_log_index) \in Nat
  BY <1>1, <1>b DEF conflict_hint, max
<1>. QED BY <1>1, <1>2, <1>3, RejectAppendType, AcceptAppendType
         DEF handle_append_entries, f

\* The progress of one peer can be set to any index, next_index staying positive.
LEMMA ProgressType ==
    ASSUME NEW s \in RaftState, NEW p \in Node, NEW match \in Nat, NEW next \in Nat \ {0}
    PROVE  /\ [s EXCEPT !.match_index[p] = match, !.next_index[p] = next] \in RaftState
           /\ [s EXCEPT !.next_index[p] = next] \in RaftState
BY DEF RaftState

\* handle_append_entries_reply keeps the node well formed.
LEMMA AppendEntriesReplyType ==
    ASSUME NEW n \in Node, NEW s \in RaftState, NEW from \in Node,
           NEW m \in AppendEntriesReply
    PROVE  handle_append_entries_reply(n, s, from, m) \in RaftState
<1>1. m.match_index \in Nat /\ m.match_index + 1 \in Nat \ {0}
  BY DEF AppendEntriesReply
<1>2. max(m.conflict_index, 1) \in Nat \ {0}
  BY DEF AppendEntriesReply, max
<1>3. [s EXCEPT !.match_index[from] = m.match_index,
                !.next_index[from] = m.match_index + 1] \in RaftState
  BY <1>1, ProgressType
<1>4. [s EXCEPT !.next_index[from] = max(m.conflict_index, 1)] \in RaftState
  BY <1>2, ProgressType
<1>. QED BY <1>3, <1>4, AdvanceCommitType, SendAppendType DEF handle_append_entries_reply

\* handle_install_snapshot keeps the node well formed.
LEMMA InstallSnapshotType ==
    ASSUME NEW n \in Node, NEW s \in RaftState, NEW m \in InstallSnapshot, NEW timeout \in Nat
    PROVE  handle_install_snapshot(n, s, m, timeout) \in RaftState
<1>. DEFINE f == become_follower(s, m.term, m.leader_id, timeout)
            item == [kind |-> "Snapshot", data |-> m.data]
            i == [f EXCEPT !.log = install_snapshot(@, m.last_included_index,
                                                       m.last_included_term),
                           !.commit_index = m.last_included_index,
                           !.last_applied = m.last_included_index,
                           !.committed = Append(@, item)]
            reply == [type |-> "InstallSnapshotReply", term |-> i.current_term,
                      follower_id |-> n]
<1>1. /\ m.term \in Nat /\ m.leader_id \in Node /\ m.data \in SUBSET KeyValue
      /\ m.last_included_index \in Nat /\ m.last_included_term \in Nat
  BY DEF InstallSnapshot
<1>2. f \in RaftState
  BY <1>1, BecomeFollowerType
<1>. HIDE DEF f
<1>3. item \in Committed
  BY <1>1 DEF Committed
<1>. HIDE DEF item
<1>4. Append(f.committed, item) \in Seq(Committed)
  BY <1>2, <1>3, AppendProperties DEF RaftState
<1>5. install_snapshot(f.log, m.last_included_index, m.last_included_term) \in Log
  BY <1>1 DEF install_snapshot, Log
<1>6. i \in RaftState
  BY <1>1, <1>2, <1>4, <1>5 DEF RaftState
<1>. HIDE DEF i
<1>7. reply \in Message
  BY <1>6 DEF RaftState, Message, InstallSnapshotReply
<1>. HIDE DEF reply
<1>. QED BY <1>1, <1>6, <1>7, SendType DEF handle_install_snapshot, f, item, i, reply

\* handle_install_snapshot_reply keeps the node well formed.
LEMMA InstallSnapshotReplyType ==
    ASSUME NEW s \in RaftState, NEW from \in Node, NEW m \in InstallSnapshotReply
    PROVE  handle_install_snapshot_reply(s, from, m) \in RaftState
<1>a. s.log \in Log
  BY DEF RaftState
<1>b. s.log.snapshot_index \in Nat
  BY <1>a, LogFields
<1>1. s.log.snapshot_index + 1 \in Nat \ {0}
  BY <1>b
<1>. QED BY <1>1, <1>b, ProgressType DEF handle_install_snapshot_reply

\* Taking over a higher term keeps the node well formed.
LEMMA ObserveTermType ==
    ASSUME NEW s \in RaftState, NEW m \in Message, NEW timeout \in Nat
    PROVE  observe_term(s, m, timeout) \in RaftState
<1>1. m.term \in Nat
  BY DEF Message, RequestVote, RequestVoteReply, AppendEntries, AppendEntriesReply,
         InstallSnapshot, InstallSnapshotReply
<1>. QED BY <1>1, BecomeFollowerType DEF observe_term

\* step keeps the node well formed, whatever message arrives.
LEMMA StepType ==
    ASSUME NEW n \in Node, NEW s \in RaftState, NEW from \in Node, NEW m \in Message,
           NEW timeout \in Nat
    PROVE  step(n, s, from, m, timeout) \in RaftState
<1>. DEFINE o == observe_term(s, m, timeout)
<1>1. o \in RaftState
  BY ObserveTermType
<1>. HIDE DEF o
<1>2. CASE m \in RequestVote
  <2>1. m.type = "RequestVote"
    BY <1>2 DEF RequestVote
  <2>. QED BY <1>1, <1>2, <2>1, RequestVoteType DEF step, o
<1>3. CASE m \in RequestVoteReply
  <2>1. m.type = "RequestVoteReply"
    BY <1>3 DEF RequestVoteReply
  <2>. QED BY <1>1, <1>3, <2>1, RequestVoteReplyType DEF step, o
<1>4. CASE m \in AppendEntries
  <2>1. m.type = "AppendEntries"
    BY <1>4 DEF AppendEntries
  <2>. QED BY <1>1, <1>4, <2>1, AppendEntriesType DEF step, o
<1>5. CASE m \in AppendEntriesReply
  <2>1. m.type = "AppendEntriesReply"
    BY <1>5 DEF AppendEntriesReply
  <2>. QED BY <1>1, <1>5, <2>1, AppendEntriesReplyType DEF step, o
<1>6. CASE m \in InstallSnapshot
  <2>1. m.type = "InstallSnapshot"
    BY <1>6 DEF InstallSnapshot
  <2>. QED BY <1>1, <1>6, <2>1, InstallSnapshotType DEF step, o
<1>7. CASE m \in InstallSnapshotReply
  <2>1. m.type = "InstallSnapshotReply"
    BY <1>7 DEF InstallSnapshotReply
  <2>. QED BY <1>1, <1>7, <2>1, InstallSnapshotReplyType DEF step, o
<1>. QED BY <1>2, <1>3, <1>4, <1>5, <1>6, <1>7 DEF Message

=============================================================================
