---------------------------- MODULE LeaderProofs ----------------------------
(***************************************************************************)
(* A leader only appends, and acknowledges a write only once it is applied *)
(* where the client's proposal put it, for every cluster, configuration    *)
(* and bound.                                                              *)
(***************************************************************************)
EXTENDS ClusterProofs

\* A turn of the core leaves the log of a leader alone, or ends its leadership,
\* or appends.
Kept(b, s) == s.role = "Leader" => OnlyAppended(b.log, s.log)

\* A log only appends to itself.
LEMMA AppendedSame ==
    ASSUME NEW log \in Log
    PROVE  OnlyAppended(log, log)
BY LogFields DEF OnlyAppended

\* append adds behind the last index and moves nothing.
LEMMA AppendedByAppend ==
    ASSUME NEW log \in Log, NEW es \in Seq(LogEntry)
    PROVE  OnlyAppended(log, append(log, es))
<1>. DEFINE b == append(log, es)
<1>1. log.entries \in Seq(LogEntry) /\ log.snapshot_index \in Nat
  BY LogFields
<1>2. /\ Len(log.entries \o es) = Len(log.entries) + Len(es)
      /\ \A k \in 1..Len(log.entries) : (log.entries \o es)[k] = log.entries[k]
  BY <1>1, ConcatProperties
<1>3. b.entries = log.entries \o es /\ b.snapshot_index = log.snapshot_index
  BY DEF append, Log
<1>. HIDE DEF b
<1>4. last_index(b) >= last_index(log)
  BY <1>1, <1>2, <1>3 DEF last_index
<1>5. ASSUME NEW i \in 1..last_index(log), present(log, i)
      PROVE  get(b, i) = get(log, i)
  <2>1. i - log.snapshot_index \in 1..Len(log.entries)
    BY <1>1, <1>5 DEF present, last_index
  <2>. QED BY <1>2, <1>3, <2>1 DEF get
<1>. QED BY <1>4, <1>5 DEF OnlyAppended, b

\* compact keeps the last index and every entry above the new snapshot point.
LEMMA CompactKeeps ==
    ASSUME NEW a \in Log, NEW s \in Log, NEW index \in Nat, OnlyAppended(a, s)
    PROVE  OnlyAppended(a, compact(s, index))
<1>1. CASE ~present(s, index)
  BY <1>1 DEF compact
<1>2. CASE present(s, index)
  <2>. DEFINE b == compact(s, index)
              e == s.entries
              d == index - s.snapshot_index
              z == s.snapshot_index
  <2>1. e \in Seq(LogEntry) /\ z \in Nat /\ d \in 1..Len(e) /\ index = z + d
    BY <1>2, LogFields DEF present, last_index
  <2>2. b.entries = SubSeq(e, d + 1, Len(e)) /\ b.snapshot_index = index
    BY <1>2 DEF compact
  <2>3. last_index(s) = z + Len(e) /\ \A i : get(s, i) = e[i - z]
    BY DEF last_index, get
  <2>. HIDE DEF b, d, e, z
  <2>4. Len(e) \in Nat /\ d \in Nat /\ d <= Len(e)
    BY <2>1
  <2>5. /\ Len(b.entries) = Len(e) - d
        /\ \A k \in 1..Len(e) - d : b.entries[k] = e[d + k]
    BY <2>1, <2>2, <2>4
  <2>6. last_index(b) = last_index(s)
    <3>1. last_index(b) = index + (Len(e) - d)
      BY <2>2, <2>5 DEF last_index
    <3>. QED BY <2>1, <2>3, <2>4, <3>1
  <2>7. ASSUME NEW i \in 1..last_index(a), present(a, i), i > b.snapshot_index
        PROVE  get(b, i) = get(a, i)
    <3>1. last_index(a) \in Nat /\ last_index(s) \in Nat /\ i \in Nat /\ i <= last_index(s)
      BY LogFields DEF OnlyAppended
    <3>2. i > s.snapshot_index
      BY <2>1, <2>2, <2>4, <2>7, <3>1 DEF z
    <3>3. get(s, i) = get(a, i)
      BY <2>7, <3>2 DEF OnlyAppended
    <3>4. i - index \in 1..Len(e) - d /\ d + (i - index) = i - z
      BY <2>1, <2>2, <2>3, <2>4, <2>7, <3>1
    <3>5. get(b, i) = b.entries[i - index]
      BY <2>2 DEF get
    <3>. QED BY <2>3, <2>5, <3>3, <3>4, <3>5
  <2>. QED BY <2>6, <2>7 DEF OnlyAppended, b
<1>. QED BY <1>1, <1>2

\* Sending and committing leave the log alone and emit nothing.
LEMMA QuietLog ==
    ASSUME NEW n \in Node, NEW s \in RaftState
    PROVE  /\ advance_commit(n, s).log = s.log
           /\ advance_commit(n, s).committed = s.committed
           /\ broadcast_append(n, s).log = s.log
           /\ broadcast_append(n, s).committed = s.committed
BY DEF advance_commit, broadcast_append, send_all, send, RaftState

\* A leader's tick sends heartbeats at most.
LEMMA TickKeeps ==
    ASSUME NEW n \in Node, NEW b \in RaftState, NEW t \in Nat, b.role = "Leader"
    PROVE  tick(n, b, t).log = b.log /\ tick(n, b, t).committed = b.committed
<1>1. [b EXCEPT !.heartbeat_elapsed = 0] \in RaftState
  BY DEF RaftState
<1>. QED BY <1>1, QuietLog DEF tick, RaftState

\* propose appends one entry.
LEMMA ProposeKeeps ==
    ASSUME NEW n \in Node, NEW b \in RaftState, NEW c \in Command
    PROVE  OnlyAppended(b.log, propose(n, b, c).log)
<1>. DEFINE es == <<[term |-> b.current_term, command |-> c]>>
            x  == [b EXCEPT !.log = append(@, es)]
<1>1. es \in Seq(LogEntry) /\ b.log \in Log
  BY DEF LogEntry, RaftState
<1>2. propose(n, b, c) = advance_commit(n, broadcast_append(n, x))
  BY DEF propose
<1>. HIDE DEF es
<1>3. x \in RaftState /\ x.log = append(b.log, es)
  BY <1>1, AppendType DEF RaftState
<1>. HIDE DEF x
<1>4. broadcast_append(n, x) \in RaftState
  BY <1>3, BroadcastType
<1>5. propose(n, b, c).log = append(b.log, es)
  BY <1>2, <1>3, <1>4, QuietLog
<1>. QED BY <1>1, <1>5, AppendedByAppend

\* Only AppendEntries and InstallSnapshot rewrite a log or emit anything, and both
\* make their receiver a follower first.
LEMMA StepKeeps ==
    ASSUME NEW n \in Node, NEW b \in RaftState, NEW from \in Node, NEW m \in Message,
           NEW t \in Nat, step(n, b, from, m, t).role = "Leader"
    PROVE  /\ step(n, b, from, m, t).log = b.log
           /\ step(n, b, from, m, t).committed = b.committed
<1>. DEFINE o == observe_term(b, m, t)
            x == step(n, b, from, m, t)
<1>1. o \in RaftState /\ o.log = b.log /\ o.committed = b.committed
  <2>1. o \in RaftState
    BY ObserveTermType
  <2>2. o.log = b.log /\ o.committed = b.committed
    BY DEF observe_term, become_follower, reset_election_timer, RaftState
  <2>. QED BY <2>1, <2>2
<1>. HIDE DEF o
<1>2. CASE m.type = "RequestVote"
  <2>1. x = handle_request_vote(n, o, m, t)
    BY <1>2 DEF step, o
  <2>. QED BY <1>1, <2>1 DEF handle_request_vote, send, reset_election_timer, RaftState
<1>3. CASE m.type = "RequestVoteReply"
  <2>1. x = handle_request_vote_reply(n, o, m)
    BY <1>3 DEF step, o
  <2>. DEFINE v == [o EXCEPT !.votes = @ \cup {m.voter_id}]
              l == [v EXCEPT !.role = "Leader", !.leader_id = n,
                             !.next_index = [p \in Node |-> last_index(v.log) + 1],
                             !.match_index = [p \in Node |-> 0],
                             !.heartbeat_elapsed = 0]
  <2>2. x \in {o, v, become_leader(n, v)}
    BY <2>1 DEF handle_request_vote_reply
  <2>3. m.voter_id \in Node
    BY <1>3 DEF Message, RequestVote, RequestVoteReply, AppendEntries,
                AppendEntriesReply, InstallSnapshot, InstallSnapshotReply
  <2>4. v \in RaftState /\ v.log = b.log /\ v.committed = b.committed
    BY <1>1, <2>3 DEF RaftState
  <2>5. become_leader(n, v) = advance_commit(n, broadcast_append(n, l))
    BY DEF become_leader
  <2>. HIDE DEF v
  <2>6. last_index(v.log) + 1 \in Nat \ {0}
    <3>1. last_index(v.log) \in Nat
      BY <2>4, LogFields DEF RaftState
    <3>. QED BY <3>1
  <2>7. l \in RaftState /\ l.log = b.log /\ l.committed = b.committed
    BY <2>4, <2>6 DEF RaftState, Role
  <2>. HIDE DEF l
  <2>8. broadcast_append(n, l) \in RaftState
    BY <2>7, BroadcastType
  <2>. QED BY <1>1, <2>2, <2>4, <2>5, <2>7, <2>8, QuietLog
<1>4. CASE m.type = "AppendEntries"
  <2>1. x = handle_append_entries(n, o, m, t)
    BY <1>4 DEF step, o
  <2>2. CASE m.term < o.current_term
    BY <1>1, <2>1, <2>2 DEF handle_append_entries, reject_append, send, RaftState
  <2>3. CASE ~(m.term < o.current_term)
    <3>. DEFINE f == become_follower(o, m.term, m.leader_id, t)
    <3>1. f.role = "Follower"
      BY <1>1 DEF become_follower, reset_election_timer, RaftState
    <3>. QED BY <1>1, <2>1, <2>3, <3>1 DEF handle_append_entries, reject_append, accept_append,
                send, become_follower, reset_election_timer, RaftState
  <2>. QED BY <2>2, <2>3
<1>5. CASE m.type = "AppendEntriesReply"
  <2>1. x = handle_append_entries_reply(n, o, from, m)
    BY <1>5 DEF step, o
  <2>. QED BY <1>1, <2>1 DEF handle_append_entries_reply, send_append, send,
                             advance_commit, RaftState
<1>6. CASE m.type = "InstallSnapshot"
  <2>1. x = handle_install_snapshot(n, o, m, t)
    BY <1>6 DEF step, o
  <2>. QED BY <1>1, <2>1 DEF handle_install_snapshot, send, become_follower,
                             reset_election_timer, RaftState
<1>7. CASE m.type = "InstallSnapshotReply"
  <2>1. x = handle_install_snapshot_reply(o, from, m)
    BY <1>7 DEF step, o
  <2>. QED BY <1>1, <2>1 DEF handle_install_snapshot_reply, RaftState
<1>. QED BY <1>2, <1>3, <1>4, <1>5, <1>6, <1>7 DEF Message, RequestVote, RequestVoteReply,
            AppendEntries, AppendEntriesReply, InstallSnapshot, InstallSnapshotReply

\* process_ready compacts the log of its node and touches no other.
LEMMA ProcessReadyKeeps ==
    ASSUME TypeOK, NEW n \in Node, NEW s \in RaftState,
           IsLeader(n) => Kept(nodes[n], s),
           NEW ws, NEW outs, NEW net, NEW ls, process_ready(n, s, ws, outs, net, ls)
    PROVE  \A p \in Node : IsLeader(p) /\ nodes'[p].role = "Leader" =>
                              OnlyAppended(nodes[p].log, nodes'[p].log)
<1>. DEFINE r == apply_committed(s)
<1>1. r \in RaftState /\ nodes' = [nodes EXCEPT ![n] = drain(r)]
  BY ApplyCommittedType DEF process_ready
<1>2. r.role = s.role
  BY DEF apply_committed, maybe_compact, RaftState
<1>3. /\ max(s.last_applied, s.commit_index) \in Nat
      /\ r.log \in {s.log, compact(s.log, max(s.last_applied, s.commit_index))}
  BY DEF apply_committed, maybe_compact, RaftState, max
<1>. HIDE DEF r
<1>4. drain(r).role = r.role /\ drain(r).log = r.log
  BY <1>1 DEF drain, RaftState
<1>5. \A p \in Node : nodes[p] \in RaftState /\ nodes[p].log \in Log
  BY DEF TypeOK, RaftState
<1>6. ASSUME IsLeader(n), r.role = "Leader" PROVE OnlyAppended(nodes[n].log, r.log)
  <2>1. OnlyAppended(nodes[n].log, s.log)
    BY <1>2, <1>6 DEF Kept
  <2>2. s.log \in Log
    BY DEF RaftState
  <2>. QED BY <1>3, <1>5, <2>1, <2>2, CompactKeeps
<1>7. ASSUME NEW p \in Node, p # n PROVE OnlyAppended(nodes[p].log, nodes'[p].log)
  BY <1>1, <1>5, <1>7, AppendedSame DEF TypeOK
<1>8. nodes'[n] = drain(r)
  BY <1>1 DEF TypeOK
<1>. QED BY <1>4, <1>6, <1>7, <1>8

(***************************************************************************)
(* While a node leads a term, no message, late reply, tick, proposal or    *)
(* compaction rewrites an entry of its log: LeaderAppendOnly holds for     *)
(* every cluster size, configuration and bound, with links that reorder.   *)
(***************************************************************************)
THEOREM LeadersAppend == Spec => LeaderAppendOnly
<1>1. TypeOK /\ [Next]_vars => [LeadersOnlyAppend]_vars
  <2>. SUFFICES ASSUME TypeOK, Next PROVE LeadersOnlyAppend
    OBVIOUS
  <2>0. \A p \in Node : nodes[p] \in RaftState /\ nodes[p].log \in Log
    BY DEF TypeOK, RaftState
  <2>1. ASSUME NEW n \in Node, Tick(n) PROVE LeadersOnlyAppend
    <3>1. PICK t \in Timeout :
            LET s == tick(n, nodes[n], t)
            IN process_ready(n, IF s.current_term <= MaxTerm THEN s ELSE nodes[n],
                             waiters[n], outcomes, links, {})
      BY <2>1 DEF Tick
    <3>. DEFINE s == tick(n, nodes[n], t)
                x == IF s.current_term <= MaxTerm THEN s ELSE nodes[n]
    <3>2. t \in Nat
      BY TimeoutType
    <3>3. x \in RaftState
      BY <2>0, <3>2, TickType
    <3>4. IsLeader(n) => Kept(nodes[n], x)
      BY <2>0, <3>2, TickKeeps, AppendedSame DEF IsLeader, Kept
    <3>5. process_ready(n, x, waiters[n], outcomes, links, {})
      BY <3>1
    <3>. HIDE DEF x
    <3>. QED BY <3>3, <3>4, <3>5, ProcessReadyKeeps DEF LeadersOnlyAppend
  <2>2. ASSUME NEW n \in Node, NEW q \in Node, Receive(n, q) PROVE LeadersOnlyAppend
    <3>1. PICK i \in deliverable(links[q][n]), t \in Timeout :
            LET m == links[q][n][i]
            IN process_ready(n, step(n, nodes[n], q, m, t), waiters[n], outcomes,
                             [links EXCEPT ![q][n] = remove(@, i)], lapses_of(n, m))
      BY <2>2 DEF Receive
    <3>. DEFINE m == links[q][n][i]
                s == step(n, nodes[n], q, m, t)
                net == [links EXCEPT ![q][n] = remove(@, i)]
    <3>2. t \in Nat /\ links[q][n] \in Seq(Message) /\ i \in 1..Len(links[q][n])
      BY TimeoutType DEF TypeOK, deliverable
    <3>3. m \in Message
      BY <3>2
    <3>4. process_ready(n, s, waiters[n], outcomes, net, lapses_of(n, m))
      BY <3>1
    <3>. HIDE DEF m, net
    <3>5. s \in RaftState /\ Kept(nodes[n], s)
      BY <2>0, <3>2, <3>3, StepType, StepKeeps, AppendedSame DEF Kept
    <3>. HIDE DEF s
    <3>. QED BY <3>4, <3>5, ProcessReadyKeeps DEF LeadersOnlyAppend
  <2>3. ASSUME NEW n \in Node, NEW c \in Command, Propose(n, c) PROVE LeadersOnlyAppend
    <3>. DEFINE s == propose(n, nodes[n], c)
                ws == waiters[n] \cup {<<last_index(s.log), c>>}
                outs == [outcomes EXCEPT ![c] = "Waiting"]
    <3>1. process_ready(n, s, ws, outs, links, {})
      BY <2>3 DEF Propose
    <3>. HIDE DEF ws, outs
    <3>2. s \in RaftState /\ Kept(nodes[n], s)
      BY <2>0, ProposeType, ProposeKeeps DEF Kept
    <3>. HIDE DEF s
    <3>. QED BY <3>1, <3>2, ProcessReadyKeeps DEF LeadersOnlyAppend
  <2>4. ASSUME NEW n \in Node, NEW c \in Command, Redirect(n, c) PROVE LeadersOnlyAppend
    <3>. DEFINE outs == [outcomes EXCEPT ![c] = "NotLeader"]
    <3>1. process_ready(n, nodes[n], waiters[n], outs, links, {})
      BY <2>4 DEF Redirect
    <3>. HIDE DEF outs
    <3>2. Kept(nodes[n], nodes[n])
      BY <2>0, AppendedSame DEF Kept
    <3>. QED BY <2>0, <3>1, <3>2, ProcessReadyKeeps DEF LeadersOnlyAppend
  <2>. QED BY <2>1, <2>2, <2>3, <2>4 DEF Next
<1>. QED BY <1>1, TypeCorrect, PTL DEF Spec, LeaderAppendOnly

-----------------------------------------------------------------------------
(* Waiters *)

\* A log that appends and compacts keeps what it held.
LEMMA HeldStays ==
    ASSUME NEW a \in Log, NEW b \in Log, OnlyAppended(a, b),
           a.snapshot_index <= b.snapshot_index,
           NEW i \in Nat, NEW c \in Command, i <= last_index(a), HeldBy(a, i, c)
    PROVE  i <= last_index(b) /\ HeldBy(b, i, c)
<1>1. /\ a.snapshot_index \in Nat /\ b.snapshot_index \in Nat
      /\ last_index(a) \in Nat /\ last_index(b) \in Nat /\ last_index(b) >= last_index(a)
  BY LogFields DEF OnlyAppended
<1>2. i <= last_index(b)
  BY <1>1
<1>3. CASE i <= b.snapshot_index
  BY <1>2, <1>3 DEF HeldBy
<1>4. CASE ~(i <= b.snapshot_index)
  <2>1. i > b.snapshot_index /\ i > a.snapshot_index /\ i \in 1..last_index(a)
    BY <1>1, <1>4
  <2>2. present(a, i) /\ get(a, i).command = c
    BY <1>1, <2>1 DEF HeldBy
  <2>3. get(b, i) = get(a, i)
    BY <2>1, <2>2 DEF OnlyAppended
  <2>4. present(b, i)
    BY <1>1, <1>2, <2>1 DEF present
  <2>. QED BY <1>2, <2>2, <2>3, <2>4 DEF HeldBy
<1>. QED BY <1>3, <1>4

\* compact moves the snapshot point forwards only.
LEMMA CompactForward ==
    ASSUME NEW log \in Log, NEW index \in Nat
    PROVE  log.snapshot_index <= compact(log, index).snapshot_index
BY LogFields DEF compact, present

\* What apply_committed emits at an index is what the log has there.
LEMMA NewlyCommittedItem ==
    ASSUME NEW s \in RaftState, NEW k \in 1..Len(newly_committed(s))
    PROVE  /\ newly_committed(s)[k].kind = "Command"
           /\ newly_committed(s)[k].index \in Nat
           /\ newly_committed(s)[k].index > s.log.snapshot_index
           /\ newly_committed(s)[k].command = get(s.log, newly_committed(s)[k].index).command
<1>. DEFINE first == max(s.last_applied, s.log.snapshot_index) + 1
            last  == min(s.commit_index, last_index(s.log))
            item(j) == [kind |-> "Command", index |-> first + j - 1,
                        command |-> get(s.log, first + j - 1).command]
<1>1. s.last_applied \in Nat /\ s.log.snapshot_index \in Nat
  BY LogFields DEF RaftState
<1>2. s.commit_index \in Nat /\ last_index(s.log) \in Nat
  BY LogFields DEF RaftState
<1>3. first \in Nat /\ first > s.log.snapshot_index
  BY <1>1 DEF max
<1>4. last \in Nat
  BY <1>2 DEF min
<1>5. newly_committed(s) = [j \in 1..max(0, last - first + 1) |-> item(j)]
  BY DEF newly_committed
<1>. HIDE DEF first, last
<1>6. max(0, last - first + 1) \in Nat
  BY <1>3, <1>4 DEF max
<1>7. Len(newly_committed(s)) = max(0, last - first + 1)
  BY <1>5, <1>6
<1>8. newly_committed(s)[k] = item(k) /\ k \in Nat /\ k >= 1
  BY <1>5, <1>6, <1>7
<1>. QED BY <1>1, <1>3, <1>8

\* A turn of the core that ends with a leader keeps the log's past and emits nothing.
Steady(b, s) ==
    s.role = "Leader" => /\ OnlyAppended(b.log, s.log)
                         /\ b.log.snapshot_index <= s.log.snapshot_index
                         /\ s.committed = b.committed

\* A log that has not changed keeps its past.
LEMMA SteadySame ==
    ASSUME NEW b \in RaftState, NEW s \in RaftState, s.log = b.log,
           s.role = "Leader" => s.committed = b.committed
    PROVE  Steady(b, s)
<1>1. b.log \in Log
  BY DEF RaftState
<1>2. OnlyAppended(b.log, s.log)
  BY <1>1, AppendedSame
<1>3. b.log.snapshot_index <= s.log.snapshot_index
  BY <1>1, LogFields
<1>. QED BY <1>2, <1>3 DEF Steady

\* A leader's tick is steady.
LEMMA TickSteady ==
    ASSUME NEW n \in Node, NEW b \in RaftState, NEW t \in Nat, b.role = "Leader"
    PROVE  Steady(b, tick(n, b, t))
BY TickKeeps, TickType, SteadySame

\* propose is steady, and puts its command at the new last index.
LEMMA ProposeSteady ==
    ASSUME NEW n \in Node, NEW b \in RaftState, NEW c \in Command
    PROVE  /\ Steady(b, propose(n, b, c))
           /\ HeldBy(propose(n, b, c).log, last_index(propose(n, b, c).log), c)
<1>. DEFINE e  == [term |-> b.current_term, command |-> c]
            x  == [b EXCEPT !.log = append(@, <<e>>)]
            p  == propose(n, b, c)
<1>1. e \in LogEntry /\ b.log \in Log /\ e.command = c
  BY DEF LogEntry, RaftState
<1>2. p = advance_commit(n, broadcast_append(n, x))
  BY DEF propose
<1>. HIDE DEF e
<1>3. <<e>> \in Seq(LogEntry)
  BY <1>1
<1>4. x \in RaftState /\ x.log = append(b.log, <<e>>) /\ x.committed = b.committed
  BY <1>1, <1>3, AppendType DEF RaftState
<1>. HIDE DEF x
<1>5. broadcast_append(n, x) \in RaftState
  BY <1>4, BroadcastType
<1>6. p.log = append(b.log, <<e>>) /\ p.committed = b.committed
  BY <1>2, <1>4, <1>5, QuietLog
<1>7. b.log.entries \in Seq(LogEntry) /\ b.log.snapshot_index \in Nat
  BY <1>1, LogFields
<1>8. p.log.entries = Append(b.log.entries, e) /\ p.log.snapshot_index = b.log.snapshot_index
  <2>1. b.log.entries \o <<e>> = Append(b.log.entries, e)
    BY <1>1, <1>7
  <2>. QED BY <1>1, <1>6, <2>1 DEF append, Log
<1>. HIDE DEF p
<1>9. /\ Len(p.log.entries) = Len(b.log.entries) + 1
      /\ p.log.entries[Len(b.log.entries) + 1] = e
  BY <1>1, <1>7, <1>8, AppendProperties
<1>10. present(p.log, last_index(p.log)) /\ get(p.log, last_index(p.log)) = e
  <2>1. /\ last_index(p.log) = b.log.snapshot_index + (Len(b.log.entries) + 1)
        /\ Len(b.log.entries) \in Nat
    BY <1>7, <1>8, <1>9 DEF last_index
  <2>2. last_index(p.log) - b.log.snapshot_index = Len(b.log.entries) + 1
    BY <1>7, <2>1
  <2>. QED BY <1>7, <1>8, <1>9, <2>1, <2>2 DEF present, get
<1>11. OnlyAppended(b.log, p.log)
  BY ProposeKeeps DEF p
<1>. QED BY <1>1, <1>6, <1>7, <1>8, <1>10, <1>11 DEF Steady, HeldBy, p

\* The log has the commands of the waiters ws, and nothing is emitted yet.
Owes(s, ws) == \A w \in ws : /\ s.committed = <<>>
                             /\ w[1] <= last_index(s.log)
                             /\ HeldBy(s.log, w[1], w[2])

\* process_ready answers as committed only what its log has at the waiter's index,
\* and leaves no waiter with a node that does not lead.
LEMMA ProcessReadyOwes ==
    ASSUME TypeOK, WaitersHeld, NEW n \in Node, NEW s \in RaftState,
           NEW ws \in SUBSET (Nat \X Command),
           s.role = "Leader" => Owes(s, ws),
           waiters[n] \subseteq ws,
           NEW outs, NEW net, NEW ls, process_ready(n, s, ws, outs, net, ls)
    PROVE  WaitersHeld' /\ LeadersAckTruthfully
<1>. DEFINE r    == apply_committed(s)
            done == resolved(ws, r.committed)
            left == (ws \ done) \ failed(r, ws \ done)
<1>1. r \in RaftState /\ s.log \in Log
  BY ApplyCommittedType DEF RaftState
<1>2. /\ nodes' = [nodes EXCEPT ![n] = drain(r)]
      /\ waiters' = [waiters EXCEPT ![n] = left]
      /\ \A c \in Command : (\E w \in done : w[2] = c) => outcomes'[c] = "Committed"
      /\ \A i \in commands(r.committed) :
            <<r.committed[i].index, r.committed[i].command>> \in applied'
  BY DEF process_ready
<1>3. r.role = s.role /\ r.committed = s.committed \o newly_committed(s)
  BY DEF apply_committed, maybe_compact, RaftState
<1>4. /\ max(s.last_applied, s.commit_index) \in Nat
      /\ r.log \in {s.log, compact(s.log, max(s.last_applied, s.commit_index))}
  BY DEF apply_committed, maybe_compact, RaftState, max
<1>5. /\ left = IF r.role = "Leader" THEN ws \ done ELSE {}
      /\ done = {w \in ws : \E i \in commands(r.committed) : r.committed[i].index = w[1]}
  BY DEF failed, resolved
<1>. HIDE DEF r, done, left
<1>6. /\ drain(r).role = r.role /\ drain(r).log = r.log /\ drain(r).committed = <<>>
  BY <1>1 DEF drain, RaftState
<1>7. /\ nodes'[n] = drain(r) /\ waiters'[n] = left
      /\ \A p \in Node \ {n} : nodes'[p] = nodes[p] /\ waiters'[p] = waiters[p]
  BY <1>2 DEF TypeOK
<1>8. ASSUME NEW w \in left
      PROVE  w[1] <= last_index(r.log) /\ HeldBy(r.log, w[1], w[2])
  <2>1. /\ w \in ws /\ w[1] \in Nat /\ w[2] \in Command
        /\ w[1] <= last_index(s.log) /\ HeldBy(s.log, w[1], w[2])
    BY <1>3, <1>5, <1>8 DEF Owes
  <2>. DEFINE x == max(s.last_applied, s.commit_index)
  <2>2. CASE r.log = s.log
    BY <2>1, <2>2
  <2>3. CASE r.log = compact(s.log, x)
    <3>1. compact(s.log, x) \in Log /\ s.log.snapshot_index <= compact(s.log, x).snapshot_index
      BY <1>1, <1>4, CompactType, CompactForward
    <3>2. OnlyAppended(s.log, compact(s.log, x))
      BY <1>1, <1>4, AppendedSame, CompactKeeps
    <3>. QED BY <1>1, <2>1, <2>3, <3>1, <3>2, HeldStays
  <2>. QED BY <1>4, <2>2, <2>3
<1>9. WaitersHeld'
  <2>1. ASSUME NEW p \in Node, p # n
        PROVE  /\ nodes'[p].committed = <<>>
               /\ \A w \in waiters'[p] : /\ nodes'[p].role = "Leader"
                                         /\ w[1] <= last_index(nodes'[p].log)
                                         /\ HeldBy(nodes'[p].log, w[1], w[2])
    BY <1>7, <2>1 DEF WaitersHeld, IsLeader
  <2>2. /\ nodes'[n].committed = <<>>
        /\ \A w \in waiters'[n] : /\ nodes'[n].role = "Leader"
                                  /\ w[1] <= last_index(nodes'[n].log)
                                  /\ HeldBy(nodes'[n].log, w[1], w[2])
    <3>1. ASSUME NEW w \in left PROVE r.role = "Leader"
      BY <1>5, <3>1
    <3>. QED BY <1>6, <1>7, <1>8, <3>1
  <2>. QED BY <2>1, <2>2 DEF WaitersHeld, IsLeader
<1>10. ASSUME NEW w \in done, r.role = "Leader"
       PROVE  w \in applied' /\ outcomes'[w[2]] = "Committed"
  <2>1. /\ w \in ws /\ w[1] \in Nat /\ w[2] \in Command /\ w = <<w[1], w[2]>>
        /\ s.committed = <<>> /\ HeldBy(s.log, w[1], w[2])
    BY <1>3, <1>5, <1>10 DEF Owes
  <2>2. r.committed = newly_committed(s)
    <3>1. newly_committed(s) \in Seq(Committed)
      BY NewlyCommittedType
    <3>. QED BY <1>3, <2>1, <3>1
  <2>3. PICK i \in commands(newly_committed(s)) : newly_committed(s)[i].index = w[1]
    BY <1>5, <2>2
  <2>4. i \in 1..Len(newly_committed(s))
    BY DEF commands
  <2>5. w[1] > s.log.snapshot_index /\ newly_committed(s)[i].command = get(s.log, w[1]).command
    BY <2>3, <2>4, NewlyCommittedItem
  <2>6. get(s.log, w[1]).command = w[2]
    <3>1. s.log.snapshot_index \in Nat
      BY <1>1, LogFields
    <3>. QED BY <2>1, <2>5, <3>1 DEF HeldBy
  <2>7. <<w[1], w[2]>> \in applied'
    BY <1>2, <2>2, <2>3, <2>5, <2>6
  <2>. QED BY <1>2, <2>1, <2>7
<1>11. LeadersAckTruthfully
  <2>1. ASSUME NEW w \in waiters[n] \ waiters'[n], nodes'[n].role = "Leader"
        PROVE  outcomes'[w[2]] = "Committed" /\ w \in applied'
    <3>1. r.role = "Leader" /\ w \in ws /\ w \notin left
      BY <1>6, <1>7, <2>1
    <3>2. w \in done
      BY <1>5, <3>1
    <3>. QED BY <1>10, <3>1, <3>2
  <2>. QED BY <1>7, <2>1 DEF LeadersAckTruthfully
<1>. QED BY <1>9, <1>11

\* What a leader's waiters are owed survives a steady turn of the core.
LEMMA SteadyOwes ==
    ASSUME TypeOK, WaitersHeld, NEW n \in Node, NEW s \in RaftState,
           IsLeader(n) => Steady(nodes[n], s), s.role = "Leader"
    PROVE  Owes(s, waiters[n])
<1>1. nodes[n] \in RaftState /\ nodes[n].log \in Log /\ s.log \in Log
  BY DEF TypeOK, RaftState
<1>2. \A w \in waiters[n] : w[1] \in Nat /\ w[2] \in Command
  BY DEF TypeOK
<1>3. ASSUME NEW w \in waiters[n]
      PROVE  /\ s.committed = <<>>
             /\ w[1] <= last_index(s.log) /\ HeldBy(s.log, w[1], w[2])
  <2>1. /\ IsLeader(n) /\ w[1] <= last_index(nodes[n].log)
        /\ HeldBy(nodes[n].log, w[1], w[2]) /\ nodes[n].committed = <<>>
    BY <1>3 DEF WaitersHeld
  <2>2. /\ OnlyAppended(nodes[n].log, s.log) /\ s.committed = nodes[n].committed
        /\ nodes[n].log.snapshot_index <= s.log.snapshot_index
    BY <2>1 DEF Steady
  <2>. QED BY <1>1, <1>2, <1>3, <2>1, <2>2, HeldStays
<1>. QED BY <1>3 DEF Owes

\* Every turn of a driver keeps its waiters owed and acknowledges truthfully.
LEMMA NextOwes ==
    TypeOK /\ WaitersHeld /\ [Next]_vars => WaitersHeld' /\ [LeadersAckTruthfully]_vars
<1>. SUFFICES ASSUME TypeOK, WaitersHeld, [Next]_vars
              PROVE  WaitersHeld' /\ [LeadersAckTruthfully]_vars
  OBVIOUS
<1>. DEFINE Goal == WaitersHeld' /\ LeadersAckTruthfully
<1>0. \A p \in Node : nodes[p] \in RaftState /\ waiters[p] \in SUBSET (Nat \X Command)
  BY DEF TypeOK
<1>1. ASSUME NEW n \in Node, Tick(n) PROVE Goal
  <2>1. PICK t \in Timeout :
          LET s == tick(n, nodes[n], t)
          IN process_ready(n, IF s.current_term <= MaxTerm THEN s ELSE nodes[n],
                           waiters[n], outcomes, links, {})
    BY <1>1 DEF Tick
  <2>. DEFINE s == tick(n, nodes[n], t)
              x == IF s.current_term <= MaxTerm THEN s ELSE nodes[n]
  <2>2. t \in Nat
    BY TimeoutType
  <2>3. x \in RaftState
    BY <1>0, <2>2, TickType
  <2>4. IsLeader(n) => Steady(nodes[n], x)
    BY <1>0, <2>2, TickSteady, SteadySame DEF IsLeader
  <2>5. process_ready(n, x, waiters[n], outcomes, links, {})
    BY <2>1
  <2>. HIDE DEF x
  <2>6. x.role = "Leader" => Owes(x, waiters[n])
    BY <2>3, <2>4, SteadyOwes
  <2>. QED BY <1>0, <2>3, <2>5, <2>6, ProcessReadyOwes
<1>2. ASSUME NEW n \in Node, NEW q \in Node, Receive(n, q) PROVE Goal
  <2>1. PICK i \in deliverable(links[q][n]), t \in Timeout :
          LET m == links[q][n][i]
          IN process_ready(n, step(n, nodes[n], q, m, t), waiters[n], outcomes,
                           [links EXCEPT ![q][n] = remove(@, i)], lapses_of(n, m))
    BY <1>2 DEF Receive
  <2>. DEFINE m == links[q][n][i]
              s == step(n, nodes[n], q, m, t)
              net == [links EXCEPT ![q][n] = remove(@, i)]
  <2>2. t \in Nat /\ links[q][n] \in Seq(Message) /\ i \in 1..Len(links[q][n])
    BY TimeoutType DEF TypeOK, deliverable
  <2>3. m \in Message
    BY <2>2
  <2>4. process_ready(n, s, waiters[n], outcomes, net, lapses_of(n, m))
    BY <2>1
  <2>. HIDE DEF m, net
  <2>a. s \in RaftState
    BY <1>0, <2>2, <2>3, StepType
  <2>b. s.role = "Leader" => s.log = nodes[n].log /\ s.committed = nodes[n].committed
    BY <1>0, <2>2, <2>3, StepKeeps
  <2>. HIDE DEF s
  <2>5. Steady(nodes[n], s)
    <3>1. CASE s.role = "Leader"
      BY <1>0, <2>a, <2>b, <3>1, SteadySame
    <3>2. CASE s.role # "Leader"
      BY <3>2 DEF Steady
    <3>. QED BY <3>1, <3>2
  <2>6. s.role = "Leader" => Owes(s, waiters[n])
    BY <2>a, <2>5, SteadyOwes
  <2>. QED BY <1>0, <2>4, <2>a, <2>6, ProcessReadyOwes
<1>3. ASSUME NEW n \in Node, NEW c \in Command, Propose(n, c) PROVE Goal
  <2>. DEFINE s == propose(n, nodes[n], c)
              owed == <<last_index(s.log), c>>
              ws == waiters[n] \cup {owed}
              outs == [outcomes EXCEPT ![c] = "Waiting"]
  <2>1. process_ready(n, s, ws, outs, links, {}) /\ IsLeader(n)
    BY <1>3 DEF Propose, IsLeader
  <2>2. s \in RaftState /\ Steady(nodes[n], s) /\ HeldBy(s.log, last_index(s.log), c)
    BY <1>0, ProposeType, ProposeSteady
  <2>. HIDE DEF s
  <2>3. last_index(s.log) \in Nat
    BY <2>2, LogFields DEF RaftState
  <2>4. ws \in SUBSET (Nat \X Command) /\ waiters[n] \subseteq ws
    BY <1>0, <2>3
  <2>5. ASSUME s.role = "Leader" PROVE Owes(s, ws)
    <3>1. Owes(s, waiters[n])
      BY <2>2, <2>5, SteadyOwes
    <3>2. s.committed = <<>>
      BY <2>2, <2>5 DEF Steady, WaitersHeld
    <3>3. owed[1] = last_index(s.log) /\ owed[2] = c /\ last_index(s.log) <= last_index(s.log)
      BY <2>3
    <3>. HIDE DEF owed
    <3>. QED BY <2>2, <3>1, <3>2, <3>3 DEF Owes
  <2>. HIDE DEF ws, outs
  <2>. QED BY <2>1, <2>2, <2>4, <2>5, ProcessReadyOwes
<1>4. ASSUME NEW n \in Node, NEW c \in Command, Redirect(n, c) PROVE Goal
  <2>. DEFINE outs == [outcomes EXCEPT ![c] = "NotLeader"]
  <2>1. process_ready(n, nodes[n], waiters[n], outs, links, {})
    BY <1>4 DEF Redirect
  <2>. HIDE DEF outs
  <2>2. nodes[n].role = "Leader" => Owes(nodes[n], waiters[n])
    BY <1>0, SteadySame, SteadyOwes
  <2>. QED BY <1>0, <2>1, <2>2, ProcessReadyOwes
<1>5. CASE UNCHANGED vars
  <2>1. WaitersHeld'
    BY <1>5 DEF WaitersHeld, IsLeader, vars, driver
  <2>. QED BY <1>5, <2>1
<1>. QED BY <1>1, <1>2, <1>3, <1>4, <1>5 DEF Next

\* A started cluster has no waiters and nothing committed.
LEMMA InitOwes == Init => WaitersHeld
<1>. SUFFICES ASSUME Init, NEW n \in Node PROVE nodes[n].committed = <<>> /\ waiters[n] = {}
  BY DEF WaitersHeld
<1>1. PICK t \in Timeout : nodes[n] = new(t)
  BY DEF Init
<1>2. new(t).committed = <<>>
  BY DEF new
<1>. QED BY <1>1, <1>2 DEF Init

\* Whoever waits waits on a leader whose log has the command where propose put it:
\* WaitersHeld holds for every cluster size, configuration and bound.
THEOREM WaitersKept == Spec => []WaitersHeld
BY InitOwes, NextOwes, TypeCorrect, PTL DEF Spec

(***************************************************************************)
(* resolve never answers Committed for somebody else's command while the   *)
(* node goes on leading: AcksTruthfulWhileLeading holds for every cluster  *)
(* size, configuration and bound, whatever else goes wrong in the cluster. *)
(***************************************************************************)
THEOREM LeadersAck == Spec => AcksTruthfulWhileLeading
BY WaitersKept, NextOwes, TypeCorrect, PTL DEF Spec, AcksTruthfulWhileLeading

=============================================================================
