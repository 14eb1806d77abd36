--------------------------- MODULE ElectionProofs ---------------------------
(***************************************************************************)
(* Elections, for every cluster size: two leaders of one term exist only   *)
(* if some node voted for both, and that node had deferred to a leader in  *)
(* that very term.  The proof shows ElectionInv inductive.                 *)
(***************************************************************************)
EXTENDS ClusterProofs

(***************************************************************************)
(* What the core of n may leave in its outgoing queues at the end of an    *)
(* event, and how an event may take it from state b to state s.            *)
(***************************************************************************)
Authored(n, s, to, m) ==
    /\ m.type \in {"AppendEntries", "InstallSnapshot"} => m.leader_id = n
    /\ m.type = "RequestVote" => m.candidate_id = n
    /\ m.type = "RequestVoteReply" /\ m.vote_granted =>
          m.voter_id = n /\ m.term = s.current_term /\ s.voted_for = to

OutgoingAuthored(n, s) ==
    /\ s.outgoing[n] = <<>>
    /\ \A p \in Node : \A i \in 1..Len(s.outgoing[p]) : Authored(n, s, p, s.outgoing[p][i])

Quiet(s) == s.outgoing = [p \in Node |-> <<>>]

VoteKept(n, b, s) ==
    /\ s.current_term >= b.current_term
    /\ s.current_term = b.current_term =>
          b.voted_for \in {None, s.voted_for} \/ s.leader_id \notin {None, n}

TallyKept(n, s) ==
    s.role # "Follower" =>
        /\ \A v \in s.votes : \/ <<v, s.current_term, n>> \in grants
                              \/ v = n /\ s.voted_for = n
        /\ s.role = "Leader" => Cardinality(s.votes) >= majority

Counted(n, s) ==
    s.role # "Follower" =>
        /\ \A v \in s.votes : <<v, s.current_term, n>> \in grants
        /\ s.role = "Leader" => Cardinality(s.votes) >= majority

SameBallot(x, s) ==
    /\ x.role = s.role /\ x.leader_id = s.leader_id /\ x.current_term = s.current_term
    /\ x.voted_for = s.voted_for /\ x.votes = s.votes

Turn(n, b, s) == OutgoingAuthored(n, s) /\ VoteKept(n, b, s) /\ TallyKept(n, s)

\* FramesTruthful of the links net, which a turn has taken a frame from.
Truthful(net) ==
    \A p, q \in Node :
        /\ p = q => net[p][q] = <<>>
        /\ \A i \in 1..Len(net[p][q]) : Attributed(grants, p, q, net[p][q][i])

-----------------------------------------------------------------------------

\* Any two majorities of the cluster share a node (RaftNode::majority).
LEMMA QuorumsIntersect ==
    ASSUME NEW Q \in SUBSET Node, NEW R \in SUBSET Node,
           Cardinality(Q) >= majority, Cardinality(R) >= majority
    PROVE  Q \cap R # {}
<1>1. IsFiniteSet(Node) /\ IsFiniteSet(Q) /\ IsFiniteSet(R)
  BY RaftAssumption, FS_Subset
<1>2. /\ Cardinality(Node) \in Nat /\ Cardinality(Q) \in Nat /\ Cardinality(R) \in Nat
  BY <1>1, FS_CardinalityType
<1>3. /\ IsFiniteSet(Q \cup R)
      /\ Cardinality(Q \cup R) = Cardinality(Q) + Cardinality(R) - Cardinality(Q \cap R)
  BY <1>1, FS_Union
<1>4. Cardinality(Q \cup R) <= Cardinality(Node)
  <2>1. Q \cup R \in SUBSET Node
    OBVIOUS
  <2>. QED BY <1>1, <2>1, FS_Subset
<1>. SUFFICES ASSUME Q \cap R = {} PROVE FALSE
  OBVIOUS
<1>5. Cardinality(Q \cap R) = 0
  BY FS_EmptySet
<1>. QED BY <1>2, <1>3, <1>4, <1>5 DEF majority

\* A single message sent to a peer from an empty outgoing queue.
LEMMA SendAuthored ==
    ASSUME NEW n \in Node, NEW s \in RaftState, Quiet(s), NEW to \in Node, to # n,
           NEW m \in Message, Authored(n, s, to, m)
    PROVE  /\ OutgoingAuthored(n, send(s, to, m))
           /\ SameBallot(send(s, to, m), s)
<1>. DEFINE x == send(s, to, m)
<1>1. SameBallot(x, s)
  BY DEF send, RaftState, SameBallot
<1>2. x.outgoing = [p \in Node |-> IF p = to THEN <<m>> ELSE <<>>]
  <2>1. Append(<<>>, m) = <<m>>
    OBVIOUS
  <2>2. x.outgoing = [s.outgoing EXCEPT ![to] = Append(@, m)]
    BY DEF send, RaftState
  <2>. QED BY <2>1, <2>2 DEF Quiet
<1>. HIDE DEF x
<1>3. ASSUME NEW p \in Node, NEW i \in 1..Len(x.outgoing[p])
      PROVE  Authored(n, x, p, x.outgoing[p][i])
  <2>1. p = to /\ x.outgoing[p][i] = m
    BY <1>2
  <2>. QED BY <1>1, <2>1 DEF Authored, SameBallot
<1>4. OutgoingAuthored(n, x)
  BY <1>2, <1>3 DEF OutgoingAuthored
<1>. QED BY <1>1, <1>4 DEF x

\* One message to every peer from an empty outgoing queue.
LEMMA SendAllAuthored ==
    ASSUME NEW n \in Node, NEW s \in RaftState, Quiet(s), NEW msgs \in [Node -> Message],
           \A p \in Node : Authored(n, s, p, msgs[p])
    PROVE  /\ OutgoingAuthored(n, send_all(n, s, msgs))
           /\ SameBallot(send_all(n, s, msgs), s)
<1>. DEFINE x == send_all(n, s, msgs)
<1>1. SameBallot(x, s)
  BY DEF send_all, RaftState, SameBallot
<1>2. x.outgoing = [p \in Node |-> IF p = n THEN <<>> ELSE <<msgs[p]>>]
  <2>1. \A p \in Node : s.outgoing[p] = <<>> /\ Append(<<>>, msgs[p]) = <<msgs[p]>>
    BY DEF Quiet
  <2>2. x.outgoing = [p \in Node |-> IF p = n THEN s.outgoing[p]
                                     ELSE Append(s.outgoing[p], msgs[p])]
    BY DEF send_all, RaftState
  <2>. QED BY <2>1, <2>2
<1>. HIDE DEF x
<1>3. ASSUME NEW p \in Node, NEW i \in 1..Len(x.outgoing[p])
      PROVE  Authored(n, x, p, x.outgoing[p][i])
  <2>1. p # n /\ x.outgoing[p][i] = msgs[p]
    BY <1>2
  <2>. QED BY <1>1, <2>1 DEF Authored, SameBallot
<1>4. OutgoingAuthored(n, x)
  BY <1>2, <1>3 DEF OutgoingAuthored
<1>. QED BY <1>1, <1>4 DEF x

\* Replication messages carry the sender's id.
LEMMA AppendForAuthored ==
    ASSUME NEW n \in Node, NEW s \in RaftState, NEW p \in Node
    PROVE  Authored(n, s, p, append_for(n, s, p))
BY DEF append_for, Authored

\* An event that sends nothing has nothing to account for.
LEMMA QuietAuthored ==
    ASSUME NEW n \in Node, NEW s, Quiet(s)
    PROVE  OutgoingAuthored(n, s)
BY DEF Quiet, OutgoingAuthored

\* advance_commit moves the commit index and nothing else.
LEMMA AdvanceCommitKeeps ==
    ASSUME NEW n \in Node, NEW s \in RaftState
    PROVE  /\ SameBallot(advance_commit(n, s), s)
           /\ advance_commit(n, s).outgoing = s.outgoing
BY DEF advance_commit, RaftState, SameBallot

\* Applying and compacting change neither the ballot nor the outgoing messages.
LEMMA ApplyCommittedKeeps ==
    ASSUME NEW s \in RaftState
    PROVE  /\ SameBallot(apply_committed(s), s)
           /\ apply_committed(s).outgoing = s.outgoing
BY DEF apply_committed, maybe_compact, RaftState, SameBallot

\* What a message queue says does not depend on more than the ballot.
LEMMA AuthoredSame ==
    ASSUME NEW n \in Node, NEW s, NEW x, SameBallot(x, s), x.outgoing = s.outgoing,
           OutgoingAuthored(n, s)
    PROVE  OutgoingAuthored(n, x)
BY DEF OutgoingAuthored, Authored, SameBallot

\* A broadcast accounts for itself and leaves the ballot alone.
LEMMA BroadcastAuthored ==
    ASSUME NEW n \in Node, NEW s \in RaftState, Quiet(s)
    PROVE  /\ OutgoingAuthored(n, broadcast_append(n, s))
           /\ SameBallot(broadcast_append(n, s), s)
<1>. DEFINE msgs == [p \in Node |-> append_for(n, s, p)]
<1>1. msgs \in [Node -> Message]
  BY AppendForType
<1>2. \A p \in Node : Authored(n, s, p, msgs[p])
  BY AppendForAuthored
<1>. HIDE DEF msgs
<1>3. OutgoingAuthored(n, send_all(n, s, msgs)) /\ SameBallot(send_all(n, s, msgs), s)
  BY <1>1, <1>2, SendAllAuthored
<1>. QED BY <1>3 DEF broadcast_append, msgs

\* A broadcast followed by advance_commit, as propose and become_leader do.
LEMMA BroadcastAdvanceAuthored ==
    ASSUME NEW n \in Node, NEW s \in RaftState, Quiet(s)
    PROVE  /\ OutgoingAuthored(n, advance_commit(n, broadcast_append(n, s)))
           /\ SameBallot(advance_commit(n, broadcast_append(n, s)), s)
<1>. DEFINE b == broadcast_append(n, s)
            x == advance_commit(n, b)
<1>1. b \in RaftState
  BY BroadcastType
<1>2. OutgoingAuthored(n, b) /\ SameBallot(b, s)
  BY BroadcastAuthored
<1>. HIDE DEF b
<1>3. SameBallot(x, b) /\ x.outgoing = b.outgoing
  BY <1>1, AdvanceCommitKeeps
<1>. HIDE DEF x
<1>4. OutgoingAuthored(n, x)
  BY <1>2, <1>3, AuthoredSame
<1>5. SameBallot(x, s)
  BY <1>2, <1>3 DEF SameBallot
<1>. QED BY <1>4, <1>5 DEF x, b

\* A node that becomes leader keeps its term, vote and tally.
LEMMA BecomeLeaderTurn ==
    ASSUME NEW n \in Node, NEW s \in RaftState, Quiet(s)
    PROVE  LET x == become_leader(n, s)
           IN /\ OutgoingAuthored(n, x)
              /\ x.role = "Leader" /\ x.leader_id = n /\ x.current_term = s.current_term
              /\ x.voted_for = s.voted_for /\ x.votes = s.votes
<1>. DEFINE l == [s EXCEPT !.role = "Leader", !.leader_id = n,
                           !.next_index = [p \in Node |-> last_index(s.log) + 1],
                           !.match_index = [p \in Node |-> 0],
                           !.heartbeat_elapsed = 0]
            x == advance_commit(n, broadcast_append(n, l))
<1>1. last_index(s.log) \in Nat
  BY LogFields DEF RaftState
<1>2. last_index(s.log) + 1 \in Nat \ {0}
  BY <1>1
<1>3. l \in RaftState
  BY <1>2 DEF RaftState, Role
<1>4. /\ Quiet(l) /\ l.role = "Leader" /\ l.leader_id = n
      /\ l.current_term = s.current_term /\ l.voted_for = s.voted_for /\ l.votes = s.votes
  BY DEF RaftState, Quiet
<1>5. become_leader(n, s) = x
  BY DEF become_leader
<1>. HIDE DEF l
<1>6. OutgoingAuthored(n, x) /\ SameBallot(x, l)
  BY <1>3, <1>4, BroadcastAdvanceAuthored
<1>. HIDE DEF x
<1>. QED BY <1>4, <1>5, <1>6 DEF SameBallot

\* Starting a candidacy: a new term, a vote for itself, a tally of that vote.
LEMMA BecomeCandidateTurn ==
    ASSUME NEW n \in Node, NEW b \in RaftState, Quiet(b), NEW timeout \in Nat
    PROVE  Turn(n, b, become_candidate(n, b, timeout))
<1>. DEFINE c == reset_election_timer([b EXCEPT !.role = "Candidate",
                                                !.current_term = @ + 1,
                                                !.voted_for = n, !.leader_id = None,
                                                !.votes = {n}],
                                      timeout)
            request == [type |-> "RequestVote", term |-> c.current_term,
                        candidate_id |-> n, last_log_index |-> last_index(c.log),
                        last_log_term |-> last_term(c.log)]
            msgs == [p \in Node |-> request]
            x == become_candidate(n, b, timeout)
<1>0. b.current_term \in Nat
  BY DEF RaftState
<1>1. c \in RaftState
  <2>1. b.current_term + 1 \in Nat /\ {n} \in SUBSET Node /\ "Candidate" \in Role
    BY <1>0 DEF Role
  <2>. QED BY <2>1 DEF reset_election_timer, RaftState
<1>2. /\ Quiet(c) /\ c.role = "Candidate" /\ c.current_term = b.current_term + 1
      /\ c.voted_for = n /\ c.votes = {n}
  BY DEF RaftState, Quiet, reset_election_timer
<1>3. x = IF Cardinality(c.votes) >= majority THEN become_leader(n, c)
          ELSE send_all(n, c, msgs)
  BY DEF become_candidate
<1>. HIDE DEF c
<1>4. last_index(c.log) \in Nat /\ last_term(c.log) \in Nat /\ c.current_term \in Nat
  BY <1>1, LogFields, LastTermType DEF RaftState
<1>5. request \in Message
  BY <1>4 DEF Message, RequestVote
<1>6. \A p \in Node : Authored(n, c, p, request)
  BY DEF Authored
<1>. HIDE DEF request, x
<1>7. CASE Cardinality(c.votes) >= majority
  <2>1. x = become_leader(n, c)
    BY <1>3, <1>7
  <2>2. /\ OutgoingAuthored(n, x) /\ x.role = "Leader"
        /\ x.current_term = c.current_term /\ x.voted_for = c.voted_for /\ x.votes = c.votes
    BY <1>1, <1>2, <2>1, BecomeLeaderTurn
  <2>. QED BY <1>0, <1>2, <1>7, <2>2 DEF Turn, VoteKept, TallyKept, x
<1>8. CASE ~(Cardinality(c.votes) >= majority)
  <2>1. x = send_all(n, c, msgs)
    BY <1>3, <1>8
  <2>2. msgs \in [Node -> Message] /\ \A p \in Node : Authored(n, c, p, msgs[p])
    BY <1>5, <1>6
  <2>. HIDE DEF msgs
  <2>3. OutgoingAuthored(n, x) /\ SameBallot(x, c)
    BY <1>1, <1>2, <2>1, <2>2, SendAllAuthored
  <2>. QED BY <1>0, <1>2, <2>3 DEF Turn, VoteKept, TallyKept, SameBallot, x
<1>. QED BY <1>7, <1>8

\* An event that leaves the ballot alone only has its messages to account for.
LEMMA SameTurn ==
    ASSUME NEW n \in Node, NEW b \in RaftState, NEW x, Counted(n, b), SameBallot(x, b),
           OutgoingAuthored(n, x)
    PROVE  Turn(n, b, x)
<1>1. b.current_term \in Nat
  BY DEF RaftState
<1>. QED BY <1>1 DEF Turn, VoteKept, TallyKept, SameBallot, Counted

\* tick: heartbeats keep the ballot, an expired election timer starts a candidacy.
LEMMA TickTurn ==
    ASSUME NEW n \in Node, NEW b \in RaftState, Quiet(b), Counted(n, b), NEW timeout \in Nat
    PROVE  Turn(n, b, tick(n, b, timeout))
<1>1. CASE b.role = "Leader" /\ b.heartbeat_elapsed + 1 >= HeartbeatTicks
  <2>. DEFINE h == [b EXCEPT !.heartbeat_elapsed = 0]
              x == broadcast_append(n, h)
  <2>1. h \in RaftState /\ Quiet(h) /\ SameBallot(h, b)
    BY DEF RaftState, Quiet, SameBallot
  <2>2. tick(n, b, timeout) = x
    BY <1>1 DEF tick
  <2>. HIDE DEF h
  <2>3. OutgoingAuthored(n, x) /\ SameBallot(x, h)
    BY <2>1, BroadcastAuthored
  <2>. HIDE DEF x
  <2>4. SameBallot(x, b)
    BY <2>1, <2>3 DEF SameBallot
  <2>. QED BY <2>2, <2>3, <2>4, SameTurn
<1>2. CASE b.role = "Leader" /\ ~(b.heartbeat_elapsed + 1 >= HeartbeatTicks)
  <2>. DEFINE x == [b EXCEPT !.heartbeat_elapsed = @ + 1]
  <2>1. Quiet(x) /\ SameBallot(x, b)
    BY DEF RaftState, Quiet, SameBallot
  <2>2. tick(n, b, timeout) = x
    BY <1>2 DEF tick
  <2>. HIDE DEF x
  <2>. QED BY <2>1, <2>2, QuietAuthored, SameTurn
<1>3. CASE b.role # "Leader" /\ b.election_elapsed + 1 >= b.election_timeout
  BY <1>3, BecomeCandidateTurn DEF tick
<1>4. CASE b.role # "Leader" /\ ~(b.election_elapsed + 1 >= b.election_timeout)
  <2>. DEFINE x == [b EXCEPT !.election_elapsed = @ + 1]
  <2>1. Quiet(x) /\ SameBallot(x, b)
    BY DEF RaftState, Quiet, SameBallot
  <2>2. tick(n, b, timeout) = x
    BY <1>4 DEF tick
  <2>. HIDE DEF x
  <2>. QED BY <2>1, <2>2, QuietAuthored, SameTurn
<1>. QED BY <1>1, <1>2, <1>3, <1>4

\* propose keeps the ballot.
LEMMA ProposeTurn ==
    ASSUME NEW n \in Node, NEW b \in RaftState, Quiet(b), Counted(n, b), NEW c \in Command
    PROVE  Turn(n, b, propose(n, b, c))
<1>. DEFINE entry == [term |-> b.current_term, command |-> c]
            a == [b EXCEPT !.log = append(@, <<entry>>)]
            x == advance_commit(n, broadcast_append(n, a))
<1>1. entry \in LogEntry
  BY DEF RaftState, LogEntry
<1>2. append(b.log, <<entry>>) \in Log
  <2>1. <<entry>> \in Seq(LogEntry)
    BY <1>1
  <2>. QED BY <2>1, AppendType DEF RaftState
<1>. HIDE DEF entry
<1>3. a \in RaftState /\ Quiet(a) /\ SameBallot(a, b)
  BY <1>2 DEF RaftState, Quiet, SameBallot
<1>4. propose(n, b, c) = x
  BY DEF propose, entry
<1>. HIDE DEF a
<1>5. OutgoingAuthored(n, x) /\ SameBallot(x, a)
  BY <1>3, BroadcastAdvanceAuthored
<1>. HIDE DEF x
<1>6. SameBallot(x, b)
  BY <1>3, <1>5 DEF SameBallot
<1>. QED BY <1>4, <1>5, <1>6, SameTurn

\* handle_request_vote: a vote is given once, unless the node had none to remember.
LEMMA RequestVoteTurn ==
    ASSUME NEW n \in Node, NEW o \in RaftState, Quiet(o), Counted(n, o),
           NEW m \in RequestVote, m.candidate_id # n, NEW timeout \in Nat
    PROVE  Turn(n, o, handle_request_vote(n, o, m, timeout))
<1>. DEFINE v == IF can_grant(o, m)
                 THEN reset_election_timer([o EXCEPT !.voted_for = m.candidate_id], timeout)
                 ELSE o
            reply == [type |-> "RequestVoteReply", term |-> o.current_term, voter_id |-> n,
                      vote_granted |-> can_grant(o, m)]
            x == send(v, m.candidate_id, reply)
<1>1. m.candidate_id \in Node /\ can_grant(o, m) \in BOOLEAN /\ o.current_term \in Nat
  BY DEF RequestVote, can_grant, RaftState
<1>2. v \in RaftState
  BY <1>1 DEF reset_election_timer, RaftState
<1>3. /\ Quiet(v) /\ v.role = o.role /\ v.leader_id = o.leader_id
      /\ v.current_term = o.current_term /\ v.votes = o.votes
  BY DEF reset_election_timer, RaftState, Quiet
<1>4. IF can_grant(o, m) THEN v.voted_for = m.candidate_id ELSE v.voted_for = o.voted_for
  BY DEF reset_election_timer, RaftState
<1>5. can_grant(o, m) => o.voted_for \in {None, m.candidate_id}
  BY DEF can_grant
<1>6. handle_request_vote(n, o, m, timeout) = x
  BY DEF handle_request_vote
<1>7. reply \in Message
  BY <1>1 DEF Message, RequestVoteReply
<1>. HIDE DEF v
<1>8. Authored(n, v, m.candidate_id, reply)
  BY <1>3, <1>4 DEF Authored
<1>. HIDE DEF reply
<1>9. OutgoingAuthored(n, x) /\ SameBallot(x, v)
  BY <1>1, <1>2, <1>3, <1>7, <1>8, SendAuthored
<1>. HIDE DEF x
<1>10. VoteKept(n, o, x)
  BY <1>1, <1>3, <1>4, <1>5, <1>9 DEF VoteKept, SameBallot
<1>11. TallyKept(n, x)
  BY <1>3, <1>9 DEF TallyKept, SameBallot, Counted
<1>. QED BY <1>6, <1>9, <1>10, <1>11 DEF Turn

\* handle_request_vote_reply counts a vote that was cast.
LEMMA RequestVoteReplyTurn ==
    ASSUME NEW n \in Node, NEW o \in RaftState, Quiet(o), Counted(n, o),
           NEW m \in RequestVoteReply,
           m.vote_granted => <<m.voter_id, m.term, n>> \in grants
    PROVE  Turn(n, o, handle_request_vote_reply(n, o, m))
<1>0. o.current_term \in Nat
  BY DEF RaftState
<1>1. CASE o.role # "Candidate" \/ m.term # o.current_term \/ ~m.vote_granted
  <2>1. handle_request_vote_reply(n, o, m) = o
    BY <1>1 DEF handle_request_vote_reply
  <2>2. SameBallot(o, o)
    BY DEF SameBallot
  <2>. QED BY <2>1, <2>2, QuietAuthored, SameTurn
<1>2. CASE ~(o.role # "Candidate" \/ m.term # o.current_term \/ ~m.vote_granted)
  <2>. DEFINE v == [o EXCEPT !.votes = @ \cup {m.voter_id}]
              x == handle_request_vote_reply(n, o, m)
  <2>1. v \in RaftState
    BY DEF RaftState, RequestVoteReply
  <2>2. /\ Quiet(v) /\ v.role = "Candidate" /\ v.current_term = o.current_term
        /\ v.voted_for = o.voted_for /\ v.votes = o.votes \cup {m.voter_id}
    BY <1>2 DEF RaftState, Quiet
  <2>3. \A w \in v.votes : <<w, v.current_term, n>> \in grants
    BY <1>2, <2>2 DEF Counted
  <2>4. x = IF Cardinality(v.votes) >= majority THEN become_leader(n, v) ELSE v
    BY <1>2 DEF handle_request_vote_reply
  <2>. HIDE DEF v, x
  <2>5. CASE Cardinality(v.votes) >= majority
    <3>1. x = become_leader(n, v)
      BY <2>4, <2>5
    <3>2. /\ OutgoingAuthored(n, x) /\ x.role = "Leader" /\ x.current_term = v.current_term
          /\ x.voted_for = v.voted_for /\ x.votes = v.votes
      BY <2>1, <2>2, <3>1, BecomeLeaderTurn
    <3>. QED BY <1>0, <2>2, <2>3, <2>5, <3>2 DEF Turn, VoteKept, TallyKept, x
  <2>6. CASE ~(Cardinality(v.votes) >= majority)
    <3>1. x = v
      BY <2>4, <2>6
    <3>. QED BY <1>0, <2>2, <2>3, <3>1, QuietAuthored DEF Turn, VoteKept, TallyKept, x
  <2>. QED BY <2>5, <2>6
<1>. QED BY <1>1, <1>2

\* Any reply to a leader leaves the ballot alone.
LEMMA ReplyTurn ==
    ASSUME NEW n \in Node, NEW s \in RaftState, Quiet(s), NEW to \in Node, to # n,
           NEW success \in BOOLEAN, NEW match \in Nat, NEW conflict \in Nat
    PROVE  LET x == send(s, to, append_reply(n, s, success, match, conflict))
           IN OutgoingAuthored(n, x) /\ SameBallot(x, s)
<1>1. append_reply(n, s, success, match, conflict) \in Message
  BY AppendReplyType
<1>2. Authored(n, s, to, append_reply(n, s, success, match, conflict))
  BY DEF Authored, append_reply
<1>. QED BY <1>1, <1>2, SendAuthored

\* Deferring to a leader of the node's term may forget the vote of that term.
LEMMA FollowTurn ==
    ASSUME NEW n \in Node, NEW o \in RaftState, NEW leader \in Node, leader # n,
           NEW timeout \in Nat, NEW term \in Nat, term >= o.current_term,
           NEW x, OutgoingAuthored(n, x),
           SameBallot(x, become_follower(o, term, leader, timeout))
    PROVE  Turn(n, o, x)
<1>1. o.current_term \in Nat /\ leader # None
  BY RaftAssumption DEF RaftState
<1>2. x.role = "Follower" /\ x.leader_id = leader /\ x.current_term = term
  BY DEF SameBallot, become_follower, reset_election_timer, RaftState
<1>. QED BY <1>1, <1>2 DEF Turn, VoteKept, TallyKept

\* handle_append_entries.
LEMMA AppendEntriesTurn ==
    ASSUME NEW n \in Node, NEW o \in RaftState, Quiet(o), Counted(n, o),
           NEW m \in AppendEntries, m.leader_id # n, NEW timeout \in Nat
    PROVE  Turn(n, o, handle_append_entries(n, o, m, timeout))
<1>. DEFINE f == become_follower(o, m.term, m.leader_id, timeout)
            x == handle_append_entries(n, o, m, timeout)
<1>1. /\ m.term \in Nat /\ m.leader_id \in Node /\ m.prev_log_index \in Nat
      /\ m.leader_commit \in Nat /\ o.current_term \in Nat
  BY DEF AppendEntries, RaftState
<1>2. f \in RaftState
  BY <1>1, BecomeFollowerType
<1>3. Quiet(f)
  BY DEF Quiet, become_follower, reset_election_timer, RaftState
<1>4. CASE m.term < o.current_term
  <2>1. x = send(o, m.leader_id, append_reply(n, o, FALSE, 0, 0))
    BY <1>4 DEF handle_append_entries, reject_append
  <2>2. OutgoingAuthored(n, x) /\ SameBallot(x, o)
    BY <1>1, <2>1, ReplyTurn
  <2>. HIDE DEF x
  <2>. QED BY <2>2, SameTurn DEF x
<1>5. CASE ~(m.term < o.current_term) /\ ~matches(f.log, m.prev_log_index, m.prev_log_term)
  <2>1. x = send(f, m.leader_id,
                 append_reply(n, f, FALSE, 0, conflict_hint(f, m.prev_log_index)))
    BY <1>5 DEF handle_append_entries, reject_append
  <2>. HIDE DEF f
  <2>2. f.log \in Log
    BY <1>2 DEF RaftState
  <2>3. last_index(f.log) \in Nat /\ first_index(f.log) \in Nat
    BY <2>2, LogFields DEF first_index
  <2>4. conflict_hint(f, m.prev_log_index) \in Nat
    BY <1>1, <2>3 DEF conflict_hint, max
  <2>5. OutgoingAuthored(n, x) /\ SameBallot(x, f)
    BY <1>1, <1>2, <1>3, <2>1, <2>4, ReplyTurn
  <2>. HIDE DEF x
  <2>. QED BY <1>1, <1>5, <2>5, FollowTurn DEF f, x
<1>6. CASE ~(m.term < o.current_term) /\ matches(f.log, m.prev_log_index, m.prev_log_term)
  <2>. DEFINE log == splice(f.log, m.prev_log_index, m.entries)
              commit == IF m.leader_commit > f.commit_index
                        THEN min(m.leader_commit, last_index(log)) ELSE f.commit_index
              a   == [f EXCEPT !.log = log, !.commit_index = commit]
  <2>1. x = send(a, m.leader_id, append_reply(n, a, TRUE, last_index(log), 0))
    BY <1>6 DEF handle_append_entries, accept_append
  <2>. HIDE DEF f
  <2>2. log \in Log
    BY <1>2, SpliceType DEF RaftState, AppendEntries
  <2>3. last_index(log) \in Nat
    BY <2>2, LogFields
  <2>. HIDE DEF log
  <2>4. commit \in Nat
    BY <1>1, <1>2, <2>3 DEF RaftState, min
  <2>. HIDE DEF commit
  <2>5. a \in RaftState /\ Quiet(a) /\ SameBallot(a, f)
    BY <1>2, <1>3, <2>2, <2>4 DEF RaftState, Quiet, SameBallot
  <2>. HIDE DEF a
  <2>6. OutgoingAuthored(n, x) /\ SameBallot(x, a)
    BY <1>1, <2>1, <2>3, <2>5, ReplyTurn
  <2>. HIDE DEF x
  <2>7. SameBallot(x, f)
    BY <2>5, <2>6 DEF SameBallot
  <2>. QED BY <1>1, <1>6, <2>6, <2>7, FollowTurn DEF f, x
<1>. QED BY <1>4, <1>5, <1>6

\* handle_append_entries_reply keeps the ballot.
LEMMA AppendEntriesReplyTurn ==
    ASSUME NEW n \in Node, NEW o \in RaftState, Quiet(o), Counted(n, o),
           NEW from \in Node, from # n, NEW m \in AppendEntriesReply
    PROVE  Turn(n, o, handle_append_entries_reply(n, o, from, m))
<1>. DEFINE x == handle_append_entries_reply(n, o, from, m)
            a == [o EXCEPT !.match_index[from] = m.match_index,
                           !.next_index[from] = m.match_index + 1]
            b == [o EXCEPT !.next_index[from] = max(m.conflict_index, 1)]
<1>1. CASE o.role # "Leader" \/ m.term # o.current_term
  <2>1. x = o
    BY <1>1 DEF handle_append_entries_reply
  <2>2. SameBallot(o, o)
    BY DEF SameBallot
  <2>. QED BY <2>1, <2>2, QuietAuthored, SameTurn
<1>2. CASE ~(o.role # "Leader" \/ m.term # o.current_term) /\ m.success
  <2>1. m.match_index \in Nat /\ m.match_index + 1 \in Nat \ {0}
    BY DEF AppendEntriesReply
  <2>2. a \in RaftState
    BY <2>1, ProgressType
  <2>3. Quiet(a) /\ SameBallot(a, o)
    BY DEF RaftState, Quiet, SameBallot
  <2>4. x = advance_commit(n, a)
    BY <1>2 DEF handle_append_entries_reply
  <2>. HIDE DEF a, x
  <2>5. SameBallot(x, a) /\ x.outgoing = a.outgoing
    BY <2>2, <2>4, AdvanceCommitKeeps
  <2>6. OutgoingAuthored(n, x)
    BY <2>3, <2>5, QuietAuthored DEF Quiet
  <2>7. SameBallot(x, o)
    BY <2>3, <2>5 DEF SameBallot
  <2>. QED BY <2>6, <2>7, SameTurn DEF x
<1>3. CASE ~(o.role # "Leader" \/ m.term # o.current_term) /\ ~m.success
  <2>1. max(m.conflict_index, 1) \in Nat \ {0}
    BY DEF AppendEntriesReply, max
  <2>2. b \in RaftState
    BY <2>1, ProgressType
  <2>3. Quiet(b) /\ SameBallot(b, o)
    BY DEF RaftState, Quiet, SameBallot
  <2>4. x = send(b, from, append_for(n, b, from))
    BY <1>3 DEF handle_append_entries_reply, send_append
  <2>. HIDE DEF b, x
  <2>5. OutgoingAuthored(n, x) /\ SameBallot(x, b)
    BY <2>2, <2>3, <2>4, AppendForType, AppendForAuthored, SendAuthored
  <2>7. SameBallot(x, o)
    BY <2>3, <2>5 DEF SameBallot
  <2>. QED BY <2>5, <2>7, SameTurn DEF x
<1>. QED BY <1>1, <1>2, <1>3

\* handle_install_snapshot.
LEMMA InstallSnapshotTurn ==
    ASSUME NEW n \in Node, NEW o \in RaftState, Quiet(o), Counted(n, o),
           NEW m \in InstallSnapshot, m.leader_id # n, NEW timeout \in Nat
    PROVE  Turn(n, o, handle_install_snapshot(n, o, m, timeout))
<1>. DEFINE x == handle_install_snapshot(n, o, m, timeout)
            f == become_follower(o, m.term, m.leader_id, timeout)
            item == [kind |-> "Snapshot", data |-> m.data]
            log == install_snapshot(f.log, m.last_included_index, m.last_included_term)
            c == Append(f.committed, item)
            i == [f EXCEPT !.log = log, !.commit_index = m.last_included_index,
                           !.last_applied = m.last_included_index, !.committed = c]
            reply == [type |-> "InstallSnapshotReply", term |-> i.current_term,
                      follower_id |-> n]
<1>1. /\ m.term \in Nat /\ m.leader_id \in Node /\ m.data \in SUBSET KeyValue
      /\ m.last_included_index \in Nat /\ m.last_included_term \in Nat
      /\ o.current_term \in Nat
  BY DEF InstallSnapshot, RaftState
<1>2. CASE m.term < o.current_term
  <2>1. x = o
    BY <1>2 DEF handle_install_snapshot
  <2>2. SameBallot(o, o)
    BY DEF SameBallot
  <2>. QED BY <2>1, <2>2, QuietAuthored, SameTurn
<1>3. CASE ~(m.term < o.current_term)
  <2>1. x = send(i, m.leader_id, reply)
    BY <1>3 DEF handle_install_snapshot
  <2>2. f \in RaftState
    BY <1>1, BecomeFollowerType
  <2>3. Quiet(f)
    BY DEF Quiet, become_follower, reset_election_timer, RaftState
  <2>. HIDE DEF f, x
  <2>4. item \in Committed
    BY <1>1 DEF Committed
  <2>. HIDE DEF item
  <2>5. c \in Seq(Committed)
    BY <2>2, <2>4, AppendProperties DEF RaftState
  <2>6. log \in Log
    BY <1>1 DEF install_snapshot, Log
  <2>. HIDE DEF c, log
  <2>7. i \in RaftState /\ Quiet(i) /\ SameBallot(i, f)
    BY <1>1, <2>2, <2>3, <2>5, <2>6 DEF RaftState, Quiet, SameBallot
  <2>. HIDE DEF i
  <2>8. reply \in Message
    BY <2>7 DEF RaftState, Message, InstallSnapshotReply
  <2>9. Authored(n, i, m.leader_id, reply)
    BY DEF Authored
  <2>. HIDE DEF reply
  <2>10. OutgoingAuthored(n, x) /\ SameBallot(x, i)
    BY <1>1, <2>1, <2>7, <2>8, <2>9, SendAuthored
  <2>11. SameBallot(x, f)
    BY <2>7, <2>10 DEF SameBallot
  <2>. QED BY <1>1, <1>3, <2>10, <2>11, FollowTurn DEF f, x
<1>. QED BY <1>2, <1>3

\* handle_install_snapshot_reply keeps the ballot.
LEMMA InstallSnapshotReplyTurn ==
    ASSUME NEW n \in Node, NEW o \in RaftState, Quiet(o), Counted(n, o),
           NEW from \in Node, NEW m \in InstallSnapshotReply
    PROVE  Turn(n, o, handle_install_snapshot_reply(o, from, m))
<1>. DEFINE x == handle_install_snapshot_reply(o, from, m)
<1>1. SameBallot(x, o) /\ x.outgoing = o.outgoing
  BY DEF handle_install_snapshot_reply, RaftState, SameBallot
<1>. HIDE DEF x
<1>2. OutgoingAuthored(n, x)
  BY <1>1, QuietAuthored DEF Quiet
<1>. QED BY <1>1, <1>2, SameTurn DEF x

\* step: a truthful frame of a peer, with the term it reveals taken over first.
LEMMA StepTurn ==
    ASSUME NEW n \in Node, NEW b \in RaftState, Quiet(b), Counted(n, b),
           NEW from \in Node, from # n, NEW m \in Message, Attributed(grants, from, n, m),
           NEW timeout \in Nat
    PROVE  Turn(n, b, step(n, b, from, m, timeout))
<1>. DEFINE o == observe_term(b, m, timeout)
            x == step(n, b, from, m, timeout)
<1>0. m.term \in Nat /\ b.current_term \in Nat
  BY DEF RaftState, Message, RequestVote, RequestVoteReply, AppendEntries,
         AppendEntriesReply, InstallSnapshot, InstallSnapshotReply
<1>1. o \in RaftState
  BY ObserveTermType
<1>2. /\ Quiet(o) /\ Counted(n, o)
      /\ o = b \/ o.current_term > b.current_term
  BY <1>0 DEF observe_term, become_follower, reset_election_timer, RaftState, Quiet, Counted
<1>. HIDE DEF o
<1>3. Turn(n, o, x)
  <2>1. CASE m \in RequestVote
    <3>1. m.type = "RequestVote" /\ m.candidate_id # n
      BY <2>1 DEF RequestVote, Attributed
    <3>2. x = handle_request_vote(n, o, m, timeout)
      BY <3>1 DEF step, o
    <3>. HIDE DEF x
    <3>. QED BY <1>1, <1>2, <2>1, <3>1, <3>2, RequestVoteTurn
  <2>2. CASE m \in RequestVoteReply
    <3>1. m.type = "RequestVoteReply"
      BY <2>2 DEF RequestVoteReply
    <3>2. m.vote_granted => <<m.voter_id, m.term, n>> \in grants
      BY <3>1 DEF Attributed
    <3>3. x = handle_request_vote_reply(n, o, m)
      BY <3>1 DEF step, o
    <3>. HIDE DEF x
    <3>. QED BY <1>1, <1>2, <2>2, <3>2, <3>3, RequestVoteReplyTurn
  <2>3. CASE m \in AppendEntries
    <3>1. m.type = "AppendEntries" /\ m.leader_id # n
      BY <2>3 DEF AppendEntries, Attributed
    <3>2. x = handle_append_entries(n, o, m, timeout)
      BY <3>1 DEF step, o
    <3>. HIDE DEF x
    <3>. QED BY <1>1, <1>2, <2>3, <3>1, <3>2, AppendEntriesTurn
  <2>4. CASE m \in AppendEntriesReply
    <3>1. m.type = "AppendEntriesReply"
      BY <2>4 DEF AppendEntriesReply
    <3>2. x = handle_append_entries_reply(n, o, from, m)
      BY <3>1 DEF step, o
    <3>. HIDE DEF x
    <3>. QED BY <1>1, <1>2, <2>4, <3>2, AppendEntriesReplyTurn
  <2>5. CASE m \in InstallSnapshot
    <3>1. m.type = "InstallSnapshot" /\ m.leader_id # n
      BY <2>5 DEF InstallSnapshot, Attributed
    <3>2. x = handle_install_snapshot(n, o, m, timeout)
      BY <3>1 DEF step, o
    <3>. HIDE DEF x
    <3>. QED BY <1>1, <1>2, <2>5, <3>1, <3>2, InstallSnapshotTurn
  <2>6. CASE m \in InstallSnapshotReply
    <3>1. m.type = "InstallSnapshotReply"
      BY <2>6 DEF InstallSnapshotReply
    <3>2. x = handle_install_snapshot_reply(o, from, m)
      BY <3>1 DEF step, o
    <3>. HIDE DEF x
    <3>. QED BY <1>1, <1>2, <2>6, <3>2, InstallSnapshotReplyTurn
  <2>. QED BY <2>1, <2>2, <2>3, <2>4, <2>5, <2>6 DEF Message
<1>4. x \in RaftState
  BY StepType
<1>. HIDE DEF x
<1>5. VoteKept(n, b, x)
  <2>1. x.current_term \in Nat /\ o.current_term \in Nat
    BY <1>1, <1>4 DEF RaftState
  <2>. QED BY <1>0, <1>2, <1>3, <2>1 DEF Turn, VoteKept
<1>. QED BY <1>3, <1>5 DEF Turn, x

(***************************************************************************)
(* process_ready after a turn that accounts for itself keeps ElectionInv:  *)
(* the vote in the drained state is recorded, so the replies that leave    *)
(* with it are truthful, and a leader's tally is a majority of votes cast. *)
(***************************************************************************)
LEMMA ProcessReadyElection ==
    ASSUME TypeOK, ElectionInv, NEW n \in Node, NEW s \in RaftState, Turn(n, nodes[n], s),
           NEW ws, NEW outs, NEW net \in [Node -> [Node -> Seq(Message)]], NEW ls,
           Truthful(net), process_ready(n, s, ws, outs, net, ls)
    PROVE  ElectionInv'
<1>. DEFINE r == apply_committed(s)
            b == nodes[n]
<1>1. r \in RaftState
  BY ApplyCommittedType
<1>2. SameBallot(r, s) /\ r.outgoing = s.outgoing
  BY ApplyCommittedKeeps
<1>3. /\ nodes' = [nodes EXCEPT ![n] = drain(r)]
      /\ \E up \in SUBSET {p \in Node : r.outgoing[p] # <<>>} :
            links' = [net EXCEPT ![n] =
                        [p \in Node |->
                            IF p \in up
                            THEN @[p] \o fill_snapshots(r.outgoing[p], stores[n])
                            ELSE @[p]]]
      /\ grants' = grants \cup {<<n, r.current_term, c>> : c \in {r.voted_for} \ {None}}
      /\ heard' = heard \cup {<<n, r.current_term>> : l \in {r.leader_id} \ {None, n}}
      /\ elected' = elected \cup {<<r.current_term, n>> : l \in {r.role} \cap {"Leader"}}
  BY DEF process_ready, transmit
<1>. HIDE DEF r
<1>4. OutgoingAuthored(n, r) /\ VoteKept(n, b, r) /\ TallyKept(n, r)
  BY <1>2, AuthoredSame DEF Turn, VoteKept, TallyKept, SameBallot
<1>5. /\ drain(r).role = r.role /\ drain(r).current_term = r.current_term
      /\ drain(r).voted_for = r.voted_for /\ drain(r).votes = r.votes
      /\ drain(r).outgoing = [p \in Node |-> <<>>]
  BY <1>1 DEF drain, RaftState
<1>6. /\ nodes'[n] = drain(r)
      /\ \A p \in Node \ {n} : nodes'[p] = nodes[p]
  BY <1>3 DEF TypeOK
<1>7. grants \subseteq grants' /\ heard \subseteq heard'
  BY <1>3
<1>8. /\ r.current_term \in Nat /\ b.current_term \in Nat /\ r.votes \subseteq Node
      /\ r.voted_for \in Node \cup {None}
  BY <1>1 DEF TypeOK, RaftState
<1>9. r.voted_for # None => <<n, r.current_term, r.voted_for>> \in grants'
  BY <1>3
<1>10. OutgoingDrained'
  BY <1>5, <1>6 DEF ElectionInv, OutgoingDrained
<1>11. FramesTruthful'
  <2>1. \A p, q \in Node : \A m : Attributed(grants, p, q, m) => Attributed(grants', p, q, m)
    BY <1>7 DEF Attributed
  <2>2. PICK up \in SUBSET {p \in Node : r.outgoing[p] # <<>>} :
          links' = [net EXCEPT ![n] =
                      [p \in Node |->
                          IF p \in up
                          THEN @[p] \o fill_snapshots(r.outgoing[p], stores[n])
                          ELSE @[p]]]
    BY <1>3
  <2>3. ASSUME NEW p \in Node, NEW q \in Node
        PROVE  /\ p = q => links'[p][q] = <<>>
               /\ \A i \in 1..Len(links'[p][q]) : Attributed(grants', p, q, links'[p][q][i])
    <3>1. CASE p # n \/ q \notin up
      <4>1. links'[p][q] = net[p][q]
        BY <2>2, <3>1
      <4>. QED BY <2>1, <4>1 DEF Truthful
    <3>2. CASE p = n /\ q \in up
      <4>. DEFINE old == net[n][q]
                  out == r.outgoing[q]
                  fresh == fill_snapshots(out, stores[n])
      <4>1. links'[p][q] = old \o fresh
        BY <2>2, <3>2
      <4>2. out \in Seq(Message) /\ old \in Seq(Message) /\ stores[n] \in Store
        <5>1. out \in Seq(Message)
          BY <1>1 DEF RaftState
        <5>2. stores[n] \in Store
          BY DEF TypeOK
        <5>. QED BY <5>1, <5>2
      <4>3. fresh \in Seq(Message) /\ Len(fresh) = Len(out)
        <5>1. fresh \in Seq(Message)
          BY <4>2, FillType
        <5>2. DOMAIN fresh = 1..Len(out)
          BY DEF fill_snapshots
        <5>3. Len(out) \in Nat
          BY <4>2
        <5>. HIDE DEF out, fresh
        <5>. QED BY <5>1, <5>2, <5>3, LenProperties
      <4>4. q # n
        BY <1>4, <2>2, <3>2 DEF OutgoingAuthored
      <4>5. ASSUME NEW j \in 1..Len(out)
            PROVE  Attributed(grants', p, q, fresh[j])
        <5>1. out[j] \in Message
          BY <4>2
        <5>2. Authored(n, r, q, out[j])
          BY <1>4 DEF OutgoingAuthored
        <5>3. Attributed(grants', n, q, out[j])
          <6>1. r.voted_for = q => <<n, r.current_term, q>> \in grants'
            BY <1>9, RaftAssumption
          <6>. QED BY <5>2, <6>1 DEF Authored, Attributed
        <5>4. fresh[j] = fill_snapshot(out[j], stores[n])
          BY DEF fill_snapshots
        <5>5. CASE out[j].type = "InstallSnapshot"
          <6>1. out[j] \in InstallSnapshot
            BY <5>1, <5>5 DEF Message, RequestVote, RequestVoteReply, AppendEntries,
                              AppendEntriesReply, InstallSnapshot, InstallSnapshotReply
          <6>2. fresh[j].type = "InstallSnapshot" /\ fresh[j].leader_id = n
            BY <5>2, <5>4, <5>5, <6>1 DEF fill_snapshot, InstallSnapshot, Authored
          <6>. QED BY <3>2, <6>2 DEF Attributed
        <5>6. CASE out[j].type # "InstallSnapshot"
          <6>1. fresh[j] = out[j]
            BY <5>4, <5>6 DEF fill_snapshot
          <6>. QED BY <3>2, <5>3, <6>1
        <5>. QED BY <5>5, <5>6
      <4>. HIDE DEF old, out, fresh
      <4>6. ASSUME NEW i \in 1..Len(old \o fresh)
            PROVE  Attributed(grants', p, q, (old \o fresh)[i])
        <5>a. old \in Seq(Message) /\ fresh \in Seq(Message)
          BY <4>2, <4>3
        <5>b. Len(old) \in Nat /\ Len(fresh) \in Nat
          BY <5>a, LenProperties
        <5>c. /\ Len(old \o fresh) = Len(old) + Len(fresh)
              /\ \A k \in 1..Len(old) + Len(fresh) :
                    (old \o fresh)[k] = IF k <= Len(old) THEN old[k] ELSE fresh[k - Len(old)]
          BY <5>a, ConcatProperties, Zenon
        <5>0. i \in 1..Len(old) + Len(fresh)
          BY <5>b, <5>c
        <5>1. (old \o fresh)[i] = IF i <= Len(old) THEN old[i] ELSE fresh[i - Len(old)]
          BY <5>c, <5>0
        <5>2. CASE i <= Len(old)
          <6>1. Attributed(grants, p, q, old[i])
            <7>1. i \in 1..Len(old)
              BY <5>b, <5>0, <5>2
            <7>. QED BY <3>2, <7>1 DEF old, Truthful
          <6>. QED BY <2>1, <5>1, <5>2, <6>1
        <5>3. CASE ~(i <= Len(old))
          <6>1. i - Len(old) \in 1..Len(out)
            BY <4>3, <5>b, <5>0, <5>3
          <6>. QED BY <4>5, <5>1, <5>3, <6>1
        <5>. QED BY <5>2, <5>3
      <4>. QED BY <3>2, <4>1, <4>4, <4>6
    <3>. QED BY <3>1, <3>2
  <2>. QED BY <2>3 DEF FramesTruthful
<1>12. VotesRemembered'
  <2>. DEFINE fresh == <<n, r.current_term, r.voted_for>>
  <2>0. r.current_term >= b.current_term
    BY <1>4 DEF VoteKept
  <2>7. nodes'[n].current_term = r.current_term /\ nodes'[n].voted_for = r.voted_for
    BY <1>5, <1>6
  <2>1. ASSUME NEW g \in grants'
        PROVE  g \in grants \/ (g = fresh /\ r.voted_for # None)
    <3>1. grants' = grants \cup {<<n, r.current_term, c>> : c \in {r.voted_for} \ {None}}
      BY <1>3
    <3>. QED BY <3>1
  <2>2. ASSUME NEW g \in grants
        PROVE  g[1] \in Node /\ g[2] \in Nat /\ g[3] \in Node
    BY DEF TypeOK
  <2>3. ASSUME NEW g \in grants
        PROVE  /\ g[2] <= nodes[g[1]].current_term
               /\ <<g[1], g[2]>> \notin heard =>
                    /\ g[2] = nodes[g[1]].current_term => nodes[g[1]].voted_for = g[3]
                    /\ \A h \in grants : h[1] = g[1] /\ h[2] = g[2] => h[3] = g[3]
    BY DEF ElectionInv, VotesRemembered
  <2>4. fresh[1] = n /\ fresh[2] = r.current_term /\ fresh[3] = r.voted_for
    OBVIOUS
  <2>. HIDE DEF fresh
  <2>5. r.leader_id \notin {None, n} => <<n, r.current_term>> \in heard'
    BY <1>3
  <2>6. ASSUME NEW g \in grants, g[1] = n, g[2] = r.current_term,
               <<n, r.current_term>> \notin heard'
        PROVE  r.voted_for = g[3]
    <3>1. r.current_term = b.current_term
      <4>1. g[2] <= b.current_term
        BY <2>3, <2>6
      <4>. QED BY <1>8, <2>0, <2>6, <4>1
    <3>2. b.voted_for = g[3]
      BY <1>7, <2>3, <2>6, <3>1
    <3>3. g[3] # None
      BY <2>2, RaftAssumption
    <3>. QED BY <1>4, <2>5, <2>6, <3>1, <3>2, <3>3 DEF VoteKept
  <2>8. ASSUME NEW g \in grants'
        PROVE  /\ g[2] <= nodes'[g[1]].current_term
               /\ <<g[1], g[2]>> \notin heard' =>
                    /\ g[2] = nodes'[g[1]].current_term => nodes'[g[1]].voted_for = g[3]
                    /\ \A h \in grants' : h[1] = g[1] /\ h[2] = g[2] => h[3] = g[3]
    <3>1. g[2] <= nodes'[g[1]].current_term
      <4>1. CASE g \in grants /\ g[1] # n
        BY <1>6, <2>2, <2>3, <4>1
      <4>2. CASE g \in grants /\ g[1] = n
        <5>1. g[2] <= b.current_term /\ g[2] \in Nat
          BY <2>2, <2>3, <4>2
        <5>2. g[2] <= r.current_term
          BY <1>8, <2>0, <5>1
        <5>. QED BY <2>7, <4>2, <5>2, Zenon
      <4>3. CASE g = fresh
        <5>1. g[1] = n /\ g[2] = r.current_term
          BY <2>4, <4>3
        <5>. QED BY <1>8, <2>7, <5>1
      <4>. QED BY <2>1, <4>1, <4>2, <4>3
    <3>2. ASSUME <<g[1], g[2]>> \notin heard', g[2] = nodes'[g[1]].current_term
          PROVE  nodes'[g[1]].voted_for = g[3]
      <4>1. CASE g \in grants /\ g[1] # n
        BY <1>6, <1>7, <2>2, <2>3, <3>2, <4>1
      <4>2. CASE g \in grants /\ g[1] = n
        BY <1>5, <1>6, <2>6, <3>2, <4>2
      <4>3. CASE g = fresh
        BY <1>5, <1>6, <2>4, <4>3
      <4>. QED BY <2>1, <4>1, <4>2, <4>3
    <3>3. ASSUME <<g[1], g[2]>> \notin heard', NEW h \in grants', h[1] = g[1], h[2] = g[2]
          PROVE  h[3] = g[3]
      <4>1. CASE g \in grants /\ h \in grants
        BY <1>7, <2>3, <3>3, <4>1
      <4>2. CASE g = fresh /\ h \in grants
        BY <2>4, <2>6, <3>3, <4>2
      <4>3. CASE g \in grants /\ h = fresh
        BY <2>4, <2>6, <3>3, <4>3
      <4>. QED BY <2>1, <4>1, <4>2, <4>3
    <3>. QED BY <3>1, <3>2, <3>3
  <2>. QED BY <2>8 DEF VotesRemembered
<1>15. ASSUME r.role # "Follower", NEW v \in r.votes
       PROVE  <<v, r.current_term, n>> \in grants'
  <2>1. <<v, r.current_term, n>> \in grants \/ (v = n /\ r.voted_for = n)
    BY <1>4, <1>15 DEF TallyKept
  <2>2. n # None
    BY RaftAssumption
  <2>. QED BY <1>7, <1>9, <2>1, <2>2
<1>13. TallyTruthful'
  <2>1. ASSUME NEW p \in Node, nodes'[p].role # "Follower"
        PROVE  /\ \A v \in nodes'[p].votes : <<v, nodes'[p].current_term, p>> \in grants'
               /\ nodes'[p].role = "Leader" => Cardinality(nodes'[p].votes) >= majority
    <3>1. CASE p = n
      BY <1>4, <1>5, <1>6, <1>15, <2>1, <3>1 DEF TallyKept
    <3>2. CASE p # n
      BY <1>6, <1>7, <2>1, <3>2 DEF ElectionInv, TallyTruthful, IsLeader
    <3>. QED BY <3>1, <3>2
  <2>. QED BY <2>1 DEF TallyTruthful, IsLeader
<1>14. ElectedByMajority'
  <2>1. ASSUME NEW e \in elected'
        PROVE  \E q \in SUBSET Node : /\ Cardinality(q) >= majority
                                      /\ \A v \in q : <<v, e[1], e[2]>> \in grants'
    <3>1. CASE e \in elected
      BY <1>7, <3>1 DEF ElectionInv, ElectedByMajority
    <3>2. CASE e \notin elected
      <4>1. r.role = "Leader" /\ e = <<r.current_term, n>>
        <5>1. elected' = elected \cup {<<r.current_term, n>> : l \in {r.role} \cap {"Leader"}}
          BY <1>3
        <5>. QED BY <3>2, <5>1
      <4>2. Cardinality(r.votes) >= majority /\ r.votes \in SUBSET Node
        BY <1>4, <1>8, <4>1 DEF TallyKept
      <4>3. \A v \in r.votes : <<v, e[1], e[2]>> \in grants'
        BY <1>15, <4>1
      <4>. QED BY <4>2, <4>3
    <3>. QED BY <3>1, <3>2
  <2>. QED BY <2>1 DEF ElectedByMajority
<1>. QED BY <1>10, <1>11, <1>12, <1>13, <1>14 DEF ElectionInv

\* ElectionInv provides what the turn of a driver needs to know of its core.
LEMMA BeforeTurn ==
    ASSUME TypeOK, ElectionInv, NEW n \in Node
    PROVE  /\ nodes[n] \in RaftState /\ Quiet(nodes[n]) /\ Counted(n, nodes[n])
           /\ Truthful(links)
<1>1. nodes[n] \in RaftState
  BY DEF TypeOK
<1>2. Quiet(nodes[n])
  BY DEF ElectionInv, OutgoingDrained, Quiet
<1>3. Counted(n, nodes[n])
  BY DEF ElectionInv, TallyTruthful, IsLeader, Counted
<1>4. Truthful(links)
  BY DEF ElectionInv, FramesTruthful, Truthful
<1>. QED BY <1>1, <1>2, <1>3, <1>4

\* No vote has been cast and no frame is in flight when the cluster starts.
LEMMA InitElection == Init => ElectionInv
<1>. SUFFICES ASSUME Init PROVE ElectionInv
  OBVIOUS
<1>1. \A n \in Node : \E t \in Timeout : nodes[n] = new(t)
  BY DEF Init
<1>2. ASSUME NEW n \in Node
      PROVE  nodes[n].outgoing = [p \in Node |-> <<>>] /\ nodes[n].role = "Follower"
  <2>1. PICK t \in Timeout : nodes[n] = new(t)
    BY <1>1
  <2>2. new(t).outgoing = [p \in Node |-> <<>>] /\ new(t).role = "Follower"
    BY DEF new
  <2>. QED BY <2>1, <2>2, Zenon
<1>3. \A p, q \in Node : links[p][q] = <<>>
  BY DEF Init
<1>4. grants = {} /\ elected = {}
  BY DEF Init
<1>5. OutgoingDrained
  BY <1>2 DEF OutgoingDrained
<1>6. FramesTruthful
  BY <1>3 DEF FramesTruthful
<1>7. TallyTruthful
  BY <1>2 DEF TallyTruthful
<1>8. VotesRemembered /\ ElectedByMajority
  BY <1>4 DEF VotesRemembered, ElectedByMajority
<1>. QED BY <1>5, <1>6, <1>7, <1>8 DEF ElectionInv

\* Every turn of a driver keeps ElectionInv.
LEMMA NextElection == TypeOK /\ ElectionInv /\ [Next]_vars => ElectionInv'
<1>. SUFFICES ASSUME TypeOK, ElectionInv, [Next]_vars PROVE ElectionInv'
  OBVIOUS
<1>0. links \in [Node -> [Node -> Seq(Message)]]
  BY DEF TypeOK
<1>1. ASSUME NEW n \in Node, Tick(n) PROVE ElectionInv'
  <2>1. PICK t \in Timeout :
          LET s == tick(n, nodes[n], t)
          IN process_ready(n, IF s.current_term <= MaxTerm THEN s ELSE nodes[n],
                           waiters[n], outcomes, links, {})
    BY <1>1 DEF Tick
  <2>. DEFINE s == tick(n, nodes[n], t)
              x == IF s.current_term <= MaxTerm THEN s ELSE nodes[n]
  <2>2. nodes[n] \in RaftState /\ Quiet(nodes[n]) /\ Counted(n, nodes[n]) /\ t \in Nat
    BY BeforeTurn, TimeoutType
  <2>3. s \in RaftState /\ Turn(n, nodes[n], s)
    BY <2>2, TickType, TickTurn
  <2>4. Turn(n, nodes[n], nodes[n])
    <3>1. SameBallot(nodes[n], nodes[n])
      BY DEF SameBallot
    <3>. QED BY <2>2, <3>1, QuietAuthored, SameTurn
  <2>5. process_ready(n, x, waiters[n], outcomes, links, {})
    BY <2>1
  <2>. HIDE DEF s
  <2>6. x \in RaftState /\ Turn(n, nodes[n], x)
    BY <2>2, <2>3, <2>4
  <2>. HIDE DEF x
  <2>. QED BY <1>0, <2>5, <2>6, BeforeTurn, ProcessReadyElection
<1>2. ASSUME NEW n \in Node, NEW p \in Node, Receive(n, p) PROVE ElectionInv'
  <2>1. PICK i \in deliverable(links[p][n]), t \in Timeout :
          LET m == links[p][n][i]
          IN process_ready(n, step(n, nodes[n], p, m, t), waiters[n], outcomes,
                           [links EXCEPT ![p][n] = remove(@, i)], lapses_of(n, m))
    BY <1>2 DEF Receive
  <2>. DEFINE q == links[p][n]
              m == q[i]
              s == step(n, nodes[n], p, m, t)
              net == [links EXCEPT ![p][n] = remove(@, i)]
  <2>2. nodes[n] \in RaftState /\ Quiet(nodes[n]) /\ Counted(n, nodes[n]) /\ t \in Nat
    BY BeforeTurn, TimeoutType
  <2>3. q \in Seq(Message) /\ i \in 1..Len(q)
    BY <1>0 DEF deliverable
  <2>4. p # n /\ \A k \in 1..Len(q) : Attributed(grants, p, n, q[k])
    <3>1. Truthful(links)
      BY BeforeTurn
    <3>2. p = n => q = <<>>
      BY <3>1 DEF Truthful
    <3>3. \A k \in 1..Len(q) : Attributed(grants, p, n, q[k])
      BY <3>1 DEF Truthful
    <3>. QED BY <2>3, <3>2, <3>3
  <2>5. process_ready(n, s, waiters[n], outcomes, net, lapses_of(n, m))
    BY <2>1
  <2>. HIDE DEF q
  <2>6. m \in Message /\ Attributed(grants, p, n, m)
    BY <2>3, <2>4
  <2>. HIDE DEF m
  <2>7. s \in RaftState /\ Turn(n, nodes[n], s)
    BY <2>2, <2>4, <2>6, StepType, StepTurn
  <2>. HIDE DEF s
  <2>8. remove(q, i) \in Seq(Message) /\ \A k \in 1..Len(remove(q, i)) :
                                            Attributed(grants, p, n, remove(q, i)[k])
    <3>1. remove(q, i) \in Seq(Message)
      BY <2>3, RemoveType
    <3>2. ASSUME NEW k \in 1..Len(remove(q, i))
          PROVE  \E j \in 1..Len(q) : remove(q, i)[k] = q[j]
      BY <2>3, RemoveElements
    <3>. QED BY <2>4, <3>1, <3>2
  <2>9. net \in [Node -> [Node -> Seq(Message)]]
    BY <1>0, <2>8 DEF q
  <2>10. ASSUME NEW a \in Node, NEW b \in Node
         PROVE  /\ a = b => net[a][b] = <<>>
                /\ \A k \in 1..Len(net[a][b]) : Attributed(grants, a, b, net[a][b][k])
    <3>0. Truthful(links)
      BY BeforeTurn
    <3>1. CASE a = p /\ b = n
      <4>1. net[a][b] = remove(q, i)
        BY <1>0, <3>1 DEF q
      <4>. QED BY <2>4, <2>8, <3>1, <4>1
    <3>2. CASE ~(a = p /\ b = n)
      <4>1. net[a][b] = links[a][b]
        BY <1>0, <3>2
      <4>. QED BY <3>0, <4>1 DEF Truthful
    <3>. QED BY <3>1, <3>2
  <2>. HIDE DEF net
  <2>11. Truthful(net)
    BY <2>10 DEF Truthful
  <2>. QED BY <2>5, <2>7, <2>9, <2>11, ProcessReadyElection
<1>3. ASSUME NEW n \in Node, NEW c \in Command, Propose(n, c) PROVE ElectionInv'
  <2>. DEFINE s == propose(n, nodes[n], c)
  <2>1. process_ready(n, s, waiters[n] \cup {<<last_index(s.log), c>>},
                      [outcomes EXCEPT ![c] = "Waiting"], links, {})
    BY <1>3 DEF Propose
  <2>2. s \in RaftState /\ Turn(n, nodes[n], s)
    BY BeforeTurn, ProposeType, ProposeTurn
  <2>. HIDE DEF s
  <2>. QED BY <1>0, <2>1, <2>2, BeforeTurn, ProcessReadyElection
<1>4. ASSUME NEW n \in Node, NEW c \in Command, Redirect(n, c) PROVE ElectionInv'
  <2>1. process_ready(n, nodes[n], waiters[n], [outcomes EXCEPT ![c] = "NotLeader"], links, {})
    BY <1>4 DEF Redirect
  <2>2. nodes[n] \in RaftState /\ Turn(n, nodes[n], nodes[n])
    <3>1. SameBallot(nodes[n], nodes[n])
      BY DEF SameBallot
    <3>. QED BY <3>1, BeforeTurn, QuietAuthored, SameTurn
  <2>. QED BY <1>0, <2>1, <2>2, BeforeTurn, ProcessReadyElection
<1>5. CASE UNCHANGED vars
  BY <1>5 DEF vars, driver, history, ElectionInv, OutgoingDrained, FramesTruthful,
              VotesRemembered, TallyTruthful, ElectedByMajority, IsLeader
<1>. QED BY <1>1, <1>2, <1>3, <1>4, <1>5 DEF Next

\* Votes cast, votes in flight and votes counted agree in every reachable state.
THEOREM ElectionInvariant == Spec => []ElectionInv
<1>1. Init => TypeOK /\ ElectionInv
  BY InitType, InitElection
<1>2. TypeOK /\ ElectionInv /\ [Next]_vars => (TypeOK /\ ElectionInv)'
  BY NextType, NextElection
<1>. QED BY <1>1, <1>2, PTL DEF Spec

\* Two nodes that led the same term share a voter that had deferred to a leader of it.
LEMMA InvImpliesElectionSafety == TypeOK /\ ElectionInv => ElectionSafetyUnlessDeferred
<1>. SUFFICES ASSUME TypeOK, ElectionInv, NEW x \in elected, NEW y \in elected,
                     x[1] = y[1], x # y
              PROVE  \E v \in Node : /\ <<v, x[1], x[2]>> \in grants
                                     /\ <<v, x[1], y[2]>> \in grants
                                     /\ <<v, x[1]>> \in heard
  BY DEF ElectionSafetyUnlessDeferred
<1>1. PICK q \in SUBSET Node : /\ Cardinality(q) >= majority
                               /\ \A v \in q : <<v, x[1], x[2]>> \in grants
  BY DEF ElectionInv, ElectedByMajority
<1>2. PICK r \in SUBSET Node : /\ Cardinality(r) >= majority
                               /\ \A v \in r : <<v, y[1], y[2]>> \in grants
  BY DEF ElectionInv, ElectedByMajority
<1>3. PICK v \in Node : v \in q /\ v \in r
  BY <1>1, <1>2, QuorumsIntersect
<1>. DEFINE g == <<v, x[1], x[2]>>
            h == <<v, x[1], y[2]>>
<1>4. g \in grants /\ h \in grants
  BY <1>1, <1>2, <1>3
<1>5. x[2] # y[2]
  <2>1. x = <<x[1], x[2]>> /\ y = <<y[1], y[2]>>
    BY DEF TypeOK
  <2>. QED BY <2>1
<1>6. g[1] = v /\ g[2] = x[1] /\ g[3] = x[2] /\ h[1] = v /\ h[2] = x[1] /\ h[3] = y[2]
  OBVIOUS
<1>. HIDE DEF g, h
<1>7. <<v, x[1]>> \in heard
  BY <1>4, <1>5, <1>6 DEF ElectionInv, VotesRemembered
<1>. QED BY <1>4, <1>7 DEF g, h

(***************************************************************************)
(* Election safety as far as the code guarantees it, for every cluster     *)
(* size: whenever two nodes have led one term, some node voted for both,   *)
(* and only after deferring to a leader of that term, whose AppendEntries  *)
(* or InstallSnapshot made become_follower forget the first vote.          *)
(***************************************************************************)
THEOREM ElectionSafe == Spec => []ElectionSafetyUnlessDeferred
BY TypeCorrect, ElectionInvariant, InvImpliesElectionSafety, PTL

=============================================================================
