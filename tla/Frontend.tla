------------------------------ MODULE Frontend ------------------------------
(***************************************************************************)
(* One node as its clients see it: a handle_connection task of             *)
(* src/net/client.rs for every connection, the driver of src/server.rs     *)
(* with the Raft core it owns, the store they share and the metrics.       *)
(*                                                                         *)
(* Cluster takes a turn of the driver in one step; here the tasks run      *)
(* beside it, so that a read can come between two items of a batch, or     *)
(* between an item and the answer to the client that wrote it.  The other  *)
(* nodes are what one of them may send, in agreement with the entries that *)
(* are committed in the cluster (chosen).                                  *)
(***************************************************************************)
EXTENDS RaftNode, Batches, ClientCommands

CONSTANTS Self,         \* this node
          Peer,         \* the one that sends messages
          Conn,         \* the client connections
          Scenarios     \* what clients and peers may do, see scenario

(***************************************************************************)
(* A scenario has a script for every client, and for the peers the         *)
(* commands they may have and the bounds on their terms and indexes.  A    *)
(* script has the requests of the client, the segments in which its stream *)
(* is sent, and whether the client may hang up early.  A request is the    *)
(* frame it asks with, the units that stand for it and its good replies.   *)
(***************************************************************************)
Wire(rs) == FlattenSeq([i \in DOMAIN rs |-> rs[i].wire])

ASSUME FrontendAssumption ==
    /\ Self \in Node /\ Peer \in Peers(Self) /\ IsFiniteSet(Conn)
    /\ \A x \in Scenarios :
          /\ x.max_term \in Nat /\ x.max_log \in Nat /\ x.foreign \subseteq Command
          /\ \A c \in Conn : FlattenSeq(x.script[c].segments) = Wire(x.script[c].requests)

VARIABLES scenario,     \* the one that is played
          unsent,       \* the segments each connection's socket has not delivered yet
          gone,         \* has the client hung up?
          buf,          \* the task's buffer
          task,         \* what the task is doing
          replies,      \* the frames it has written
          answers       \* the oneshot channel it awaits

VARIABLES requests,     \* the driver's channel
          node,         \* its Raft core
          waiters,      \* the (index, connection) of each unanswered write
          phase,        \* where the driver is in its loop
          pending,      \* the items of Ready::committed not applied yet
          was_leader, metrics

(***************************************************************************)
(* History.  The properties read the frames each task has decoded, what    *)
(* its client was told (see told), the index up to which the node has      *)
(* applied, the one its data reaches (further on, after a snapshot that is *)
(* newer than its label) and the terms in which the node led; the peer's   *)
(* messages agree with the entries that are committed in the cluster.      *)
(***************************************************************************)
VARIABLES served, trail, position, reach, led, chosen

client   == <<scenario, unsent, gone>>
conns    == <<buf, task, replies, answers>>
driver   == <<node, waiters, phase, pending, was_leader>>
history  == <<served, trail, position, reach, led, chosen>>
frontend == <<client, conns, requests, driver, metrics, batchVars, history>>

script == scenario.script

NoAnswer == [outcome |-> "None"]
Reading  == [state |-> "reading"]
Closed   == [state |-> "closed"]
Awaiting(command) == [state |-> "waiting", command |-> command]

\* The store that the commands of these entries produce.
replay(entries) ==
    apply_all(EmptyStore, [i \in DOMAIN entries |-> [kind |-> "Command", index |-> i,
                                                     command |-> entries[i].command]])
Replay(k) == replay(SubSeq(chosen, 1, k))

metrics_new == [gets_total |-> 0, sets_total |-> 0, dels_total |-> 0,
                not_leader_total |-> 0, elections_won_total |-> 0,
                current_term |-> 0, is_leader |-> 0, commit_index |-> 0, log_len |-> 0]

FrontendInit ==
    /\ scenario \in Scenarios
    /\ unsent = [c \in Conn |-> script[c].segments]
    /\ gone = [c \in Conn |-> FALSE]
    /\ buf = [c \in Conn |-> <<>>] /\ task = [c \in Conn |-> Reading]
    /\ replies = [c \in Conn |-> <<>>] /\ answers = [c \in Conn |-> NoAnswer]
    /\ requests = <<>> /\ node \in {new(t) : t \in Timeout}
    /\ waiters = {} /\ phase = "select" /\ pending = <<>> /\ was_leader = FALSE
    /\ metrics = metrics_new
    /\ base = EmptyStore /\ batch = <<>> /\ store = EmptyStore
    /\ served = [c \in Conn |-> <<>>] /\ trail = [c \in Conn |-> <<>>]
    /\ position = 0 /\ reach = 0 /\ led = {} /\ chosen = <<>>

-----------------------------------------------------------------------------
(* The connection tasks *)

incr(counter) == [metrics EXCEPT ![counter] = @ + 1]

\* encode and write_all, which fails if the client is gone and the kernel knows it.
write(c, reply) ==
    \/ /\ replies' = [replies EXCEPT ![c] = Append(@, reply)]
       /\ task' = [task EXCEPT ![c] = Reading]
    \/ /\ gone[c]
       /\ task' = [task EXCEPT ![c] = Closed]
       /\ UNCHANGED replies

\* read_buf appends the segments that have come to a buffer that holds no whole frame.
ReadBuf(c) ==
    /\ task[c] = Reading /\ decode(buf[c]) = Incomplete
    /\ \E n \in 1..Len(unsent[c]) :
          /\ buf' = [buf EXCEPT ![c] = @ \o FlattenSeq(SubSeq(unsent[c], 1, n))]
          /\ unsent' = [unsent EXCEPT ![c] = SubSeq(@, n + 1, Len(@))]
    /\ UNCHANGED <<scenario, gone, task, replies, answers, requests, driver, metrics,
                   batchVars, history>>

\* read_buf returns 0, or bytes that are not RESP have come: the task ends.
EndTask(c) ==
    /\ task[c] = Reading
    /\ \/ decode(buf[c]) = Incomplete /\ unsent[c] = <<>> /\ gone[c]
       \/ decode(buf[c]) = Invalid
    /\ task' = [task EXCEPT ![c] = Closed]
    /\ UNCHANGED <<client, buf, replies, answers, requests, driver, metrics, batchVars,
                   history>>

\* The client hangs up, perhaps within a request.
HangUp(c) ==
    /\ script[c].leaves /\ ~gone[c]
    /\ gone' = [gone EXCEPT ![c] = TRUE]
    /\ unsent' = [unsent EXCEPT ![c] = <<>>]
    /\ UNCHANGED <<scenario, conns, requests, driver, metrics, batchVars, history>>

asked(c) == from_frame(decode(buf[c]).value)
needs_driver(command) == is_write(command) \/ command.kind = "ClusterStatus"

\* A whole frame is in the buffer; decode takes it out.
decodes(c) ==
    /\ task[c] = Reading /\ decode(buf[c]).result = "Ok"
    /\ buf' = [buf EXCEPT ![c] = advance(@, decode(@).pos)]
    /\ served' = [served EXCEPT ![c] = Append(@, decode(buf[c]).value)]

\* The replies that dispatch finds without the driver.
local_reply(command) ==
    CASE command.kind = "Ping" -> IF command.message = <<>> THEN Simple(<<"PONG">>)
                                  ELSE Bulk(command.message[1])
      [] command.kind = "Get" -> IF store[command.key] = Absent THEN Null
                                 ELSE Bulk(store[command.key])
      [] command.kind = "ClusterMembers" ->
            LET ids == SetToSeq(Node) IN Array([i \in DOMAIN ids |-> Bulk(<<ids[i]>>)])
      [] command.kind = "Command" -> Array(<<>>)
      [] command.kind = "Err" -> Error(<<"ERR">> \o command.message)

\* A client is told something about the store at an index of the log, and it is, or is
\* not, what the chosen commands say of that index.
told(at, true) == [at |-> at, true |-> true]

ServeLocally(c) ==
    /\ decodes(c) /\ ~needs_driver(asked(c))
    /\ write(c, local_reply(asked(c)))
    /\ IF asked(c).kind = "Get" THEN metrics' = incr("gets_total") ELSE UNCHANGED metrics
    /\ trail' = IF asked(c).kind = "Get" /\ reach <= position
                THEN [trail EXCEPT ![c] = Append(@,
                        told(position, store[asked(c).key] = Replay(position)[asked(c).key]))]
                ELSE trail
    /\ UNCHANGED <<client, answers, requests, driver, batchVars, position, reach, led, chosen>>

\* Handle::propose and Handle::status: the task sends a request and awaits the answer.
AskDriver(c) ==
    /\ decodes(c) /\ needs_driver(asked(c))
    /\ requests' = Append(requests, [conn |-> c, command |-> asked(c)])
    /\ task' = [task EXCEPT ![c] = Awaiting(asked(c))]
    /\ metrics' = CASE asked(c).kind = "Set" -> incr("sets_total")
                    [] asked(c).kind = "Del" -> incr("dels_total")
                    [] OTHER -> metrics
    /\ UNCHANGED <<client, replies, answers, driver, batchVars, trail, position, reach, led,
                   chosen>>

\* Error::client_message of a NotLeader.
not_leader_frame(leader) ==
    Error(<<"ERR">> \o IF leader = None THEN <<"CLUSTERDOWN">> ELSE <<"MOVED", leader>>)

reply_for(command, answer) ==
    CASE answer.outcome = "NotLeader" -> not_leader_frame(answer.leader)
      [] answer.outcome = "Status" -> Bulk(answer.status)
      [] answer.outcome = "Committed" ->
            IF command.kind = "Set" THEN Simple(<<"OK">>) ELSE Integer(1)

\* WriteCommand::encode, which decode inverts.
encoded(command) ==
    CHOOSE x \in Command :
        Decode[x] = IF command.kind = "Set"
                    THEN [op |-> "Set", key |-> command.key, value |-> command.value]
                    ELSE [op |-> "Del", keys |-> command.keys]

\* The answer has come.
Answered(c) ==
    /\ task[c].state = "waiting" /\ answers[c] # NoAnswer
    /\ write(c, reply_for(task[c].command, answers[c]))
    /\ answers' = [answers EXCEPT ![c] = NoAnswer]
    /\ UNCHANGED <<client, buf, requests, driver, metrics, batchVars, history>>

-----------------------------------------------------------------------------
(* The driver: an event, take_ready, then process_ready item by item *)

\* outcomes has one for each of the waiters that get one.
notify(outcomes) ==
    answers' = [c \in Conn |-> IF \E w \in DOMAIN outcomes : w[2] = c
                               THEN outcomes[CHOOSE w \in DOMAIN outcomes : w[2] = c]
                               ELSE answers[c]]

(***************************************************************************)
(* The event has left the core in state s, when the entries known were     *)
(* committed; those that s commits past them are now.                      *)
(***************************************************************************)
start_turn(s, known) ==
    LET r == apply_committed(s)
    IN /\ node' = drain(r) /\ pending' = r.committed
       /\ phase' = "process_ready"
       /\ NextBatch
       /\ led' = led \cup {r.current_term : l \in {r.role} \cap {"Leader"}}
       /\ chosen' = known \o SubSeq(entries_from(s.log, Len(known) + 1), 1,
                                    s.commit_index - Len(known))
       /\ UNCHANGED <<was_leader, served, trail, position, reach>>

Tick ==
    /\ phase = "select"
    /\ \E t \in Timeout :
          /\ tick(Self, node, t).current_term <= scenario.max_term
          /\ start_turn(tick(Self, node, t), chosen)
    /\ UNCHANGED <<client, conns, requests, waiters, metrics>>

(***************************************************************************)
(* What the peer may send.  It has every chosen entry.  It leads terms in  *)
(* which this node does not, with a log that may have one entry more, and  *)
(* has applied that entry or not.                                          *)
(***************************************************************************)
peer_terms == {t \in max(1, node.current_term)..scenario.max_term :
                  node.role # "Leader" \/ t > node.current_term}

peer_log == [EmptyLog EXCEPT !.entries = chosen]

peer_logs(t) ==
    LET next == Len(chosen) + 1
        Entry == {e \in [term : {t}, command : scenario.foreign] :
                     /\ next <= scenario.max_log
                     /\ term_at(node.log, next) = t => get(node.log, next) = e}
    IN {peer_log} \cup {append(peer_log, <<e>>) : e \in Entry}

\* It asks for votes, grants its own to a log that is up to date, and acknowledges entries.
peer_answers ==
    {[type |-> "RequestVote", term |-> t, candidate_id |-> Peer,
      last_log_index |-> last_index(peer_log), last_log_term |-> last_term(peer_log)] :
        t \in peer_terms}
    \cup {m \in {[type |-> "RequestVoteReply", term |-> node.current_term, voter_id |-> Peer,
                  vote_granted |-> TRUE]} :
              candidate_is_up_to_date([log |-> peer_log], last_index(node.log),
                                      last_term(node.log))}
    \cup {append_reply(Peer, node, TRUE, i, 0) : i \in 1..last_index(node.log)}

\* send_append of the entries behind those this node has committed.
peer_appends(t) ==
    LET prev == node.commit_index
    IN UNION {{[type |-> "AppendEntries", term |-> t, leader_id |-> Peer,
                prev_log_index |-> prev, prev_log_term |-> term_at(l, prev),
                entries |-> entries_from(l, prev + 1), leader_commit |-> k] :
                    k \in {prev, last_index(l)}} : l \in peer_logs(t)}

(***************************************************************************)
(* send_append of a snapshot, under the term of the last entry of log l.   *)
(* Its index i is any that the peer has applied, also a stale one; the     *)
(* data fill_snapshot puts in is the store of the moment, at j.            *)
(***************************************************************************)
peer_snapshot(t, l, i, j) ==
    [type |-> "InstallSnapshot", term |-> t, leader_id |-> Peer,
     last_included_index |-> i, last_included_term |-> last_term(l),
     data |-> snapshot(replay(SubSeq(l.entries, 1, j)))]

Step ==
    /\ phase = "select"
    /\ \E timeout \in Timeout :
          \/ \E m \in peer_answers \cup UNION {peer_appends(t) : t \in peer_terms} :
                start_turn(step(Self, node, Peer, m, timeout), chosen)
          \/ \E t \in peer_terms : \E l \in peer_logs(t) :
                \E j \in 1..last_index(l) : \E i \in 1..j :
                   start_turn(step(Self, node, Peer, peer_snapshot(t, l, i, j), timeout),
                              SubSeq(l.entries, 1, max(j, Len(chosen))))
    /\ UNCHANGED <<client, conns, requests, waiters, metrics>>

status == <<Self, node.role, ToString(node.current_term), node.leader_id,
            ToString(node.commit_index), ToString(Cardinality(Node))>>

answer(c, a) == answers' = [answers EXCEPT ![c] = a]

\* One arm of handle_request each: a write on the leader, elsewhere, and a status.
request == Head(requests)
takes_request(kinds) ==
    /\ phase = "select" /\ requests # <<>> /\ request.command.kind \in kinds
    /\ requests' = Tail(requests)
    /\ UNCHANGED <<client, buf, task, replies>>

Propose ==
    /\ takes_request({"Set", "Del"}) /\ node.role = "Leader"
    /\ LET s == propose(Self, node, encoded(request.command))
       IN /\ start_turn(s, chosen)
          /\ waiters' = waiters \cup {<<last_index(s.log), request.conn>>}
    /\ UNCHANGED <<answers, metrics>>

Redirect ==
    /\ takes_request({"Set", "Del"}) /\ node.role # "Leader"
    /\ metrics' = incr("not_leader_total")
    /\ answer(request.conn, [outcome |-> "NotLeader", leader |-> node.leader_id])
    /\ start_turn(node, chosen)
    /\ UNCHANGED waiters

Status ==
    /\ takes_request({"ClusterStatus"})
    /\ answer(request.conn, [outcome |-> "Status", status |-> status])
    /\ start_turn(node, chosen)
    /\ UNCHANGED <<waiters, metrics>>

\* The index up to which the node has applied, once it has the first pending item.
reached == IF Len(pending) = 1 THEN node.last_applied ELSE pending[2].index - 1

Apply ==
    /\ phase = "process_ready" /\ pending # <<>>
    /\ ApplyItem(Head(pending))
    /\ position' = reached
    /\ IF Head(pending).kind = "Command"
       THEN /\ phase' = "resolve" /\ UNCHANGED <<pending, trail>>
            /\ reach' = max(reach, reached)
       ELSE /\ pending' = Tail(pending) /\ UNCHANGED phase
            /\ reach' = Min({j \in reached..Len(chosen) :
                                Head(pending).data = snapshot(Replay(j))})
            /\ trail' = IF reached < position THEN [c \in Conn |-> <<>>] ELSE trail
    /\ UNCHANGED <<client, conns, requests, node, waiters, was_leader, metrics,
                   served, led, chosen>>

\* Slip: the waiters behind the index are resolved with it.
resolved_from(index) == {w \in waiters : w[1] >= index}

resolved(index) == {w \in waiters : w[1] = index}

\* Slip: the waiters are looked up, and stay where they are.
without_removal(ws) == waiters

\* The waiters left when ws are taken out of the map.
without(ws) == waiters \ ws

\* Of the waiters that are told Committed: the one of c, if the node still leads.
promises(done, c) == {w \in done : w[2] = c /\ node.role = "Leader"}
confirmed(w) ==
    told(w[1], w[1] <= Len(chosen) /\ chosen[w[1]].command = encoded(task[w[2]].command))

Resolve ==
    /\ phase = "resolve"
    /\ LET done == resolved(Head(pending).index)
       IN /\ waiters' = without(done)
          /\ notify([w \in done |-> [outcome |-> "Committed"]])
          /\ trail' = [c \in Conn |->
                          trail[c] \o SetToSeq({confirmed(w) : w \in promises(done, c)})]
    /\ pending' = Tail(pending) /\ phase' = "process_ready"
    /\ UNCHANGED <<client, buf, task, replies, requests, node, was_leader, metrics,
                   batchVars, served, position, reach, led, chosen>>

\* Slip: was_leader is set and never cleared.
update_metrics_once ==
    /\ was_leader' = (was_leader \/ node.role = "Leader")
    /\ metrics' = [metrics EXCEPT
                      !.elections_won_total =
                          IF node.role = "Leader" /\ ~was_leader THEN @ + 1 ELSE @]

update_metrics ==
    /\ was_leader' = (node.role = "Leader")
    /\ metrics' = [metrics EXCEPT
                      !.elections_won_total =
                          IF node.role = "Leader" /\ ~was_leader THEN @ + 1 ELSE @,
                      !.current_term = node.current_term,
                      !.is_leader = IF node.role = "Leader" THEN 1 ELSE 0,
                      !.commit_index = node.commit_index,
                      !.log_len = last_index(node.log)]

\* Slip: while no leader is known there is nowhere to send the waiting clients.
failed_if_known == IF node.role = "Leader" \/ node.leader_id = None THEN {} ELSE waiters

\* A node that does not lead fails its waiters.
failed == IF node.role = "Leader" THEN {} ELSE waiters

EndTurn ==
    /\ phase = "process_ready" /\ pending = <<>>
    /\ update_metrics
    /\ waiters' = without(failed)
    /\ notify([w \in failed |-> [outcome |-> "NotLeader", leader |-> node.leader_id]])
    /\ phase' = "select"
    /\ UNCHANGED <<client, buf, task, replies, requests, node, pending, batchVars, history>>

-----------------------------------------------------------------------------
HandleRequest == Propose \/ Redirect \/ Status
ProcessReady == Apply \/ Resolve \/ EndTurn
Poll(c) == EndTask(c) \/ ServeLocally(c) \/ AskDriver(c) \/ Answered(c)

FrontendNext ==
    \/ Tick \/ Step \/ HandleRequest \/ ProcessReady
    \/ \E c \in Conn : Poll(c) \/ ReadBuf(c) \/ HangUp(c)

CanHandleRequest == phase = "select" /\ requests # <<>>
CanPoll(c) ==
    \/ task[c] = Reading /\ (decode(buf[c]) # Incomplete \/ (unsent[c] = <<>> /\ gone[c]))
    \/ task[c].state = "waiting" /\ answers[c] # NoAnswer

(***************************************************************************)
(* Fairness: the runtime polls every task that can go on, and select!      *)
(* takes a random one of the ready branches, so that no branch which is    *)
(* ready again and again is passed over for ever.  Nothing is owed by the  *)
(* peers, the clocks or the clients.  These are weak fairness of           *)
(* ProcessReady, strong fairness of HandleRequest and weak fairness of     *)
(* every Poll(c), written out with the conditions that enable them.        *)
(***************************************************************************)
FrontendFairness ==
    /\ []<>(phase = "select")
    /\ <>[](~CanHandleRequest) \/ []<><<Len(requests') < Len(requests)>>_requests
    /\ \A c \in Conn : \/ []<>(~CanPoll(c))
                       \/ []<><<\/ task'[c] # task[c]
                                \/ served'[c] # served[c]>>_<<task, served>>

FrontendSpec == FrontendInit /\ [][FrontendNext]_frontend /\ FrontendFairness

-----------------------------------------------------------------------------
(* Properties *)

(***************************************************************************)
(* However the stream is cut into reads, a task decodes exactly the        *)
(* client's requests, in order, and what is left is the rest of the stream *)
(* (Frame::decode starts again from the first byte after every read).      *)
(***************************************************************************)
FramesIntact ==
    \A c \in Conn :
        LET rs   == script[c].requests
            k    == Len(served[c])
            rest == Wire(SubSeq(rs, k + 1, Len(rs)))
        IN /\ k <= Len(rs) /\ \A i \in 1..k : served[c][i] = rs[i].frame
           /\ IF gone[c] THEN IsPrefix(buf[c], rest) ELSE buf[c] \o FlattenSeq(unsent[c]) = rest

\* A reply without the number in it, or the leader it names.
shape(f) == CASE f.type = "Integer" -> [type |-> "Integer"]
              [] f.type = "Error" /\ IsPrefix(<<"ERR", "MOVED">>, f.data) ->
                    Error(<<"ERR", "MOVED">>)
              [] OTHER -> f

(***************************************************************************)
(* The i-th reply on a connection is one that its i-th request may get,    *)
(* whatever the driver answers to other connections meanwhile (dispatch).  *)
(* Which number a DEL is answered with, and which name of the leader a     *)
(* redirect carries, is not judged: the source and its docs disagree.      *)
(***************************************************************************)
RepliesFit ==
    \A c \in Conn :
        /\ Len(replies[c]) <= Len(served[c])
        /\ \A i \in DOMAIN replies[c] :
              shape(replies[c][i]) \in {shape(f) : f \in script[c].requests[i].good}

\* The frames at the head of a stream, as a client with this codec reads them.
RECURSIVE decode_all(_)
decode_all(stream) ==
    LET d == decode(stream)
    IN IF d.result = "Ok" THEN <<d.value>> \o decode_all(advance(stream, d.pos)) ELSE <<>>

\* An error frame may quote a name that holds the line separator.
one_line(f) == f.type \in {"Simple", "Error"} =>
                  \A i \in 1..Len(f.data) - 1 : SubSeq(f.data, i, i + 1) # CRLF

(***************************************************************************)
(* What encode writes, decode reads back: the client gets the replies, up  *)
(* to the first error that quotes a command name with a line separator in  *)
(* it (UnknownCommand), which encode does not escape.                      *)
(***************************************************************************)
RepliesReadable ==
    \A c \in Conn :
        \A n \in 0..Len(replies[c]) :
            LET rs == SubSeq(replies[c], 1, n)
            IN (\A i \in 1..n : one_line(rs[i])) =>
                  decode_all(FlattenSeq([i \in 1..n |-> encode(rs[i])])) = rs

(***************************************************************************)
(* What a client is told of the store on one connection is what the        *)
(* commands committed in the cluster say of one index, and this index      *)
(* never moves back: a read shows the store those commands produce up to   *)
(* it, and an OK from a node that still leads is about the client's own    *)
(* command, at its index (apply comes before resolve in process_ready).    *)
(* Not so: an OK of a node that has just been deposed (early_ack); reads   *)
(* while the node applies again what a snapshot newer than its label       *)
(* contained; and whatever came before a snapshot older than the store.    *)
(***************************************************************************)
SessionOrdered ==
    \A c \in Conn : \A i \in DOMAIN trail[c] :
        /\ trail[c][i].true
        /\ \A j \in 1..i - 1 : trail[c][j].at <= trail[c][i].at

(***************************************************************************)
(* A task that waits has its request in the driver's channel, among the    *)
(* waiters or answered, and in one of these only: none is lost, none is    *)
(* answered twice (oneshot channels, waiters, and resolve's remove).       *)
(***************************************************************************)
InOnePlace ==
    \A c \in Conn :
        Cardinality({i \in DOMAIN requests : requests[i].conn = c})
          + Cardinality({w \in waiters : w[2] = c})
          + (IF answers[c] = NoAnswer THEN 0 ELSE 1)
        = IF task[c].state = "waiting" THEN 1 ELSE 0

(***************************************************************************)
(* elections_won_total counts the terms this node has led, although        *)
(* update_metrics only compares the role with the last turn's.             *)
(***************************************************************************)
ElectionsCounted == phase = "select" => metrics.elections_won_total = Cardinality(led)

\* The write that c waits for is neither committed, as far as the node knows, nor lost.
Undecided(c) ==
    /\ node.role = "Leader"
    /\ \E w \in waiters : w[2] = c /\ w[1] > node.commit_index

(***************************************************************************)
(* A client waits for a leader to commit its write, and for nothing else:  *)
(* the driver takes every request up, and once it has committed the write  *)
(* or lost the leadership it answers, and the task writes the reply.       *)
(***************************************************************************)
NobodyHangs ==
    \A c \in Conn : (task[c].state = "waiting" /\ ~Undecided(c))
                      ~> (task[c].state # "waiting" \/ Undecided(c))

=============================================================================
