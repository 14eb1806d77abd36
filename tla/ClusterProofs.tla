---------------------------- MODULE ClusterProofs ----------------------------
(***************************************************************************)
(* Type correctness of the running cluster, for every set of nodes, keys,  *)
(* values and commands, every configuration and every bound.               *)
(***************************************************************************)
EXTENDS Safety, RaftNodeProofs

\* fill_snapshot turns messages into messages.
LEMMA FillType ==
    ASSUME NEW store \in Store, NEW msgs \in Seq(Message)
    PROVE  fill_snapshots(msgs, store) \in Seq(Message)
<1>1. ASSUME NEW m \in Message
      PROVE  fill_snapshot(m, store) \in Message
  <2>1. CASE m.type = "InstallSnapshot"
    <3>1. m \in InstallSnapshot
      BY <2>1 DEF Message, RequestVote, RequestVoteReply, AppendEntries,
                  AppendEntriesReply, InstallSnapshot, InstallSnapshotReply
    <3>2. [m EXCEPT !.data = snapshot(store)] \in InstallSnapshot
      BY <3>1, SnapshotType DEF InstallSnapshot
    <3>. QED BY <2>1, <3>2 DEF fill_snapshot, Message
  <2>. QED BY <2>1 DEF fill_snapshot
<1>2. \A i \in 1..Len(msgs) : msgs[i] \in Message
  OBVIOUS
<1>3. fill_snapshots(msgs, store) \in [1..Len(msgs) -> Message]
  BY <1>1, <1>2 DEF fill_snapshots
<1>. QED BY <1>3, SeqDef

\* Taking a frame off a link leaves a sequence of messages.
LEMMA RemoveType ==
    ASSUME NEW q \in Seq(Message), NEW i \in 1..Len(q)
    PROVE  remove(q, i) \in Seq(Message)
<1>1. SubSeq(q, 1, i - 1) \in Seq(Message) /\ SubSeq(q, i + 1, Len(q)) \in Seq(Message)
  BY SubSeqType
<1>. QED BY <1>1, ConcatProperties DEF remove

\* What is left on the link was on it before.
LEMMA RemoveElements ==
    ASSUME NEW q \in Seq(Message), NEW i \in 1..Len(q), NEW k \in 1..Len(remove(q, i))
    PROVE  \E j \in 1..Len(q) : remove(q, i)[k] = q[j]
<1>. DEFINE a == SubSeq(q, 1, i - 1)
            b == SubSeq(q, i + 1, Len(q))
<1>1. Len(q) \in Nat /\ i \in Nat /\ 1 <= i /\ i <= Len(q)
  BY LenProperties
<1>2. a \in Seq(Message) /\ b \in Seq(Message)
  BY SubSeqType
<1>3. Len(a) = i - 1 /\ \A j \in 1..i - 1 : a[j] = q[j]
  BY <1>1
<1>4. Len(b) = Len(q) - i /\ \A j \in 1..Len(q) - i : b[j] = q[i + j]
  BY <1>1
<1>5. remove(q, i) = a \o b
  BY DEF remove
<1>. HIDE DEF a, b
<1>6. /\ Len(a \o b) = Len(a) + Len(b)
      /\ \A j \in 1..Len(a) + Len(b) :
            (a \o b)[j] = IF j <= Len(a) THEN a[j] ELSE b[j - Len(a)]
  BY <1>2, ConcatProperties, Zenon
<1>7. k \in 1..Len(a) + Len(b)
  BY <1>5, <1>6
<1>8. (a \o b)[k] = IF k <= Len(a) THEN a[k] ELSE b[k - Len(a)]
  BY <1>6, <1>7
<1>9. CASE k <= Len(a)
  BY <1>1, <1>3, <1>5, <1>7, <1>8, <1>9
<1>10. CASE ~(k <= Len(a))
  <2>1. k - Len(a) \in 1..Len(q) - i /\ i + (k - Len(a)) \in 1..Len(q)
    BY <1>1, <1>3, <1>4, <1>7, <1>10
  <2>. QED BY <1>4, <1>5, <1>8, <1>10, <2>1
<1>. QED BY <1>9, <1>10

\* process_ready keeps every piece of the driver's state well formed.
LEMMA ProcessReadyType ==
    ASSUME TypeOK, NEW n \in Node, NEW s \in RaftState,
           NEW ws \in SUBSET (Nat \X Command), NEW outs \in [Command -> Outcome],
           NEW net \in [Node -> [Node -> Seq(Message)]], NEW ls \in SUBSET Lapse,
           process_ready(n, s, ws, outs, net, ls)
    PROVE  TypeOK'
<1>. DEFINE r    == apply_committed(s)
            done == resolved(ws, r.committed)
            lost == failed(r, ws \ done)
<1>1. r \in RaftState
  BY ApplyCommittedType
<1>2. done \subseteq ws /\ lost \subseteq ws
  BY DEF resolved, failed
<1>3. /\ nodes' = [nodes EXCEPT ![n] = drain(r)]
      /\ stores' = [stores EXCEPT ![n] = apply_all(@, r.committed)]
      /\ waiters' = [waiters EXCEPT ![n] = (ws \ done) \ lost]
      /\ outcomes' = [c \in Command |->
                         IF \E w \in done : w[2] = c THEN "Committed"
                         ELSE IF \E w \in lost : w[2] = c THEN "NotLeader"
                         ELSE outs[c]]
      /\ \E up \in SUBSET {p \in Node : r.outgoing[p] # <<>>} :
            links' = [net EXCEPT ![n] =
                        [p \in Node |->
                            IF p \in up
                            THEN @[p] \o fill_snapshots(r.outgoing[p], stores[n])
                            ELSE @[p]]]
      /\ grants' = grants \cup {<<n, r.current_term, c>> : c \in {r.voted_for} \ {None}}
      /\ heard' = heard \cup {<<n, r.current_term>> : l \in {r.leader_id} \ {None, n}}
      /\ elected' = elected \cup {<<r.current_term, n>> : l \in {r.role} \cap {"Leader"}}
      /\ applied' = applied \cup {<<r.committed[i].index, r.committed[i].command>> :
                                    i \in commands(r.committed)}
      /\ lapses' = lapses \cup ls \cup
                     (IF mislabels_snapshot(s) THEN {"snapshot_term"} ELSE {})
  BY DEF process_ready, transmit
<1>. HIDE DEF r, done, lost
<1>4. nodes' \in [Node -> RaftState]
  BY <1>1, <1>3, DrainType DEF TypeOK
<1>5. stores' \in [Node -> Store]
  <2>1. stores[n] \in Store /\ r.committed \in Seq(Committed)
    BY <1>1 DEF TypeOK, RaftState
  <2>. QED BY <1>3, <2>1, ApplyAllType DEF TypeOK
<1>6. waiters' \in [Node -> SUBSET (Nat \X Command)]
  BY <1>2, <1>3 DEF TypeOK
<1>7. outcomes' \in [Command -> Outcome]
  BY <1>3 DEF Outcome
<1>8. links' \in [Node -> [Node -> Seq(Message)]]
  <2>1. PICK up \in SUBSET {p \in Node : r.outgoing[p] # <<>>} :
            links' = [net EXCEPT ![n] =
                        [p \in Node |->
                            IF p \in up
                            THEN @[p] \o fill_snapshots(r.outgoing[p], stores[n])
                            ELSE @[p]]]
    BY <1>3
  <2>2. \A p \in Node : r.outgoing[p] \in Seq(Message)
    BY <1>1 DEF RaftState
  <2>3. \A p \in Node : fill_snapshots(r.outgoing[p], stores[n]) \in Seq(Message)
    BY <2>2, FillType DEF TypeOK
  <2>4. \A p \in Node : net[n][p] \o fill_snapshots(r.outgoing[p], stores[n]) \in Seq(Message)
    BY <2>3, ConcatProperties
  <2>. QED BY <2>1, <2>4
<1>9. /\ grants' \subseteq Node \X Nat \X Node /\ heard' \subseteq Node \X Nat
      /\ elected' \subseteq Nat \X Node
  <2>1. r.current_term \in Nat /\ r.voted_for \in Node \cup {None}
    BY <1>1 DEF RaftState
  <2>2. grants' \subseteq Node \X Nat \X Node
    <3>1. ASSUME NEW c \in {r.voted_for} \ {None}
          PROVE  <<n, r.current_term, c>> \in Node \X Nat \X Node
      BY <2>1
    <3>. QED BY <1>3, <3>1 DEF TypeOK
  <2>3. heard' \subseteq Node \X Nat
    BY <1>3, <2>1 DEF TypeOK
  <2>4. elected' \subseteq Nat \X Node
    BY <1>3, <2>1 DEF TypeOK
  <2>. QED BY <2>2, <2>3, <2>4
<1>10. applied' \subseteq Nat \X Command
  <2>1. ASSUME NEW i \in commands(r.committed)
        PROVE  r.committed[i].index \in Nat /\ r.committed[i].command \in Command
    <3>0. r.committed \in Seq(Committed)
      BY <1>1 DEF RaftState
    <3>1. r.committed[i] \in Committed /\ r.committed[i].kind = "Command"
      BY <3>0 DEF commands
    <3>. QED BY <3>1 DEF Committed
  <2>. QED BY <1>3, <2>1 DEF TypeOK
<1>11. lapses' \subseteq Lapse
  BY <1>3 DEF TypeOK, Lapse
<1>. QED BY <1>4, <1>5, <1>6, <1>7, <1>8, <1>9, <1>10, <1>11 DEF TypeOK

\* The election timer draws natural numbers.
LEMMA TimeoutType == Timeout \subseteq Nat
BY RaftAssumption DEF Timeout

\* Every node starts well formed.
LEMMA NewType ==
    ASSUME NEW t \in Nat
    PROVE  new(t) \in RaftState
<1>1. EmptyLog \in Log /\ <<>> \in Seq(Message) /\ <<>> \in Seq(Committed) /\ {} \in SUBSET Node
  BY EmptyLogType
<1>2. [p \in Node |-> 1] \in [Node -> Nat \ {0}]
  OBVIOUS
<1>. QED BY <1>1, <1>2 DEF new, RaftState, Role

\* The cluster starts well typed.
LEMMA InitType == Init => TypeOK
<1>. SUFFICES ASSUME Init PROVE TypeOK
  OBVIOUS
<1>1. nodes \in [Node -> RaftState]
  BY TimeoutType, NewType DEF Init
<1>2. stores \in [Node -> Store]
  BY DEF Init, EmptyStore, Store
<1>3. links \in [Node -> [Node -> Seq(Message)]]
  <2>1. <<>> \in Seq(Message)
    OBVIOUS
  <2>. QED BY <2>1 DEF Init
<1>4. waiters \in [Node -> SUBSET (Nat \X Command)] /\ outcomes \in [Command -> Outcome]
  BY DEF Init, Outcome
<1>. QED BY <1>1, <1>2, <1>3, <1>4 DEF Init, TypeOK

\* Every turn of a driver keeps the types.
LEMMA NextType == TypeOK /\ [Next]_vars => TypeOK'
<1>. SUFFICES ASSUME TypeOK, [Next]_vars PROVE TypeOK'
  OBVIOUS
<1>1. ASSUME NEW n \in Node, Tick(n) PROVE TypeOK'
  <2>1. PICK t \in Timeout :
          LET s == tick(n, nodes[n], t)
          IN process_ready(n, IF s.current_term <= MaxTerm THEN s ELSE nodes[n],
                           waiters[n], outcomes, links, {})
    BY <1>1 DEF Tick
  <2>. DEFINE s == tick(n, nodes[n], t)
              x == IF s.current_term <= MaxTerm THEN s ELSE nodes[n]
  <2>2. nodes[n] \in RaftState /\ t \in Nat
    BY TimeoutType DEF TypeOK
  <2>3. x \in RaftState
    BY <2>2, TickType
  <2>4. process_ready(n, x, waiters[n], outcomes, links, {})
    BY <2>1
  <2>. HIDE DEF x
  <2>5. /\ waiters[n] \in SUBSET (Nat \X Command) /\ outcomes \in [Command -> Outcome]
        /\ links \in [Node -> [Node -> Seq(Message)]] /\ {} \in SUBSET Lapse
    BY DEF TypeOK
  <2>. QED BY <2>3, <2>4, <2>5, ProcessReadyType
<1>2. ASSUME NEW n \in Node, NEW p \in Node, Receive(n, p) PROVE TypeOK'
  <2>1. PICK i \in deliverable(links[p][n]), t \in Timeout :
          LET m == links[p][n][i]
          IN process_ready(n, step(n, nodes[n], p, m, t), waiters[n], outcomes,
                           [links EXCEPT ![p][n] = remove(@, i)], lapses_of(n, m))
    BY <1>2 DEF Receive
  <2>. DEFINE q == links[p][n]
              m == q[i]
              s == step(n, nodes[n], p, m, t)
              net == [links EXCEPT ![p][n] = remove(@, i)]
  <2>2. nodes[n] \in RaftState /\ t \in Nat /\ q \in Seq(Message) /\ i \in 1..Len(q)
    BY TimeoutType DEF TypeOK, deliverable
  <2>. HIDE DEF q
  <2>3. m \in Message /\ remove(q, i) \in Seq(Message)
    BY <2>2, RemoveType
  <2>4. s \in RaftState
    BY <2>2, <2>3, StepType
  <2>5. net \in [Node -> [Node -> Seq(Message)]]
    BY <2>3 DEF TypeOK, q
  <2>6. lapses_of(n, m) \in SUBSET Lapse
    BY DEF lapses_of
  <2>7. process_ready(n, s, waiters[n], outcomes, net, lapses_of(n, m))
    BY <2>1 DEF q
  <2>. HIDE DEF s, net, m
  <2>8. waiters[n] \in SUBSET (Nat \X Command) /\ outcomes \in [Command -> Outcome]
    BY DEF TypeOK
  <2>. QED BY <2>4, <2>5, <2>6, <2>7, <2>8, ProcessReadyType
<1>3. ASSUME NEW n \in Node, NEW c \in Command, Propose(n, c) PROVE TypeOK'
  <2>. DEFINE s == propose(n, nodes[n], c)
              ws == waiters[n] \cup {<<last_index(s.log), c>>}
              outs == [outcomes EXCEPT ![c] = "Waiting"]
  <2>1. s \in RaftState
    BY ProposeType DEF TypeOK
  <2>. HIDE DEF s
  <2>2. last_index(s.log) \in Nat
    BY <2>1, LogFields DEF RaftState
  <2>3. ws \in SUBSET (Nat \X Command)
    BY <2>2 DEF TypeOK
  <2>4. outs \in [Command -> Outcome]
    BY DEF TypeOK, Outcome
  <2>5. process_ready(n, s, ws, outs, links, {})
    BY <1>3 DEF Propose, s
  <2>. HIDE DEF ws, outs
  <2>6. links \in [Node -> [Node -> Seq(Message)]] /\ {} \in SUBSET Lapse
    BY DEF TypeOK
  <2>. QED BY <2>1, <2>3, <2>4, <2>5, <2>6, ProcessReadyType
<1>4. ASSUME NEW n \in Node, NEW c \in Command, Redirect(n, c) PROVE TypeOK'
  <2>. DEFINE outs == [outcomes EXCEPT ![c] = "NotLeader"]
  <2>1. outs \in [Command -> Outcome]
    BY DEF TypeOK, Outcome
  <2>2. process_ready(n, nodes[n], waiters[n], outs, links, {})
    BY <1>4 DEF Redirect
  <2>. HIDE DEF outs
  <2>3. /\ nodes[n] \in RaftState /\ waiters[n] \in SUBSET (Nat \X Command)
        /\ links \in [Node -> [Node -> Seq(Message)]] /\ {} \in SUBSET Lapse
    BY DEF TypeOK
  <2>. QED BY <2>1, <2>2, <2>3, ProcessReadyType
<1>5. CASE UNCHANGED vars
  BY <1>5 DEF TypeOK, vars, driver, history
<1>. QED BY <1>1, <1>2, <1>3, <1>4, <1>5 DEF Next

\* Every driver, store, link and history variable keeps its type, whatever the
\* cluster size, the configuration and the bounds.
THEOREM TypeCorrect == Spec => []TypeOK
BY InitType, NextType, PTL DEF Spec

=============================================================================
