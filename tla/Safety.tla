------------------------------- MODULE Safety -------------------------------
(***************************************************************************)
(* What the cluster promises, as properties of Cluster's states and steps. *)
(*                                                                         *)
(* Properties of the form Orderly => P speak of behaviours in which no     *)
(* lapse (see Cluster) has happened yet; the others speak of all of them.  *)
(***************************************************************************)
EXTENDS Cluster

\* No node has departed from the Raft protocol so far.
Orderly == lapses = {}

IsLeader(n) == nodes[n].role = "Leader"

\* The log keeps command c at index i, or has compacted that index away as applied.
HeldBy(log, i, c) == \/ i <= log.snapshot_index
                     \/ present(log, i) /\ get(log, i).command = c

Holds(n, i, c) == HeldBy(nodes[n].log, i, c)

-----------------------------------------------------------------------------
(* Elections *)

(***************************************************************************)
(* A node votes for one candidate per term (handle_request_vote, and the   *)
(* unit test follower_grants_vote_once_per_term).                          *)
(***************************************************************************)
OneVotePerTerm ==
    \A g, h \in grants : g[1] = h[1] /\ g[2] = h[2] => g[3] = h[3]

(***************************************************************************)
(* What the code does guarantee of elections: two nodes that both led one  *)
(* term share a voter that deferred to a leader of that term.  So only the *)
(* reset of voted_for in become_follower at an equal term can make two     *)
(* leaders; the tally, the vote check and the replies cannot.              *)
(***************************************************************************)
ElectionSafetyUnlessDeferred ==
    \A x, y \in elected :
        x[1] = y[1] /\ x # y =>
            \E v \in Node : /\ <<v, x[1], x[2]>> \in grants
                            /\ <<v, x[1], y[2]>> \in grants
                            /\ <<v, x[1]>> \in heard

\* What a frame on the link from p to q says of p is true, given the votes cast.
Attributed(cast, p, q, m) ==
    /\ m.type \in {"AppendEntries", "InstallSnapshot"} => m.leader_id = p
    /\ m.type = "RequestVote" => m.candidate_id = p
    /\ m.type = "RequestVoteReply" /\ m.vote_granted =>
          m.voter_id = p /\ <<p, m.term, q>> \in cast

FramesTruthful ==
    \A p, q \in Node :
        /\ p = q => links[p][q] = <<>>
        /\ \A i \in 1..Len(links[p][q]) : Attributed(grants, p, q, links[p][q][i])

\* A vote is for the node's present or an earlier term; the vote of the present
\* term is the one remembered, and the only one, unless the node has deferred.
VotesRemembered ==
    \A g \in grants :
        /\ g[2] <= nodes[g[1]].current_term
        /\ <<g[1], g[2]>> \notin heard =>
              /\ g[2] = nodes[g[1]].current_term => nodes[g[1]].voted_for = g[3]
              /\ \A h \in grants : h[1] = g[1] /\ h[2] = g[2] => h[3] = g[3]

TallyTruthful ==
    \A n \in Node :
        nodes[n].role # "Follower" =>
            /\ \A v \in nodes[n].votes : <<v, nodes[n].current_term, n>> \in grants
            /\ IsLeader(n) => Cardinality(nodes[n].votes) >= majority

ElectedByMajority ==
    \A e \in elected :
        \E q \in SUBSET Node : /\ Cardinality(q) >= majority
                               /\ \A v \in q : <<v, e[1], e[2]>> \in grants

OutgoingDrained == \A n \in Node : nodes[n].outgoing = [p \in Node |-> <<>>]

(***************************************************************************)
(* A node's current vote, the votes it has cast, the granted replies still *)
(* in flight and the votes a candidate has counted agree, through every    *)
(* loss, delay and late delivery.  Inductive; implies the previous one.    *)
(***************************************************************************)
ElectionInv ==
    /\ OutgoingDrained /\ FramesTruthful /\ VotesRemembered
    /\ TallyTruthful /\ ElectedByMajority

-----------------------------------------------------------------------------
(* The replicated log *)

\* Log b holds what log a held, and perhaps more, but for a compacted prefix.
OnlyAppended(a, b) ==
    /\ last_index(b) >= last_index(a)
    /\ \A i \in 1..last_index(a) :
          present(a, i) /\ i > b.snapshot_index => get(b, i) = get(a, i)

\* A step in which every node that goes on leading its term only appends.
LeadersOnlyAppend ==
    \A n \in Node :
        (/\ IsLeader(n) /\ nodes'[n].role = "Leader"
         /\ nodes'[n].current_term = nodes[n].current_term)
        => OnlyAppended(nodes[n].log, nodes'[n].log)

(***************************************************************************)
(* While a node leads one term it only appends to its log (propose), and   *)
(* compaction takes entries away only from the front (apply_committed).    *)
(***************************************************************************)
LeaderAppendOnly == [][LeadersOnlyAppend]_vars

(***************************************************************************)
(* If two logs hold an entry of the same term at an index, they agree on   *)
(* every entry up to it that both still hold (splice, matches).            *)
(***************************************************************************)
LogMatching ==
    Orderly =>
        \A n, m \in Node :
            LET a == nodes[n].log
                b == nodes[m].log
                both == {i \in 1..last_index(a) : present(a, i) /\ present(b, i)}
            IN \A i \in both :
                  get(a, i).term = get(b, i).term =>
                      \A j \in both : j <= i => get(a, j) = get(b, j)

(***************************************************************************)
(* The leader of the newest term holds every command any node has applied  *)
(* (candidate_is_up_to_date, and advance_commit's count of a majority).    *)
(***************************************************************************)
LeaderCompleteness ==
    Orderly => \A n \in Node :
                  IsLeader(n) /\ (\A e \in elected : e[1] <= nodes[n].current_term) =>
                      \A x \in applied : Holds(n, x[1], x[2])

(***************************************************************************)
(* An applied command is on a majority of the nodes (advance_commit).      *)
(***************************************************************************)
OnMajority ==
    \A x \in applied : Cardinality({n \in Node : Holds(n, x[1], x[2])}) >= majority

(***************************************************************************)
(* OnMajority, as long as no node has departed from the protocol: a commit *)
(* survives the loss of any minority.                                      *)
(***************************************************************************)
CommittedIsDurable == Orderly => OnMajority

(***************************************************************************)
(* The term a node remembers for its snapshot point is the term any other  *)
(* node that has applied that index knows for it (snapshot_term, as        *)
(* InstallSnapshot carries it to a follower).                              *)
(***************************************************************************)
SnapshotPointsAgree ==
    \A n, m \in Node :
        LET i == nodes[m].log.snapshot_index
        IN i <= nodes[n].last_applied =>
              term_at(nodes[n].log, i) \in {NoTerm, nodes[m].log.snapshot_term}

(***************************************************************************)
(* A command keeps the index at which it was applied in every log that     *)
(* holds it (entries[0] has index snapshot_index + 1).                     *)
(***************************************************************************)
CommandsKeepTheirIndex ==
    \A n \in Node : \A i \in 1..last_index(nodes[n].log) :
        present(nodes[n].log, i) =>
            \A x \in applied : x[2] = get(nodes[n].log, i).command => x[1] = i

-----------------------------------------------------------------------------
(* The state machine *)

(***************************************************************************)
(* Nodes apply one command per index, and no command at two indexes        *)
(* (apply_committed over whatever handle_append_entries let in).           *)
(***************************************************************************)
StateMachineSafety ==
    Orderly => \A x, y \in applied : x[1] = y[1] \/ x[2] = y[2] => x = y

(***************************************************************************)
(* commit_index and last_applied never move backwards as long as no lapse  *)
(* happens: not by a new leader that knows less of what is committed       *)
(* (handle_append_entries), and not by a snapshot that covers the whole    *)
(* log.  handle_install_snapshot assigns both without looking, so one that *)
(* does not moves them back; that step is the lapse discarded_entries, and *)
(* snapshot_discards shows where it leads.                                 *)
(***************************************************************************)
CommitNeverRegresses ==
    [][lapses' = {} => \A n \in Node :
          /\ nodes'[n].commit_index >= nodes[n].commit_index
          /\ nodes'[n].last_applied >= nodes[n].last_applied]_vars

\* The store after the first k applied commands.
Replay(k) ==
    apply_all(EmptyStore,
              [i \in 1..k |-> [kind |-> "Command", index |-> i,
                               command |-> CHOOSE c \in Command : <<i, c>> \in applied]])

(***************************************************************************)
(* A node that has applied as far as any other has the store that the      *)
(* applied commands produce in index order, whether it got there by        *)
(* commands or by a snapshot, whose data may be newer than its index says: *)
(* then the commands that are in it already are applied to it again        *)
(* (fill_snapshot's store is that of the moment the message is sent).      *)
(***************************************************************************)
StoresConverge ==
    Orderly => \A n \in Node :
                  (\A m \in Node : nodes[m].last_applied <= nodes[n].last_applied) =>
                      stores[n] = Replay(nodes[n].last_applied)

-----------------------------------------------------------------------------
(* Clients *)

(***************************************************************************)
(* A client that was told Committed has its command applied somewhere.     *)
(***************************************************************************)
AckedIsCommitted ==
    \A c \in Command : outcomes[c] = "Committed" => \E x \in applied : x[2] = c

\* A step in which whoever a node that leads at its end has answered was told so
\* because its own command was applied.
LeadersAckTruthfully ==
    \A n \in Node : \A w \in waiters[n] \ waiters'[n] :
        nodes'[n].role = "Leader" => outcomes'[w[2]] = "Committed" /\ w \in applied'

(***************************************************************************)
(* What the code does guarantee: a client told Committed by a node that is *)
(* leader at the end of that turn had exactly its command applied at the   *)
(* index propose returned for it (resolve in process_ready).               *)
(***************************************************************************)
AcksTruthfulWhileLeading == [][LeadersAckTruthfully]_vars

(***************************************************************************)
(* Whatever lapses happen, a node that has waiters leads, and its log has  *)
(* each one's command at the waiter's index, or has compacted past it; and *)
(* nothing stays committed and not applied between two turns of the driver *)
(* (waiters, propose and take_ready).  Inductive.                          *)
(***************************************************************************)
WaitersHeld ==
    \A n \in Node :
        /\ nodes[n].committed = <<>>
        /\ \A w \in waiters[n] : /\ IsLeader(n)
                                /\ w[1] <= last_index(nodes[n].log)
                                /\ HeldBy(nodes[n].log, w[1], w[2])

(***************************************************************************)
(* Every waiter is a client still waiting on a leader whose log holds its  *)
(* command, in the leader's term, at the waiter's index: whoever is left   *)
(* behind by a lost leadership has been told so.                           *)
(***************************************************************************)
WaitersAreOwed ==
    Orderly => \A n \in Node : \A w \in waiters[n] :
                  /\ IsLeader(n)
                  /\ outcomes[w[2]] = "Waiting"
                  /\ present(nodes[n].log, w[1])
                  /\ get(nodes[n].log, w[1]) = [term |-> nodes[n].current_term,
                                                command |-> w[2]]

=============================================================================
