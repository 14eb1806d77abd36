# A TLA+ verification of ferrium

ferrium is a key-value store replicated with Raft, written in Rust. This
directory holds TLA+ models of its core, the TLC configurations that
model-check them, and theorems about them checked by TLAPS. Every definition
is translated from the source; `PROJECT.json` maps each one to the lines it
stands for.

## 1. The system and its parts

| Part | Source | What it does | Here |
|---|---|---|---|
| Raft log | `src/raft/log.rs` | entries after a snapshot point, with index arithmetic around it | `RaftLog`, `CompactedLog` |
| Raft core | `src/raft/node.rs`, `state.rs`, `message.rs` | a pure machine: ticks, proposals and messages in, messages and committed commands out | `RaftNode` |
| State machine | `src/apply.rs`, `src/storage/` | SET and DEL on an in-memory map, snapshot and restore | `Storage`, `Batches` |
| Runtime driver | `src/server.rs` | one task per node that owns the core, applies committed commands, answers waiting clients | `Cluster`, `Frontend` |
| Peer transport | `src/net/peer.rs` | one outbound connection per peer, lazily re-established, best effort | `Transport`, `Link`; the links of `Cluster` |
| Client connections | `src/net/client.rs` | one task per connection; writes go to the driver, reads to the local store | `Frontend` |
| RESP2 codec | `src/protocol/resp.rs` | frames out of a buffer that fills in pieces | `Resp` |
| Command parsing | `src/protocol/command.rs`, `src/error.rs` | frames to commands, errors to replies | `ClientCommands` |
| Simulation harness | `src/sim.rs` | lock-step scheduler with crashes and partitions, for tests | `Sim` |
| Metrics | `src/metrics.rs` | counters and gauges | `Frontend` |
| Configuration, entry point | `src/config.rs`, `main.rs`, `lib.rs` | start-up | not modelled: no state of the running system |

TLS and the LSM-tree backend are named by the README of ferrium; the source has
neither.

How the parts interact: the driver takes one event at a time (a tick, a
message, a client request), calls one method of the core, and then runs
`process_ready`, which sends the core's messages, applies its committed
commands to the store, and answers clients. Nothing else touches the core, so
one turn of this loop is the unit of interleaving between nodes. Within a node
the connection tasks run beside the driver and read the store it writes; there
the unit is one item of a batch, and one answer.

The system is modelled in four compositions, each at the grain its questions
need:

    Cluster    nodes, links, writes            RaftNode + Storage, whole turns
    Sim        the harness's rounds            RaftNode + Storage, whole rounds
    Frontend   one node and its clients        RaftNode + Batches + ClientCommands
    Transport  one peer link, piece by piece   (refines Link)

## 2. The modules

- **`RaftLog`**: the log as a record `[entries, snapshot_index,
  snapshot_term]`. Each method of `RaftLog` is an operator of the same name;
  one that changes the log returns the new record. `NoTerm` is the `None` of
  `term_at`.
- **`Storage`**: a store maps every key to a value or `Absent`. `apply` is one
  item of `Ready::committed` (a command or a snapshot); `apply_all` is a whole
  batch in closed form, without recursion, so that theorems can use it. What a
  serialized command decodes to is the constant `Decode`; the log holds only
  what `WriteCommand::encode` produced, so decoding never fails and no command
  is empty.
- **`RaftNode`**: the core. Each method of the Rust type is an operator from
  the node's record to its new record; `timeout` is the value the random
  generator returns if the method resets the election timer. The queue of
  outgoing envelopes is kept per destination, because the order between
  different destinations cannot be observed.
- **`Cluster`**: the composition. Its actions are turns of the driver: `Tick`,
  `Receive`, `Propose` (a write to the leader) and `Redirect` (a write to
  another node). Each contains the whole `process_ready`: sending, applying,
  resolving waiters and failing those that remain once the node does not lead.
  Links lose frames (a failed connection or write), delay them, and with
  `Reorder` deliver them out of order: after a reconnection two
  `read_connection` tasks feed the driver concurrently. Frames are never
  duplicated, because `peer_link` writes each one once.
- **`Safety`**: the properties of `Cluster`.
- **`ReplicatedStore`**: what the cluster promises, without logs, terms or
  messages: one sequence of commands, the store it produces, and replicas that
  follow it. **`Refinement`** maps `Cluster` to it: the chosen commands are
  those applied, the store is that of the node that has applied most.
- **`CompactedLog`**: one log under every sequence of its operations, beside an
  uncompacted reference log. A merge is tried wherever `matches` accepts it,
  also below the snapshot point; one that disagrees with what was compacted
  there sets `shifted`, and the log has no counterpart from then on, until a
  snapshot is installed.
- **`Batches`**: the loop of `process_ready` over committed items, one item at
  a time. `Frontend` contains it; the theorems are about it alone.
- **`Sim`**: `SimCluster::step` is the action `Step`: every live node ticks,
  then every one is drained and applied, then the messages are delivered in the
  order of the bus. `SimPropose`, `Crash`, `Restart`, `Disconnect` and
  `Reconnect` are what a test does between rounds. Of the harness's step counter
  only the parity is kept (`round`), so that a round is always a step.
- **`Link`**: what a node may expect of its link to a peer: a frame may be lost
  or overtaken, but arrives at most once, and only if it was sent.
  **`Transport`**: `Peers::send`, `peer_link`, `read_connection` and the
  channels between them. A frame is its number; on a connection it is two
  pieces, its length and its payload, because `write_frame` awaits between
  them. A connection can break with any suffix of its pieces lost, and what is
  written after that disappears until the writer gets an error.
- **`Resp`**: the codec over a stream of units. A unit is a tag byte, a CR, an
  LF, a space, a numeral or a word; a parser returns a value and a position, or
  `Incomplete`, or `Invalid`, and `Then` is Rust's `?`. **`ClientCommands`**:
  `from_frame` and `assemble`.
- **`Frontend`**: one node as its clients see it. A connection task reads some
  segments of its client's stream (`ReadBuf`), decodes a frame and serves it
  from the store (`ServeLocally`) or sends it to the driver (`AskDriver`),
  writes the reply when the answer is there (`Answered`), or ends (`EndTask`).
  The driver's turn is an event (`Tick`, `Step`, `Propose`, `Redirect`,
  `Status`), then `Apply` and `Resolve` for every committed item, then `EndTurn`
  (`update_metrics`, and the waiters of a lost leadership). The other nodes are
  what their `RaftNode` and driver may send: vote requests, votes and
  acknowledgements (`peer_answers`), entries and heartbeats (`peer_appends`),
  and snapshots (`peer_snapshot`) whose label may lie behind what this node has
  committed, and whose data may be newer than the label. They agree on the
  entries committed anywhere in the cluster (`chosen`), which is what the runs of
  `Cluster` show in the absence of a lapse. History variables: `served`, the
  frames taken from each connection; `trail`, what each client was told of the
  store, with its index; `position` and `reach`, the index the store stands at
  and the one that the newest data in it comes from; `led`, the terms won.
- **`MC*`**: instances for TLC. **`*Proofs`**: theorems.

`Cluster` also has history variables, read by the properties only: the votes
cast (`grants`), who deferred to a leader in which term (`heard`), elections
won (`elected`), commands applied at an index (`applied`), and `lapses`.

### Lapses

In five situations the code departs from the Raft protocol. They
interact: after one of them almost no later guarantee holds. `lapses` records
which of them have happened, so that the properties can say two different
things: what goes wrong after exactly one of them (section 4), and that
everything else is right as long as none has happened (`Orderly`).

| Lapse | What happens | Where |
|---|---|---|
| `revote` | a node grants a second candidate in one term | `become_follower` clears `voted_for` at an equal term (`node.rs:237`) |
| `unverified_tail` | a follower acknowledges entries its leader neither sent nor created | `match_index: last_new_index` (`node.rs:351`) |
| `shifted_entries` | entries below the snapshot point are merged behind it | `matches(0, _)` and `splice` on a compacted log (`log.rs:98`) |
| `discarded_entries` | a snapshot replaces a log that was already ahead of it | `handle_install_snapshot` (`node.rs:486`) |
| `snapshot_term` | a snapshot is shipped under the term of the last entry | `last_included_term: last_term()` (`node.rs:411`) |

Definitions marked "Slip" are deliberate mistakes, used to confirm that the
properties notice the bug a slip of that kind would be.

## 3. Runs that pass

| Run | Instance | Properties | Shows |
|---|---|---|---|
| `leadership` | 1 term, 2 writes, compaction after each, 2 frames, lapses allowed | `TypeOK`, `LeaderAppendOnly`, `AcksTruthfulWhileLeading`, `WaitersHeld`, `ElectionInv`, `ElectionSafetyUnlessDeferred` | votes cast, in flight, counted and remembered agree; two leaders of a term share a voter that deferred; a leader never rewrites its log; what it acknowledges while leading was applied where it promised |
| `replication` | 2 terms, 2 writes and a third past the snapshot point, compaction after two, 1 frame, no lapse | `StateMachineSafety`, `CommittedIsDurable`, `LeaderCompleteness`, `LogMatching`, `WaitersAreOwed`, `StoresConverge`, `CommitNeverRegresses`, `ImplementsReplicatedStore` | Raft's safety argument and the driver's promise to its clients, across a change of leader; catching up by a snapshot newer than its label ends in the same store; the cluster implements `ReplicatedStore` |
| `log` | logs of up to 3 entries, 2 terms, 2 commands | `CompactionTransparent` | compaction cannot be observed through the log's queries, unless a merge has reached below the snapshot point (section 4, `shifted_entries`) |
| `sim` | 3 nodes, 3 terms, 2 writes, compaction after two, 2 faults that may heal | `SimTypeOK`, `IsolatedCannotProgress`, `FollowersCatchUp`, `WritesCommit` | an isolated node is not elected and commits nothing; once a leader reaches a live majority, every live node gets its log and its writes commit |
| `transport` | 4 frames, 3 faults | `FramesInOnePlace`, `OvertakenOnlyByReconnect`, `ImplementsLink`, `LinkRecovers`, `FramesSettle` | no frame is torn, doubled or resurrected; order is lost only across a reconnection after an error; the link gets over every fault it has been told of |
| `clients` | 2 connections, 4 scenarios (below) | `FramesIntact`, `RepliesFit`, `RepliesReadable`, `SessionOrdered`, `InOnePlace`, `ElectionsCounted`, `LastWriterWins`, `SnapshotCatchUp`, `NobodyHangs` | requests cut anywhere are decoded and answered in order; nothing between task and driver is lost or doubled; what a client is told is what the committed commands say, in their order, with three exceptions (below); no client waits for anything but a commit |

Bounds. `MaxTerm` stops candidacies (at the bound an election timer no longer
runs out), `MaxInFlight` limits the frames in flight, and each command is
written once. Two terms are the least in which a leader is deposed and its
entries overwritten; two commands are the least in which an entry can be
replaced by another at the same index, or be left behind a snapshot point. In
`replication` a third command, sent in the first term once two are applied and
with no second term after it (`BoundedNext`), puts a write behind the snapshot
point, so that the store a leader ships can be newer than its label. One frame in flight means that while
a message is on its way no other is: any number of ticks and requests may pass
before it arrives, but exchanges do not overlap; `leadership`, with two frames,
lets them. `SnapshotThreshold` is chosen per run so that compaction happens
early (1), in the middle (2) or never. In the cluster runs the three nodes are
symmetric, and so are the first two writes; the runs with liveness use no symmetry.

What these bounds do not reach. A rejection that arrives in a later term, with
`conflict_index` 0, and a vote reply of an earlier candidacy need two terms and
two frames together: `TypeCorrect` and `ElectionInvariant` (section 5) cover
them. Leadership lost by a message that commits some of the waiting indexes and
not others needs a third write in the second term: `WaitersKept` covers it. That
an entry of an earlier term, committed by counting alone, would be overwritten
takes four terms: the runs do not show that `advance_commit` needs its
current-term rule. `CommittedIsDurable` and the other properties under `Orderly`
stop at the lapse `unverified_tail`, which the run of that name shows.

`replication` explores behaviours of `OrderlySpec`, which stops before a
first lapse; its properties are conditional on `Orderly` too, so nothing is
claimed about what is cut off. The cluster runs that pass deliver each link's
frames in order; the theorems of section 5 also cover links that reorder.

`sim` gives the three nodes one set of different timeouts, as the harness's
seeds do, so that elections are decided; three terms are enough for a leader to
be replaced, come back, and be replaced again; two faults let a minority be cut
off and the leader crash. The properties with `Settled` speak of behaviours in which
a unique leader goes on reaching a live majority: an election need not
come to an end, and a leader whose snapshot is labelled with a wrong term
(section 4, `snapshot_term`) may send it for ever.

`transport` needs two frames for an overtaking and two connections for a race;
three faults are a break, an unreachable peer and another break.

`clients` plays one of four scenarios. `Race`: a SET and a GET on one
connection beside a DEL of the same key on another, two terms, and a write of
another leader. `Pieces`: a SET, as an array whose value is CRLF, and an inline
GET, each unit in a segment of its own so that a read may end anywhere, from a
client that may hang up at any moment. `Odd`: every other command and every
error, in segments that do not end where the requests do, the last of them
malformed, and one an unknown command whose name is CRLF. `Upheaval`: a write
and a read, three terms, so that the node can win twice, and two indexes, with
another leader's write, a stale snapshot and one newer than its label.

`SessionOrdered` relates what a client is told to `chosen`: a GET shows the store
that the chosen commands produce up to `position`, an OK is about the client's
own command, and the index never moves back on a connection. Three things are
not promised, and the property leaves them out: an OK from a node that stopped
leading in that turn (section 4, `early_ack`); whatever was seen before a
snapshot older than the store was installed, after which the store does move
back; and reads while commands are applied again over a snapshot newer than its
label, when a key may show an intermediate value for the second time.

Deadlock is checked except in `transport` and `clients`, where everyone may
stop sending.

### Fairness

- `SimSpec`: rounds go on. The tests call `run` or `run_until` after whatever
  they do, and `step` has no condition. No fault has to heal.
- `TransportSpec`: `peer_link`, each `read_connection` and the receiving driver
  go on when they can (weak fairness: the runtime polls every task that is
  ready). The network owes nothing: connections may stay broken, peers
  unreachable.
- `FrontendSpec`: the driver finishes its turn, and a connection task that can
  go on does (weak); the driver takes requests up if there are any again and
  again (strong, because `tokio::select!` picks among its ready branches at
  random). The peers, the clock and the clients owe nothing; in particular an
  isolated leader need not commit, which is why `NobodyHangs` lets a client wait
  while its write is `Undecided`. The conditions are written out instead of
  with `WF` and `SF`, because evaluating `ENABLED` through the
  decoder takes TLC too long.

## 4. Runs that find a disagreement

Each of these runs allows at most one kind of lapse and checks one property
that a comment, a test or the README of ferrium states. TLC finds a
counterexample; `PROJECT.json` quotes the sentence.

- `double_vote`: a heartbeat of the current term makes a node forget its vote,
  and it grants another candidate of that term.
- `early_ack`: without any lapse, a deposed leader that receives the
  replacement of a client's write together with its commit answers that client
  `Committed`. `process_ready` resolves the index without looking at the term.
- `unverified_tail`: a matching heartbeat makes the follower report an old
  leader's entries; the new leader counts them and commits an entry the
  follower does not hold.
- `snapshot_discards`: a snapshot that was sent before newer entries were
  acknowledged drops them at the follower, and a committed write is left on a
  minority.
- `shifted_entries`: an overtaken AppendEntries with `prev_log_index` 0 reaches
  a compacted follower, and its entries are stored at other indexes.
- `snapshot_term`: a follower remembers a wrong term for its snapshot point.

Other disagreements between the source and its docs have no run:

- The doc comment of `RaftLog::matches` (`log.rs:94`) says that index 0 and the
  snapshot point always match, while the code compares the term at both.
- ferrium's README (line 86) calls reads from the leader linearizable. GET does
  not ask whether the node leads: a deposed leader serves what it had, and a
  fresh leader lacks acknowledged writes until it has committed a write of its
  own term. What does hold is `SessionOrdered`, with its exceptions.
- `WriteCommand::apply` is said to return "the integer reply (e.g. number of
  keys deleted) surfaced to the client" (`apply.rs:32-33`); the driver drops it,
  and every DEL is answered with 1, as a comment in `client.rs:75` admits.
  `RepliesFit` does not judge the number.
- `Error::NotLeader` is said to carry the leader's address (`error.rs:19`); the
  driver puts the leader's id there. `RepliesFit` does not judge which of them
  follows MOVED.
- `Error::client_message` is said to be "the single-line message sent to clients
  in a RESP error frame" (`error.rs:38`). The text of `UnknownCommand` quotes the
  name as it was sent, and `encode` does not escape it: a name with a line
  separator in it ends the frame early. `RepliesReadable` says what holds up to
  such a reply.
- `log_len` is said to be the number of entries in memory (`metrics.rs:31`);
  `update_metrics` stores the last log index, which also counts what was
  compacted.
- `not_leader_total` counts "client requests rejected because this node isn't
  the leader" (`metrics.rs:21`), but not those that fail when leadership is
  lost.
- The test `minority_partition_cannot_make_progress` states what
  `IsolatedCannotProgress` checks, but the property has an exception: after an
  `unverified_tail` acknowledgement a leader may be credited with entries it
  does not have yet, and commits its next write alone.

## 5. What is proved

The theorems hold for every value of the constants, from the named assumptions
`StorageAssumption`, `RaftAssumption`, `ClusterAssumption` and
`TransportAssumption`: the set of nodes is finite, not empty and does not
contain `None`; every command decodes to a write; timeouts are an interval of
naturals; the bounds are naturals. TLC evaluates them in every run.

- **`TypeCorrect`** (`ClusterProofs`): `Spec => []TypeOK`. One lemma per
  operator of the log (`RaftLogProofs`), the store (`StorageProofs`) and the
  core (`RaftNodeProofs`), then one step per turn of the driver. `next_index`
  has type `Nat \ {0}`, so the theorem includes that `next - 1` in
  `send_append` never wraps around.
- **`ElectionInvariant`** (`ElectionProofs`): `Spec => []ElectionInv`. Election
  safety alone is not inductive: a granted reply in flight says nothing about
  the voter unless the frames are known to be truthful, and a tally says
  nothing unless the votes in it were cast. The inductive invariant is that
  outgoing queues are empty between turns, frames say the truth about their
  sender, the vote of the present term is remembered unless the node has
  deferred, tallies contain only votes cast, and every election was won by a
  majority of votes cast. The proof describes the effect of a core method on a
  ballot by one predicate, `Turn`; every method is shown to make a `Turn`, and
  `process_ready` to keep the invariant after any `Turn`.
- **`ElectionSafe`**: `Spec => []ElectionSafetyUnlessDeferred`, by the
  intersection of majorities (`QuorumsIntersect`). Together with `double_vote`
  it says that the reset of `voted_for` at an equal term is the only thing that
  stands between this code and one leader per term.
- **`LeadersAppend`** (`LeaderProofs`): `Spec => LeaderAppendOnly`. Only
  `handle_append_entries` and `handle_install_snapshot` rewrite a log, and both
  leave the node a follower; `propose` appends, `compact` keeps every entry
  above the new snapshot point.
- **`WaitersKept`**: `Spec => []WaitersHeld`, and **`LeadersAck`**:
  `Spec => AcksTruthfulWhileLeading`. That a leader's acknowledgement is about
  the client's own command needs to know where that command is before it is
  committed: `WaitersHeld` says that a node with waiters leads, that nothing is
  committed and not handed over between turns, and that the log has each
  waiter's command at its index. It is inductive because a node that goes on
  leading only appends (`Steady`), and one that stops fails its waiters in the
  same turn. No assumption about lapses is made, so this promise survives all
  five of them; `early_ack` shows why it ends with the leadership.
- **`OneFrameOnePlace`** and **`LinkImplemented`** (`TransportProofs`):
  `TransportSpec => []FramesInOnePlace` and `TransportSpec => ImplementsLink`.
  The frames that can still arrive are those in the channel, the one being
  written, the payloads in flight and the driver's channel. A delivery of
  `Link` removes its frame from transit, so the refinement needs that a frame
  is in one of these places only; that in turn needs the order of the channel
  and that the frame being written was the last one taken. With this invariant
  every action is a send (`Send`), a delivery (`Receive`), a loss (`Take` from
  an unreachable peer, `WriteFails`, `Break`, a write to a broken connection, a
  payload that does not follow its length) or a stutter.
- **`BatchIsLoop`** and **`CatchUpConverges`** (`BatchesProofs`): for batches
  of any length, the closed form `apply_all` is what the loop computes, and a
  store is unchanged by applying the tail of its last batch again. This is why
  a snapshot taken later than its `last_included_index` says is harmless.

Only model-checked: the properties conditional on `Orderly` and the refinement
of `ReplicatedStore` (they need the whole Raft induction),
`CompactionTransparent` (its reference is a fold), the properties of `Sim` and,
but for the two of `Batches`, of `Frontend` (its decoder is recursive), and
`OvertakenOnlyByReconnect`. Liveness and `ENABLED` are outside the prover.

## 6. Not modelled

- **Loss of state.** The source keeps term, vote and log in memory, so a
  process that restarts has forgotten its vote and what it acknowledged. There
  is no recovery code to model; the harness's restart, which keeps the state,
  is in `Sim`.
- **Configuration and start-up** (`config.rs`, `main.rs`), the metrics endpoint
  (`serve_metrics`, `probe`, `render`), the shutdown on Ctrl-C: they change no
  state of the running system.
- **Time.** Ticks are steps; the 50 ms back-off of `peer_link` is not measured.
  Its channel is unbounded, and grows while a peer is unreachable if frames are
  added faster than one per attempt; the model does not say how fast.
- **Sizes.** A frame of 4 GiB or more is written under a truncated length
  (`payload.len() as u32`); payloads have no size here.
- **A DEL of several keys** is one step; the code removes the keys one after
  another, and a GET in between sees some of them.
- **Bytes.** The codec works on units, not bytes: invalid UTF-8, numbers that
  overflow and the letters of a fixed error text are not told apart. JSON is a total
  inverse pair, because what is decoded was encoded by the same code.
- **A driver that is gone.** The error paths of `Handle::propose` and
  `Handle::status` need the driver's task to end before the process does, and it
  does not. `DriverMsg::Peer` is handled but nobody sends it: messages come by
  the inbound channel.
- **In `Frontend`**, peers hold the entries committed in the cluster and at most
  one more; other lapses than a snapshot under a wrong term, or an old one, are
  the subject of `Cluster`.

Next steps a reader may want: log matching and leader completeness as theorems
for orderly behaviours, which would make the refinement of `ReplicatedStore`
provable, and a cluster whose nodes serve reads, against a linearizable
register.
