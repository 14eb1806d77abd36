----------------------------- MODULE Transport -----------------------------
(***************************************************************************)
(* One peer link of src/net/peer.rs: the channel that Peers::send fills,   *)
(* the peer_link task that empties it onto a connection, the connections   *)
(* themselves (one after another, each with its bytes in flight), and on   *)
(* the other side one read_connection task for each and the channel they   *)
(* share, from which the driver takes its messages.                        *)
(*                                                                         *)
(* A frame is its number in the order of sending.  On a connection it is   *)
(* two pieces, its length and its payload, because the writer awaits       *)
(* between them and the connection can break there.                        *)
(***************************************************************************)
EXTENDS Integers, SequencesExt

CONSTANTS MaxFrames,    \* bound on the frames sent
          MaxFaults     \* bound on connections broken and on failures to connect

ASSUME TransportAssumption == MaxFrames \in Nat /\ MaxFaults \in Nat

VARIABLES sent,         \* the frames handed to Peers::send so far
          rx,           \* the channel of the peer_link task
          conn,         \* its connection, or 0
          writing,      \* the frame it is writing, or 0
          conns,        \* every connection it has made
          reachable,    \* can the peer be connected to?
          inbound,      \* the channel of the peer's driver
          arrived,      \* what that driver has received
          faults        \* how many faults have happened

link == <<rx, conn, writing>>
transportVars == <<sent, link, conns, reachable, inbound, arrived, faults>>

Frame == 1..MaxFrames
Piece == [part : {"len", "payload"}, frame : Frame]

(***************************************************************************)
(* A connection: the pieces in flight, whether it has broken, whether the  *)
(* writer was told so, the frame whose length the reader has read (or 0),  *)
(* whether the reader has returned, and the frames begun on it.            *)
(***************************************************************************)
Connection == [bytes : Seq(Piece), broken : BOOLEAN, told : BOOLEAN,
               reading : {0} \cup Frame, returned : BOOLEAN, begun : SUBSET Frame]

Fresh == [bytes |-> <<>>, broken |-> FALSE, told |-> FALSE,
          reading |-> 0, returned |-> FALSE, begun |-> {}]

TransportTypeOK ==
    /\ sent \in 0..MaxFrames /\ faults \in 0..MaxFaults /\ reachable \in BOOLEAN
    /\ rx \in Seq(Frame) /\ writing \in {0} \cup Frame
    /\ conns \in Seq(Connection) /\ conn \in 0..Len(conns)
    /\ inbound \in Seq(Frame) /\ arrived \in Seq(Frame)

TransportInit ==
    /\ sent = 0 /\ rx = <<>> /\ conn = 0 /\ writing = 0 /\ conns = <<>>
    /\ reachable = TRUE /\ inbound = <<>> /\ arrived = <<>> /\ faults = 0

-----------------------------------------------------------------------------
(* The sending node *)

\* Peers::send never waits: the channel is unbounded.
Send ==
    /\ sent < MaxFrames
    /\ sent' = sent + 1
    /\ rx' = Append(rx, sent + 1)
    /\ UNCHANGED <<conn, writing, conns, reachable, inbound, arrived, faults>>

\* Slip: the frame is kept for another try when the peer cannot be connected to.
take_retrying ==
    IF conn = 0 /\ ~reachable
    THEN UNCHANGED <<link, conns>>
    ELSE /\ rx' = Tail(rx) /\ writing' = Head(rx)
         /\ IF conn = 0
            THEN conns' = Append(conns, Fresh) /\ conn' = Len(conns')
            ELSE UNCHANGED <<conn, conns>>

\* Slip: every frame gets a connection of its own.
take_reconnecting ==
    /\ rx' = Tail(rx)
    /\ IF ~reachable
       THEN conn' = 0 /\ UNCHANGED <<writing, conns>>
       ELSE writing' = Head(rx) /\ conns' = Append(conns, Fresh) /\ conn' = Len(conns')

(***************************************************************************)
(* The task takes a frame and connects if it has to; a frame for a peer    *)
(* that cannot be connected to is dropped, after a pause.                  *)
(***************************************************************************)
take ==
    /\ rx' = Tail(rx)
    /\ IF conn = 0 /\ ~reachable
       THEN UNCHANGED <<conn, writing, conns>>
       ELSE /\ writing' = Head(rx)
            /\ IF conn = 0
               THEN conns' = Append(conns, Fresh) /\ conn' = Len(conns')
               ELSE UNCHANGED <<conn, conns>>

Take ==
    /\ writing = 0 /\ rx # <<>>
    /\ take
    /\ UNCHANGED <<sent, reachable, inbound, arrived, faults>>

\* The part of the frame that write_frame writes next.
next_part == IF writing \in conns[conn].begun THEN "payload" ELSE "len"

\* What is written to a connection that has broken already is lost without an error.
written(c, piece) ==
    [c EXCEPT !.bytes = IF c.broken THEN @ ELSE Append(@, piece),
              !.begun = @ \cup {piece.frame}]

WritePiece ==
    /\ writing # 0
    /\ conns' = [conns EXCEPT ![conn] = written(@, [part |-> next_part, frame |-> writing])]
    /\ writing' = IF next_part = "len" THEN writing ELSE 0
    /\ UNCHANGED <<sent, rx, conn, reachable, inbound, arrived, faults>>

\* Slip: the connection is kept after an error.
forget_nothing == UNCHANGED conn

\* The link forgets a connection on which it got an error.
forget == conn' = 0

\* write_frame returns an error: its frame is dropped, the next one will reconnect.
WriteFails ==
    /\ writing # 0 /\ conns[conn].broken
    /\ conns' = [conns EXCEPT ![conn].told = TRUE]
    /\ forget
    /\ writing' = 0
    /\ UNCHANGED <<sent, rx, reachable, inbound, arrived, faults>>

-----------------------------------------------------------------------------
(* The network *)

\* A connection breaks, and some of the last bytes in flight never arrive.
Break(c) ==
    /\ faults < MaxFaults
    /\ ~conns[c].broken
    /\ \E k \in 0..Len(conns[c].bytes) :
          conns' = [conns EXCEPT ![c].broken = TRUE, ![c].bytes = SubSeq(@, 1, k)]
    /\ faults' = faults + 1
    /\ UNCHANGED <<sent, link, reachable, inbound, arrived>>

\* The peer stops, or starts again, to accept connections.
Unreachable ==
    /\ faults < MaxFaults
    /\ reachable /\ reachable' = FALSE
    /\ faults' = faults + 1
    /\ UNCHANGED <<sent, link, conns, inbound, arrived>>

Reachable ==
    /\ ~reachable /\ reachable' = TRUE
    /\ UNCHANGED <<sent, link, conns, inbound, arrived, faults>>

-----------------------------------------------------------------------------
(* The receiving node *)

\* Slip: what has come of the payload is not waited for to be complete.
completes_early(c, piece) == piece.part = "len"

\* read_frame returns a whole payload, which parses.
completes(c, piece) == c.reading = piece.frame /\ piece.part = "payload"

(***************************************************************************)
(* read_connection takes the next piece: a length says whose payload to    *)
(* read, and a payload that parses goes to the driver.                     *)
(***************************************************************************)
ReadPiece(c) ==
    /\ ~conns[c].returned /\ conns[c].bytes # <<>>
    /\ LET piece == Head(conns[c].bytes)
       IN /\ conns' = [conns EXCEPT ![c].bytes = Tail(@),
                                    ![c].reading = IF @ = 0 THEN piece.frame ELSE 0]
          /\ inbound' = IF completes(conns[c], piece)
                        THEN Append(inbound, piece.frame) ELSE inbound
    /\ UNCHANGED <<sent, link, reachable, arrived, faults>>

\* End of file, between two frames or within one, or an error: the task returns.
ReadFails(c) ==
    /\ ~conns[c].returned /\ conns[c].bytes = <<>> /\ conns[c].broken
    /\ conns' = [conns EXCEPT ![c].returned = TRUE]
    /\ UNCHANGED <<sent, link, reachable, inbound, arrived, faults>>

\* The driver's loop receives a message.
Receive ==
    /\ inbound # <<>>
    /\ arrived' = Append(arrived, Head(inbound))
    /\ inbound' = Tail(inbound)
    /\ UNCHANGED <<sent, link, conns, reachable, faults>>

-----------------------------------------------------------------------------
Write == WritePiece \/ WriteFails
Read(c) == c \in DOMAIN conns /\ (ReadPiece(c) \/ ReadFails(c))

TransportNext ==
    \/ Send \/ Take \/ Write \/ Receive
    \/ \E c \in DOMAIN conns : Read(c) \/ Break(c)
    \/ Unreachable \/ Reachable

(***************************************************************************)
(* Fairness: the runtime polls every task that can go on, and a write, be  *)
(* it to a broken connection, returns in the end.  The network owes        *)
(* nothing, and nobody has to send.                                        *)
(***************************************************************************)
TransportSpec ==
    /\ TransportInit /\ [][TransportNext]_transportVars
    /\ WF_transportVars(Take) /\ WF_transportVars(Write) /\ WF_transportVars(Receive)
    /\ \A c \in 1..MaxFaults + 1 : WF_transportVars(Read(c))

-----------------------------------------------------------------------------
(* Properties *)

payloads(c) == {p.frame : p \in {q \in ToSet(c.bytes) : q.part = "payload"}}

\* The frames that can still arrive.
underway == ToSet(rx) \cup ({writing} \ {0}) \cup ToSet(inbound)
              \cup UNION {payloads(conns[c]) : c \in DOMAIN conns}

\* Connection c has the payload of frame f in flight, as its i-th piece.
carries(cs, c, i, f) ==
    /\ c \in 1..Len(cs) /\ i \in 1..Len(cs[c].bytes)
    /\ cs[c].bytes[i] = [part |-> "payload", frame |-> f]

\* Frame f has left the channel, and the link has done with it.
passed(f) == f <= sent - Len(rx) /\ f # writing

(***************************************************************************)
(* The channel holds the frames last sent, in order; the one being written *)
(* was taken just before them; and an older one is in one place only, be   *)
(* it a connection or the driver's channel.  Inductive.                    *)
(***************************************************************************)
FramesInOnePlace ==
    /\ TransportTypeOK
    /\ Len(rx) <= sent /\ \A i \in 1..Len(rx) : rx[i] = sent - Len(rx) + i
    /\ writing # 0 => conn # 0 /\ writing = sent - Len(rx)
    /\ \A j \in 1..Len(inbound) : passed(inbound[j])
    /\ \A i, j \in 1..Len(inbound) : inbound[i] = inbound[j] => i = j
    /\ \A c \in 1..Len(conns) : \A i \in 1..Len(conns[c].bytes) : \A f \in Frame :
          carries(conns, c, i, f) =>
              /\ passed(f)
              /\ \A j \in 1..Len(inbound) : inbound[j] # f
              /\ \A d \in 1..Len(conns) : \A j \in 1..Len(conns[d].bytes) :
                    carries(conns, d, j, f) => d = c /\ j = i

Promised == INSTANCE Link WITH transit <- underway

(***************************************************************************)
(* peer_link, read_connection and the channels between them implement the  *)
(* link that the Raft core expects, through every break and reconnection:  *)
(* no frame arrives twice, none is torn, and none comes back once lost.    *)
(***************************************************************************)
ImplementsLink == Promised!LinkSpec

(***************************************************************************)
(* A frame is overtaken only by one that went over a later connection,     *)
(* after an error on its own: two read_connection tasks race for the       *)
(* driver's channel then, and never otherwise.                             *)
(***************************************************************************)
OvertakenOnlyByReconnect ==
    \A i, j \in DOMAIN arrived :
        i < j /\ arrived[i] > arrived[j] =>
            \E c, d \in DOMAIN conns : /\ c < d /\ conns[c].told
                                       /\ arrived[j] \in conns[c].begun
                                       /\ arrived[i] \in conns[d].begun

\* The peer accepts connections, and peer_link knows of every break.
Healthy == reachable /\ \A c \in DOMAIN conns : conns[c].broken => conns[c].told

(***************************************************************************)
(* A queued frame arrives, unless a fault happens that peer_link does not  *)
(* know of yet: once told of an error it reconnects, and what is queued    *)
(* behind the frame it lost gets through.                                  *)
(***************************************************************************)
LinkRecovers ==
    \A f \in Frame : (f \in ToSet(rx) /\ Healthy) ~> (f \in ToSet(arrived) \/ ~Healthy)

(***************************************************************************)
(* No frame stays under way for ever, and none blocks those behind it: an  *)
(* unreachable peer costs its frames and nothing else.                     *)
(***************************************************************************)
FramesSettle == \A f \in Frame : (f \in underway) ~> (f \notin underway)

=============================================================================
