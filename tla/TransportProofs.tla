-------------------------- MODULE TransportProofs --------------------------
(***************************************************************************)
(* A peer link implements Link, for any number of frames and faults.       *)
(***************************************************************************)
EXTENDS Transport, SequenceTheorems, TLAPS

\* The conjuncts of FramesInOnePlace, over the state they speak of.
RxOrdered(s, q) == Len(q) <= s /\ \A i \in 1..Len(q) : q[i] = s - Len(q) + i

Behind(k, w, f) == f <= k /\ f # w

InboundOnce(k, w, q) ==
    /\ \A j \in 1..Len(q) : Behind(k, w, q[j])
    /\ \A i, j \in 1..Len(q) : q[i] = q[j] => i = j

\* No payload in flight is in q, or is of a frame that is not behind.
CarriedBehind(cs, k, w, q) ==
    \A c, i, f : carries(cs, c, i, f) => Behind(k, w, f) /\ \A j \in 1..Len(q) : q[j] # f

CarriedOnce(cs) ==
    \A c, d, i, j, f : carries(cs, c, i, f) /\ carries(cs, d, j, f) => c = d /\ i = j

\* What is carried is a frame.
LEMMA CarriedFrame ==
    ASSUME NEW cs \in Seq(Connection), NEW c, NEW i, NEW f, carries(cs, c, i, f)
    PROVE  c \in 1..Len(cs) /\ i \in 1..Len(cs[c].bytes) /\ f \in Frame
<1>1. c \in 1..Len(cs) /\ i \in 1..Len(cs[c].bytes)
  BY DEF carries
<1>2. cs[c] \in Connection
  BY <1>1
<1>3. cs[c].bytes \in Seq(Piece)
  BY <1>2 DEF Connection
<1>4. cs[c].bytes[i] \in Piece
  BY <1>1, <1>3
<1>5. [part |-> "payload", frame |-> f] \in Piece
  BY <1>4 DEF carries
<1>. QED BY <1>1, <1>5 DEF Piece

OnePlace ==
    /\ TransportTypeOK
    /\ RxOrdered(sent, rx)
    /\ writing # 0 => conn # 0 /\ writing = sent - Len(rx)
    /\ InboundOnce(sent - Len(rx), writing, inbound)
    /\ CarriedBehind(conns, sent - Len(rx), writing, inbound)
    /\ CarriedOnce(conns)

\* FramesInOnePlace, in the form the proofs use.
LEMMA OnePlaceParts == FramesInOnePlace <=> OnePlace
<1>1. ASSUME FramesInOnePlace
      PROVE  CarriedBehind(conns, sent - Len(rx), writing, inbound) /\ CarriedOnce(conns)
  <2>1. ASSUME NEW c, NEW i, NEW f, carries(conns, c, i, f)
        PROVE  /\ Behind(sent - Len(rx), writing, f)
               /\ \A j \in 1..Len(inbound) : inbound[j] # f
               /\ \A d \in 1..Len(conns) : \A j \in 1..Len(conns[d].bytes) :
                     carries(conns, d, j, f) => d = c /\ j = i
    <3>1. conns \in Seq(Connection)
      BY <1>1 DEF FramesInOnePlace, TransportTypeOK
    <3>2. c \in 1..Len(conns) /\ i \in 1..Len(conns[c].bytes) /\ f \in Frame
      BY <2>1, <3>1, CarriedFrame
    <3>. QED BY <1>1, <2>1, <3>2 DEF FramesInOnePlace, passed, Behind
  <2>2. CarriedBehind(conns, sent - Len(rx), writing, inbound)
    BY <2>1 DEF CarriedBehind
  <2>3. CarriedOnce(conns)
    <3>. SUFFICES ASSUME NEW c, NEW d, NEW i, NEW j, NEW f,
                         carries(conns, c, i, f), carries(conns, d, j, f)
                  PROVE  c = d /\ i = j
      BY DEF CarriedOnce
    <3>1. d \in 1..Len(conns) /\ j \in 1..Len(conns[d].bytes)
      BY DEF carries
    <3>. QED BY <2>1, <3>1
  <2>. QED BY <2>2, <2>3
<1>2. ASSUME CarriedBehind(conns, sent - Len(rx), writing, inbound), CarriedOnce(conns),
             NEW c \in 1..Len(conns), NEW i \in 1..Len(conns[c].bytes), NEW f \in Frame,
             carries(conns, c, i, f)
      PROVE  /\ passed(f)
             /\ \A j \in 1..Len(inbound) : inbound[j] # f
             /\ \A d \in 1..Len(conns) : \A j \in 1..Len(conns[d].bytes) :
                   carries(conns, d, j, f) => d = c /\ j = i
  BY <1>2 DEF CarriedBehind, CarriedOnce, passed, Behind
<1>3. (\A j \in 1..Len(inbound) : passed(inbound[j]))
        /\ (\A i, j \in 1..Len(inbound) : inbound[i] = inbound[j] => i = j)
      <=> InboundOnce(sent - Len(rx), writing, inbound)
  BY DEF InboundOnce, passed, Behind
<1>. QED BY <1>1, <1>2, <1>3 DEF FramesInOnePlace, OnePlace, RxOrdered

-----------------------------------------------------------------------------
(* What the steps do to the payloads in flight *)

\* Every payload of cs2 is one of cs, in the same place.
Within(cs2, cs) == \A d, i, f : carries(cs2, d, i, f) => carries(cs, d, i, f)

\* A step after which no payload is anywhere new keeps each one in one place.
LEMMA WithinKeeps ==
    ASSUME NEW cs, NEW cs2, Within(cs2, cs), NEW k, NEW w, NEW q,
           CarriedBehind(cs, k, w, q), CarriedOnce(cs)
    PROVE  CarriedBehind(cs2, k, w, q) /\ CarriedOnce(cs2)
<1>1. ASSUME NEW c, NEW i, NEW f, carries(cs2, c, i, f) PROVE carries(cs, c, i, f)
  BY <1>1 DEF Within
<1>2. CarriedBehind(cs2, k, w, q)
  <2>1. ASSUME NEW c, NEW i, NEW f, carries(cs2, c, i, f)
        PROVE  Behind(k, w, f) /\ \A j \in 1..Len(q) : q[j] # f
    BY <1>1, <2>1, Zenon DEF CarriedBehind
  <2>. QED BY <2>1 DEF CarriedBehind
<1>3. CarriedOnce(cs2)
  <2>1. ASSUME NEW c, NEW d, NEW i, NEW j, NEW f,
               carries(cs2, c, i, f), carries(cs2, d, j, f)
        PROVE  c = d /\ i = j
    BY <1>1, <2>1, Zenon DEF CarriedOnce
  <2>. QED BY <2>1 DEF CarriedOnce
<1>. QED BY <1>2, <1>3

\* A new connection carries nothing.
LEMMA FreshWithin ==
    ASSUME NEW cs \in Seq(Connection)
    PROVE  Append(cs, Fresh) \in Seq(Connection) /\ Within(Append(cs, Fresh), cs)
<1>1. Fresh \in Connection
  BY DEF Fresh, Connection
<1>2. /\ Append(cs, Fresh) \in Seq(Connection) /\ Len(Append(cs, Fresh)) = Len(cs) + 1
      /\ \A d \in 1..Len(cs) : Append(cs, Fresh)[d] = cs[d]
      /\ Append(cs, Fresh)[Len(cs) + 1] = Fresh
  BY <1>1, AppendProperties
<1>3. ASSUME NEW d, NEW i, NEW f, carries(Append(cs, Fresh), d, i, f)
      PROVE  carries(cs, d, i, f)
  <2>1. d \in 1..Len(cs) + 1 /\ i \in 1..Len(Append(cs, Fresh)[d].bytes)
    BY <1>2, <1>3 DEF carries
  <2>2. CASE d = Len(cs) + 1
    <3>1. i \in 1..Len(<<>>)
      BY <1>2, <2>1, <2>2 DEF Fresh
    <3>. QED BY <3>1
  <2>3. CASE d # Len(cs) + 1
    <3>1. d \in 1..Len(cs)
      BY <2>1, <2>3
    <3>. QED BY <1>2, <1>3, <3>1 DEF carries
  <2>. QED BY <2>2, <2>3
<1>. QED BY <1>2, <1>3 DEF Within

\* Connection c of cs2 has other bytes than in cs, and perhaps another state.
OtherBytes(cs2, cs, c, bytes) ==
    /\ cs2 \in Seq(Connection) /\ Len(cs2) = Len(cs)
    /\ \A d \in 1..Len(cs) : d # c => cs2[d] = cs[d]
    /\ cs2[c].bytes = bytes

\* Changing one connection of a sequence of them changes the others' bytes not at all.
LEMMA UpdateBytes ==
    ASSUME NEW cs \in Seq(Connection), NEW c \in 1..Len(cs), NEW x \in Connection
    PROVE  OtherBytes([cs EXCEPT ![c] = x], cs, c, x.bytes)
<1>. DEFINE cs2 == [cs EXCEPT ![c] = x]
<1>1. cs \in [1..Len(cs) -> Connection] /\ Len(cs) \in Nat
  OBVIOUS
<1>2. cs2 \in [1..Len(cs) -> Connection] /\ cs2[c] = x
  BY <1>1
<1>3. \A d \in 1..Len(cs) : d # c => cs2[d] = cs[d]
  BY <1>1
<1>. HIDE DEF cs2
<1>4. cs2 \in Seq(Connection) /\ Len(cs2) = Len(cs)
  BY <1>1, <1>2
<1>. QED BY <1>2, <1>3, <1>4 DEF OtherBytes, cs2

\* What writing a piece makes of a connection.
LEMMA WrittenBytes ==
    ASSUME NEW c \in Connection, NEW p \in Piece
    PROVE  /\ written(c, p) \in Connection
           /\ written(c, p).bytes = IF c.broken THEN c.bytes ELSE Append(c.bytes, p)
<1>1. /\ c.bytes \in Seq(Piece) /\ c.begun \in SUBSET Frame /\ c.broken \in BOOLEAN
      /\ p.frame \in Frame
  BY DEF Connection, Piece
<1>. DEFINE b == IF c.broken THEN c.bytes ELSE Append(c.bytes, p)
            g == c.begun \cup {p.frame}
<1>2. b \in Seq(Piece) /\ g \in SUBSET Frame
  BY <1>1
<1>3. written(c, p) = [[c EXCEPT !.bytes = b] EXCEPT !.begun = g]
  BY DEF written, Connection
<1>. HIDE DEF b, g
<1>4. /\ [[c EXCEPT !.bytes = b] EXCEPT !.begun = g] \in Connection
      /\ [[c EXCEPT !.bytes = b] EXCEPT !.begun = g].bytes = b
  BY <1>2 DEF Connection
<1>. QED BY <1>3, <1>4 DEF b

\* What a connection carries when it has lost the end of its bytes, or nothing.
LEMMA PrefixWithin ==
    ASSUME NEW cs \in Seq(Connection), NEW c \in 1..Len(cs), NEW cs2,
           NEW k \in 0..Len(cs[c].bytes), OtherBytes(cs2, cs, c, SubSeq(cs[c].bytes, 1, k))
    PROVE  Within(cs2, cs)
<1>0. cs[c] \in Connection
  OBVIOUS
<1>1. cs[c].bytes \in Seq(Piece)
  BY <1>0 DEF Connection
<1>2. /\ Len(SubSeq(cs[c].bytes, 1, k)) = k
      /\ \A i \in 1..k : SubSeq(cs[c].bytes, 1, k)[i] = cs[c].bytes[i]
  BY <1>1
<1>3. ASSUME NEW d, NEW i, NEW f, carries(cs2, d, i, f) PROVE carries(cs, d, i, f)
  <2>1. CASE d = c
    <3>1. i \in 1..k /\ cs2[c].bytes[i] = cs[c].bytes[i]
      BY <1>2, <1>3, <2>1 DEF carries, OtherBytes
    <3>2. i \in 1..Len(cs[c].bytes)
      BY <1>1, <3>1
    <3>. QED BY <1>3, <2>1, <3>1, <3>2 DEF carries
  <2>2. CASE d # c
    BY <1>3, <2>2 DEF carries, OtherBytes
  <2>. QED BY <2>1, <2>2
<1>. QED BY <1>3 DEF Within

\* What a connection carries when its bytes are the same.
LEMMA SameWithin ==
    ASSUME NEW cs \in Seq(Connection), NEW c \in 1..Len(cs), NEW cs2,
           OtherBytes(cs2, cs, c, cs[c].bytes)
    PROVE  Within(cs2, cs)
BY DEF Within, carries, OtherBytes

\* Where the payloads are when the reader of c has taken a piece.
LEMMA TailCarries ==
    ASSUME NEW cs \in Seq(Connection), NEW c \in 1..Len(cs), NEW cs2,
           cs[c].bytes # <<>>, OtherBytes(cs2, cs, c, Tail(cs[c].bytes)),
           NEW d, NEW i, NEW f, carries(cs2, d, i, f)
    PROVE  i \in Nat \ {0} /\ carries(cs, d, IF d = c THEN i + 1 ELSE i, f)
<1>0. cs[c] \in Connection
  OBVIOUS
<1>1. cs[c].bytes \in Seq(Piece)
  BY <1>0 DEF Connection
<1>. DEFINE b == cs[c].bytes
<1>. HIDE DEF b
<1>2. /\ Len(Tail(b)) = Len(b) - 1 /\ Len(b) \in Nat
      /\ \A j \in 1..Len(b) - 1 : Tail(b)[j] = b[j + 1]
  BY <1>1 DEF b
<1>3. CASE d = c
  <2>1. i \in 1..Len(b) - 1 /\ Tail(b)[i] = [part |-> "payload", frame |-> f]
    BY <1>2, <1>3 DEF carries, OtherBytes, b
  <2>2. i + 1 \in 1..Len(b) /\ b[i + 1] = [part |-> "payload", frame |-> f] /\ i \in Nat \ {0}
    BY <1>2, <2>1
  <2>. QED BY <1>3, <2>2 DEF carries, b
<1>4. CASE d # c
  <2>1. d \in 1..Len(cs) /\ cs2[d] = cs[d]
    BY <1>4 DEF carries, OtherBytes
  <2>2. cs[d] \in Connection
    BY <2>1
  <2>3. cs[d].bytes \in Seq(Piece)
    BY <2>2 DEF Connection
  <2>4. i \in 1..Len(cs[d].bytes) /\ carries(cs, d, i, f)
    BY <2>1 DEF carries
  <2>. QED BY <1>4, <2>3, <2>4
<1>. QED BY <1>3, <1>4

\* Taking a piece keeps every payload in one place, and the piece is in none.
LEMMA TailKeeps ==
    ASSUME NEW cs \in Seq(Connection), NEW c \in 1..Len(cs), NEW cs2,
           cs[c].bytes # <<>>, OtherBytes(cs2, cs, c, Tail(cs[c].bytes)),
           NEW k, NEW w, NEW q, CarriedBehind(cs, k, w, q), CarriedOnce(cs)
    PROVE  /\ CarriedBehind(cs2, k, w, q) /\ CarriedOnce(cs2)
           /\ \A f : carries(cs, c, 1, f) => \A d, i : ~carries(cs2, d, i, f)
<1>1. ASSUME NEW d, NEW i, NEW f, carries(cs2, d, i, f)
      PROVE  i \in Nat \ {0} /\ carries(cs, d, IF d = c THEN i + 1 ELSE i, f)
  BY <1>1, TailCarries
<1>2. CarriedBehind(cs2, k, w, q)
  <2>1. ASSUME NEW d, NEW i, NEW f, carries(cs2, d, i, f)
        PROVE  Behind(k, w, f) /\ \A j \in 1..Len(q) : q[j] # f
    BY <1>1, <2>1, Zenon DEF CarriedBehind
  <2>. QED BY <2>1 DEF CarriedBehind
<1>3. CarriedOnce(cs2)
  <2>1. ASSUME NEW d, NEW e, NEW i, NEW j, NEW f,
               carries(cs2, d, i, f), carries(cs2, e, j, f)
        PROVE  d = e /\ i = j
    <3>. DEFINE i1 == IF d = c THEN i + 1 ELSE i
                j1 == IF e = c THEN j + 1 ELSE j
    <3>1. i \in Nat /\ j \in Nat /\ carries(cs, d, i1, f) /\ carries(cs, e, j1, f)
      BY <1>1, <2>1
    <3>. HIDE DEF i1, j1
    <3>2. d = e /\ i1 = j1
      BY <3>1, Zenon DEF CarriedOnce
    <3>. QED BY <3>1, <3>2 DEF i1, j1
  <2>. QED BY <2>1 DEF CarriedOnce
<1>4. ASSUME NEW f, carries(cs, c, 1, f), NEW d, NEW i, carries(cs2, d, i, f) PROVE FALSE
  <2>. DEFINE i1 == IF d = c THEN i + 1 ELSE i
  <2>1. i \in Nat \ {0} /\ carries(cs, d, i1, f)
    BY <1>1, <1>4
  <2>. HIDE DEF i1
  <2>2. d = c /\ i1 = 1
    BY <1>4, <2>1, Zenon DEF CarriedOnce
  <2>. QED BY <2>1, <2>2 DEF i1
<1>. QED BY <1>2, <1>3, <1>4

\* Where the payloads are when a piece was written to c.
LEMMA AppendCarries ==
    ASSUME NEW cs \in Seq(Connection), NEW c \in 1..Len(cs), NEW cs2, NEW p \in Piece,
           OtherBytes(cs2, cs, c, Append(cs[c].bytes, p)),
           NEW d, NEW i, NEW f, carries(cs2, d, i, f)
    PROVE  \/ carries(cs, d, i, f)
           \/ /\ d = c /\ i = Len(cs[c].bytes) + 1
              /\ p = [part |-> "payload", frame |-> f]
<1>0. cs[c] \in Connection
  OBVIOUS
<1>1. cs[c].bytes \in Seq(Piece)
  BY <1>0 DEF Connection
<1>. DEFINE b == cs[c].bytes
<1>. HIDE DEF b
<1>2. /\ Len(Append(b, p)) = Len(b) + 1 /\ Len(b) \in Nat
      /\ \A j \in 1..Len(b) : Append(b, p)[j] = b[j]
      /\ Append(b, p)[Len(b) + 1] = p
  BY <1>1, AppendProperties DEF b
<1>3. CASE d = c
  <2>1. i \in 1..Len(b) + 1 /\ Append(b, p)[i] = [part |-> "payload", frame |-> f]
    BY <1>2, <1>3 DEF carries, OtherBytes, b
  <2>2. CASE i = Len(b) + 1
    BY <1>2, <1>3, <2>1, <2>2 DEF b
  <2>3. CASE i # Len(b) + 1
    <3>1. i \in 1..Len(b) /\ b[i] = [part |-> "payload", frame |-> f]
      BY <1>2, <2>1, <2>3
    <3>. QED BY <1>3, <3>1 DEF carries, b
  <2>. QED BY <2>2, <2>3
<1>4. CASE d # c
  BY <1>4 DEF carries, OtherBytes
<1>. QED BY <1>3, <1>4

\* Writing the payload of the frame at hand keeps every payload in one place.
LEMMA AppendKeeps ==
    ASSUME NEW cs \in Seq(Connection), NEW c \in 1..Len(cs), NEW cs2, NEW w \in Frame,
           OtherBytes(cs2, cs, c, Append(cs[c].bytes, [part |-> "payload", frame |-> w])),
           NEW q \in Seq(Frame), InboundOnce(w, w, q),
           CarriedBehind(cs, w, w, q), CarriedOnce(cs)
    PROVE  CarriedBehind(cs2, w, 0, q) /\ CarriedOnce(cs2)
<1>. DEFINE p == [part |-> "payload", frame |-> w]
            New(d, i) == d = c /\ i = Len(cs[c].bytes) + 1
<1>1. p \in Piece
  BY DEF Piece
<1>2. ASSUME NEW d, NEW i, NEW f, carries(cs2, d, i, f)
      PROVE  f \in Frame /\ (carries(cs, d, i, f) \/ (New(d, i) /\ f = w))
  <2>1. carries(cs, d, i, f) \/ (New(d, i) /\ p = [part |-> "payload", frame |-> f])
    BY <1>1, <1>2, AppendCarries
  <2>2. p = [part |-> "payload", frame |-> f] => f = w
    OBVIOUS
  <2>. QED BY <2>1, <2>2, CarriedFrame
<1>3. \A d, i : ~carries(cs, d, i, w)
  BY DEF CarriedBehind, Behind
<1>4. CarriedBehind(cs2, w, 0, q)
  <2>1. ASSUME NEW d, NEW i, NEW f, carries(cs2, d, i, f)
        PROVE  Behind(w, 0, f) /\ \A j \in 1..Len(q) : q[j] # f
    <3>1. f \in Frame /\ f # 0 /\ (carries(cs, d, i, f) \/ f = w)
      BY <1>2, <2>1 DEF Frame
    <3>2. CASE f = w
      BY <3>1, <3>2 DEF InboundOnce, Behind, Frame
    <3>3. CASE carries(cs, d, i, f)
      BY <3>1, <3>3 DEF CarriedBehind, Behind
    <3>. QED BY <3>1, <3>2, <3>3
  <2>. QED BY <2>1 DEF CarriedBehind
<1>5. CarriedOnce(cs2)
  <2>1. ASSUME NEW d, NEW e, NEW i, NEW j, NEW f,
               carries(cs2, d, i, f), carries(cs2, e, j, f)
        PROVE  d = e /\ i = j
    <3>1. /\ carries(cs, d, i, f) \/ (New(d, i) /\ f = w)
          /\ carries(cs, e, j, f) \/ (New(e, j) /\ f = w)
      BY <1>2, <2>1
    <3>2. CASE f = w
      BY <1>3, <3>1, <3>2
    <3>3. CASE f # w
      <4>1. carries(cs, d, i, f) /\ carries(cs, e, j, f)
        BY <3>1, <3>3
      <4>. QED BY <4>1, Zenon DEF CarriedOnce
    <3>. QED BY <3>2, <3>3
  <2>. QED BY <2>1 DEF CarriedOnce
<1>. QED BY <1>4, <1>5

\* A piece that is no payload adds none.
LEMMA LengthWithin ==
    ASSUME NEW cs \in Seq(Connection), NEW c \in 1..Len(cs), NEW cs2, NEW w \in Frame,
           OtherBytes(cs2, cs, c, Append(cs[c].bytes, [part |-> "len", frame |-> w]))
    PROVE  Within(cs2, cs)
<1>. DEFINE p == [part |-> "len", frame |-> w]
<1>1. p \in Piece /\ \A f : p # [part |-> "payload", frame |-> f]
  BY DEF Piece
<1>. HIDE DEF p
<1>2. OtherBytes(cs2, cs, c, Append(cs[c].bytes, p))
  BY DEF p
<1>3. ASSUME NEW d, NEW i, NEW f, carries(cs2, d, i, f) PROVE carries(cs, d, i, f)
  BY <1>1, <1>2, <1>3, AppendCarries
<1>. QED BY <1>3 DEF Within

-----------------------------------------------------------------------------
(* The frames under way *)

Under(q, w, n, cs) ==
    ToSet(q) \cup ({w} \ {0}) \cup ToSet(n) \cup UNION {payloads(cs[c]) : c \in DOMAIN cs}

In(q, f) == \E i \in 1..Len(q) : q[i] = f
Carried(cs, f) == \E c, i : carries(cs, c, i, f)
Placed(q, w, n, cs, f) == In(q, f) \/ (f = w /\ f # 0) \/ In(n, f) \/ Carried(cs, f)

\* A frame is under way in the channel, at the writer, in flight or inbound.
LEMMA UnderMember ==
    ASSUME NEW q \in Seq(Frame), NEW w, NEW n \in Seq(Frame), NEW cs \in Seq(Connection), NEW f
    PROVE  f \in Under(q, w, n, cs) <=> Placed(q, w, n, cs, f)
<1>1. /\ f \in ToSet(q) <=> \E i \in 1..Len(q) : q[i] = f
      /\ f \in ToSet(n) <=> \E i \in 1..Len(n) : n[i] = f
  BY DEF ToSet
<1>2. \A c \in 1..Len(cs) : f \in payloads(cs[c]) <=> \E i : carries(cs, c, i, f)
  <2>. SUFFICES ASSUME NEW c \in 1..Len(cs)
                PROVE  f \in payloads(cs[c]) <=> \E i : carries(cs, c, i, f)
    OBVIOUS
  <2>1. cs[c] \in Connection
    OBVIOUS
  <2>2. cs[c].bytes \in Seq(Piece)
    BY <2>1 DEF Connection
  <2>. DEFINE b == cs[c].bytes
  <2>. HIDE DEF b
  <2>3. DOMAIN b = 1..Len(b) /\ \A i \in 1..Len(b) : b[i] \in Piece
    BY <2>2 DEF b
  <2>4. f \in payloads(cs[c]) <=> \E i \in 1..Len(b) : b[i].part = "payload" /\ b[i].frame = f
    BY <2>3 DEF payloads, ToSet, b
  <2>5. \A i \in 1..Len(b) : b[i].part = "payload" /\ b[i].frame = f
                               <=> b[i] = [part |-> "payload", frame |-> f]
    BY <2>3 DEF Piece
  <2>. QED BY <2>4, <2>5 DEF carries, b
<1>3. DOMAIN cs = 1..Len(cs)
  OBVIOUS
<1>4. f \in UNION {payloads(cs[c]) : c \in DOMAIN cs} <=> \E c, i : carries(cs, c, i, f)
  BY <1>2, <1>3 DEF carries
<1>. QED BY <1>1, <1>4 DEF Under, Placed, In, Carried

\* The frames under way.
LEMMA UnderwayNow ==
    ASSUME TransportTypeOK, NEW f
    PROVE  f \in underway <=> Placed(rx, writing, inbound, conns, f)
<1>1. underway = Under(rx, writing, inbound, conns)
  BY DEF underway, Under
<1>2. rx \in Seq(Frame) /\ inbound \in Seq(Frame) /\ conns \in Seq(Connection)
  BY DEF TransportTypeOK
<1>. QED BY <1>1, <1>2, UnderMember

\* The frames under way after a step.
LEMMA UnderwayThen ==
    ASSUME TransportTypeOK', NEW f
    PROVE  f \in underway' <=> Placed(rx', writing', inbound', conns', f)
<1>1. underway' = Under(rx', writing', inbound', conns')
  BY DEF underway, Under
<1>2. rx' \in Seq(Frame) /\ inbound' \in Seq(Frame) /\ conns' \in Seq(Connection)
  BY DEF TransportTypeOK
<1>. QED BY <1>1, <1>2, UnderMember

-----------------------------------------------------------------------------
(* The steps.  Each keeps OnePlace, and is a step of Link or none. *)

Loses == underway' \in SUBSET underway /\ UNCHANGED <<sent, arrived>>

\* Peers::send puts one more frame under way.
LEMMA SendStep ==
    ASSUME OnePlace, Send
    PROVE  /\ OnePlace'
           /\ sent' = sent + 1 /\ underway' = underway \cup {sent + 1} /\ UNCHANGED arrived
<1>1. /\ sent \in Nat /\ rx \in Seq(Frame) /\ inbound \in Seq(Frame)
      /\ conns \in Seq(Connection) /\ Len(rx) \in Nat /\ Len(rx) <= sent
  BY DEF OnePlace, TransportTypeOK, RxOrdered
<1>2. sent + 1 \in Frame
  BY TransportAssumption DEF OnePlace, TransportTypeOK, Send, Frame
<1>3. /\ rx' \in Seq(Frame) /\ Len(rx') = Len(rx) + 1
      /\ \A i \in 1..Len(rx) : rx'[i] = rx[i]
      /\ rx'[Len(rx) + 1] = sent + 1
  BY <1>1, <1>2, AppendProperties DEF Send
<1>4. sent' = sent + 1 /\ UNCHANGED <<conn, writing, conns, reachable, inbound, arrived, faults>>
  BY DEF Send
<1>5. sent' - Len(rx') = sent - Len(rx)
  BY <1>1, <1>3, <1>4
<1>6. RxOrdered(sent', rx')
  <2>1. ASSUME NEW i \in 1..Len(rx') PROVE rx'[i] = sent' - Len(rx') + i
    <3>1. CASE i \in 1..Len(rx)
      BY <1>1, <1>3, <1>5, <3>1 DEF OnePlace, RxOrdered
    <3>2. CASE i = Len(rx) + 1
      BY <1>1, <1>3, <1>4, <3>2
    <3>. QED BY <1>1, <1>3, <3>1, <3>2
  <2>. QED BY <1>1, <1>3, <1>4, <2>1 DEF RxOrdered
<1>7. TransportTypeOK'
  BY <1>1, <1>2, <1>3, <1>4 DEF OnePlace, TransportTypeOK, Frame
<1>8. OnePlace'
  BY <1>4, <1>5, <1>6, <1>7 DEF OnePlace
<1>9. ASSUME NEW f PROVE f \in underway' <=> f \in underway \/ f = sent + 1
  <2>1. In(rx', f) => In(rx, f) \/ f = sent + 1
    <3>1. ASSUME NEW i \in 1..Len(rx'), rx'[i] = f PROVE In(rx, f) \/ f = sent + 1
      <4>1. i \in 1..Len(rx) \/ i = Len(rx) + 1
        BY <1>1, <1>3
      <4>. QED BY <1>3, <3>1, <4>1 DEF In
    <3>. QED BY <3>1 DEF In
  <2>2. In(rx, f) \/ f = sent + 1 => In(rx', f)
    <3>1. \A i \in 1..Len(rx) : i \in 1..Len(rx') /\ rx'[i] = rx[i]
      BY <1>1, <1>3
    <3>2. Len(rx) + 1 \in 1..Len(rx')
      BY <1>1, <1>3
    <3>. QED BY <1>3, <3>1, <3>2 DEF In
  <2>3. TransportTypeOK
    BY DEF OnePlace
  <2>4. f \in underway <=> Placed(rx, writing, inbound, conns, f)
    BY <2>3, UnderwayNow
  <2>5. f \in underway' <=> Placed(rx', writing, inbound, conns, f)
    BY <1>4, <1>7, UnderwayThen
  <2>. QED BY <2>1, <2>2, <2>4, <2>5 DEF Placed
<1>. QED BY <1>4, <1>8, <1>9

\* peer_link takes a frame: it is at the writer now, or lost.
LEMMA TakeStep ==
    ASSUME OnePlace, Take
    PROVE  OnePlace' /\ Loses
<1>1. /\ sent \in Nat /\ rx \in Seq(Frame) /\ inbound \in Seq(Frame) /\ rx # <<>>
      /\ conns \in Seq(Connection) /\ Len(rx) \in Nat /\ Len(rx) <= sent /\ writing = 0
      /\ conn \in 0..Len(conns)
  BY DEF OnePlace, TransportTypeOK, RxOrdered, Take
<1>2. /\ rx' = Tail(rx) /\ rx' \in Seq(Frame) /\ Len(rx') = Len(rx) - 1 /\ Head(rx) = rx[1]
      /\ Head(rx) \in Frame /\ \A i \in 1..Len(rx) - 1 : rx'[i] = rx[i + 1]
  BY <1>1 DEF Take, take
<1>3. UNCHANGED <<sent, reachable, inbound, arrived, faults>>
  BY DEF Take
<1>4. \/ UNCHANGED <<conn, writing, conns>>
      \/ /\ writing' = Head(rx)
         /\ \/ conns' = Append(conns, Fresh) /\ conn' = Len(conns')
            \/ conn # 0 /\ UNCHANGED <<conn, conns>>
  BY DEF Take, take
<1>5. /\ conns' \in Seq(Connection) /\ Within(conns', conns) /\ conn' \in 0..Len(conns')
      /\ writing' # 0 => writing' = Head(rx) /\ conn' # 0
  <2>1. CASE UNCHANGED <<conn, conns>>
    BY <1>1, <1>4, <2>1 DEF Within
  <2>2. CASE conns' = Append(conns, Fresh) /\ conn' = Len(conns') /\ writing' = Head(rx)
    <3>1. conns' \in Seq(Connection) /\ Within(conns', conns)
      BY <1>1, <2>2, FreshWithin
    <3>2. Len(conns') = Len(conns) + 1 /\ Len(conns) \in Nat
      BY <1>1, <2>2
    <3>. QED BY <2>2, <3>1, <3>2
  <2>. QED BY <1>4, <2>1, <2>2
<1>6. sent' - Len(rx') = (sent - Len(rx)) + 1 /\ Head(rx) = sent' - Len(rx') /\ Len(rx') \in Nat
  BY <1>1, <1>2, <1>3 DEF OnePlace, RxOrdered
<1>7. RxOrdered(sent', rx')
  <2>1. ASSUME NEW i \in 1..Len(rx') PROVE rx'[i] = sent' - Len(rx') + i
    <3>1. i + 1 \in 1..Len(rx) /\ i \in 1..Len(rx) - 1
      BY <1>1, <1>2
    <3>2. rx'[i] = sent - Len(rx) + (i + 1)
      BY <1>2, <3>1 DEF OnePlace, RxOrdered
    <3>. QED BY <1>1, <1>2, <1>3, <3>1, <3>2
  <2>. QED BY <1>1, <1>2, <1>3, <1>6, <2>1 DEF RxOrdered
<1>. DEFINE k == sent - Len(rx)
<1>8. ASSUME NEW f \in Int, Behind(k, 0, f) PROVE Behind(k + 1, writing', f)
  <2>1. k \in Int /\ f <= k /\ f # 0 /\ (writing' # 0 => writing' = k + 1)
    BY <1>1, <1>3, <1>5, <1>6, <1>8 DEF Behind
  <2>. QED BY <2>1 DEF Behind
<1>9. InboundOnce(sent' - Len(rx'), writing', inbound')
  <2>1. InboundOnce(k, 0, inbound) /\ \A j \in 1..Len(inbound) : inbound[j] \in Int
    <3>1. InboundOnce(k, 0, inbound)
      BY <1>1 DEF OnePlace
    <3>2. \A j \in 1..Len(inbound) : inbound[j] \in Frame
      BY <1>1
    <3>. QED BY <3>1, <3>2 DEF Frame
  <2>. HIDE DEF k
  <2>2. InboundOnce(k + 1, writing', inbound)
    BY <1>8, <2>1 DEF InboundOnce
  <2>. QED BY <1>3, <1>6, <2>2 DEF k
<1>10. CarriedBehind(conns', sent' - Len(rx'), writing', inbound') /\ CarriedOnce(conns')
  <2>1. CarriedBehind(conns', k, 0, inbound) /\ CarriedOnce(conns')
    BY <1>1, <1>5, WithinKeeps DEF OnePlace
  <2>. HIDE DEF k
  <2>2. ASSUME NEW c, NEW i, NEW f, carries(conns', c, i, f)
        PROVE  Behind(k + 1, writing', f) /\ \A j \in 1..Len(inbound) : inbound[j] # f
    <3>1. f \in Int
      BY <1>5, <2>2, CarriedFrame DEF Frame
    <3>. QED BY <1>8, <2>1, <2>2, <3>1 DEF CarriedBehind
  <2>3. CarriedBehind(conns', k + 1, writing', inbound)
    BY <2>2 DEF CarriedBehind
  <2>. QED BY <1>3, <1>6, <2>1, <2>3 DEF k
<1>11. TransportTypeOK'
  BY <1>1, <1>2, <1>3, <1>4, <1>5 DEF OnePlace, TransportTypeOK
<1>12. OnePlace'
  BY <1>5, <1>6, <1>7, <1>9, <1>10, <1>11 DEF OnePlace
<1>13. ASSUME NEW f, f \in underway' PROVE f \in underway
  <2>1. In(rx', f) => In(rx, f)
    <3>1. \A i \in 1..Len(rx') : i + 1 \in 1..Len(rx) /\ rx'[i] = rx[i + 1]
      BY <1>1, <1>2
    <3>. QED BY <3>1 DEF In
  <2>2. f = writing' /\ f # 0 => In(rx, f)
    <3>1. 1 \in 1..Len(rx)
      BY <1>1
    <3>. QED BY <1>2, <1>5, <3>1 DEF In
  <2>3. Carried(conns', f) => Carried(conns, f)
    BY <1>5 DEF Within, Carried
  <2>4. TransportTypeOK
    BY DEF OnePlace
  <2>5. f \in underway <=> Placed(rx, writing, inbound, conns, f)
    BY <2>4, UnderwayNow
  <2>6. Placed(rx', writing', inbound, conns', f)
    BY <1>3, <1>11, <1>13, UnderwayThen
  <2>. QED BY <2>1, <2>2, <2>3, <2>5, <2>6 DEF Placed
<1>. QED BY <1>3, <1>12, <1>13 DEF Loses

\* A step that leaves the channels alone and adds no payload, and after which the
\* writer has the frame it had or none.
LEMMA WithinStep ==
    ASSUME OnePlace, UNCHANGED <<sent, rx, inbound, arrived>>,
           reachable' \in BOOLEAN, faults' \in 0..MaxFaults,
           conns' \in Seq(Connection), conn' \in 0..Len(conns'), Within(conns', conns),
           writing' = 0 \/ (writing' = writing /\ conn' = conn)
    PROVE  OnePlace' /\ Loses
<1>. DEFINE k == sent - Len(rx)
<1>1. /\ TransportTypeOK /\ inbound \in Seq(Frame) /\ RxOrdered(sent, rx)
      /\ writing # 0 => conn # 0 /\ writing = k
      /\ InboundOnce(k, writing, inbound)
      /\ CarriedBehind(conns, k, writing, inbound) /\ CarriedOnce(conns)
  BY DEF OnePlace, TransportTypeOK
<1>. HIDE DEF k
<1>2. TransportTypeOK'
  BY <1>1 DEF TransportTypeOK
<1>3. CarriedBehind(conns', k, writing, inbound) /\ CarriedOnce(conns')
  BY <1>1, WithinKeeps
<1>4. ASSUME NEW f \in Frame, Behind(k, writing, f) PROVE Behind(k, writing', f)
  BY <1>4 DEF Behind, Frame
<1>5. InboundOnce(k, writing', inbound)
  <2>1. \A j \in 1..Len(inbound) : inbound[j] \in Frame
    BY <1>1
  <2>. QED BY <1>1, <1>4, <2>1 DEF InboundOnce
<1>6. CarriedBehind(conns', k, writing', inbound)
  <2>1. ASSUME NEW c, NEW i, NEW f, carries(conns', c, i, f)
        PROVE  Behind(k, writing', f) /\ \A j \in 1..Len(inbound) : inbound[j] # f
    <3>1. f \in Frame
      BY <2>1, CarriedFrame
    <3>. QED BY <1>3, <1>4, <2>1, <3>1 DEF CarriedBehind
  <2>. QED BY <2>1 DEF CarriedBehind
<1>7. OnePlace'
  BY <1>1, <1>2, <1>3, <1>5, <1>6 DEF OnePlace, k
<1>8. ASSUME NEW f, f \in underway' PROVE f \in underway
  <2>1. Carried(conns', f) => Carried(conns, f)
    BY DEF Within, Carried
  <2>2. f \in underway <=> Placed(rx, writing, inbound, conns, f)
    BY <1>1, UnderwayNow
  <2>3. Placed(rx, writing', inbound, conns', f)
    BY <1>2, <1>8, UnderwayThen
  <2>. QED BY <2>1, <2>2, <2>3 DEF Placed
<1>. QED BY <1>7, <1>8 DEF Loses

\* write_frame writes the length or the payload, to a connection that may be broken.
LEMMA WritePieceStep ==
    ASSUME OnePlace, WritePiece
    PROVE  OnePlace' /\ Loses
<1>1. /\ writing \in Frame /\ writing # 0 /\ writing = sent - Len(rx) /\ conn # 0
      /\ conns \in Seq(Connection) /\ conn \in 1..Len(conns) /\ inbound \in Seq(Frame)
      /\ reachable \in BOOLEAN /\ faults \in 0..MaxFaults /\ Len(conns) \in Nat
  BY DEF WritePiece, OnePlace, TransportTypeOK
<1>2. UNCHANGED <<sent, rx, conn, reachable, inbound, arrived, faults>>
  BY DEF WritePiece
<1>. DEFINE p == [part |-> next_part, frame |-> writing]
            x == written(conns[conn], p)
<1>3. conns' = [conns EXCEPT ![conn] = x] /\ next_part \in {"len", "payload"} /\ p \in Piece
  BY <1>1 DEF WritePiece, next_part, Piece
<1>4. conns[conn] \in Connection
  BY <1>1
<1>5. x \in Connection /\ x.bytes = IF conns[conn].broken THEN conns[conn].bytes
                                    ELSE Append(conns[conn].bytes, p)
  BY <1>3, <1>4, WrittenBytes
<1>. HIDE DEF x
<1>6. OtherBytes(conns', conns, conn, x.bytes)
  BY <1>1, <1>3, <1>5, UpdateBytes
<1>7. conns' \in Seq(Connection) /\ Len(conns') = Len(conns)
  BY <1>6 DEF OtherBytes
<1>8. writing' = writing \/ writing' = 0
  BY DEF WritePiece
<1>9. CASE conns[conn].broken \/ next_part = "len"
  <2>1. Within(conns', conns)
    <3>1. CASE conns[conn].broken
      BY <1>1, <1>5, <1>6, <3>1, SameWithin
    <3>2. CASE ~conns[conn].broken /\ next_part = "len"
      BY <1>1, <1>5, <1>6, <3>2, LengthWithin
    <3>. QED BY <1>9, <3>1, <3>2
  <2>. QED BY <1>1, <1>2, <1>7, <1>8, <2>1, WithinStep
<1>10. CASE ~conns[conn].broken /\ next_part = "payload"
  <2>1. OtherBytes(conns', conns, conn,
                   Append(conns[conn].bytes, [part |-> "payload", frame |-> writing]))
    BY <1>5, <1>6, <1>10
  <2>2. /\ InboundOnce(writing, writing, inbound) /\ CarriedOnce(conns)
        /\ CarriedBehind(conns, writing, writing, inbound)
    BY <1>1 DEF OnePlace
  <2>3. CarriedBehind(conns', writing, 0, inbound) /\ CarriedOnce(conns')
    BY <1>1, <2>1, <2>2, AppendKeeps
  <2>4. InboundOnce(writing, 0, inbound)
    <3>1. \A j \in 1..Len(inbound) : inbound[j] \in Frame
      BY <1>1
    <3>. QED BY <2>2, <3>1 DEF InboundOnce, Behind, Frame
  <2>5. writing' = 0
    BY <1>10 DEF WritePiece
  <2>6. TransportTypeOK'
    BY <1>2, <1>7, <2>5 DEF OnePlace, TransportTypeOK
  <2>7. sent' - Len(rx') = writing /\ RxOrdered(sent', rx')
    BY <1>1, <1>2 DEF OnePlace
  <2>8. OnePlace'
    BY <1>2, <2>3, <2>4, <2>5, <2>6, <2>7 DEF OnePlace
  <2>9. ASSUME NEW f, f \in underway' PROVE f \in underway
    <3>1. TransportTypeOK
      BY DEF OnePlace
    <3>2. f \in underway <=> Placed(rx, writing, inbound, conns, f)
      BY <3>1, UnderwayNow
    <3>3. Placed(rx, 0, inbound, conns', f)
      BY <1>2, <2>5, <2>6, <2>9, UnderwayThen
    <3>4. Carried(conns', f) => Carried(conns, f) \/ f = writing
      <4>1. ASSUME NEW d, NEW i, carries(conns', d, i, f)
            PROVE  carries(conns, d, i, f) \/ f = writing
        <5>1. carries(conns, d, i, f) \/ p = [part |-> "payload", frame |-> f]
          BY <1>1, <1>3, <1>5, <1>6, <1>10, <4>1, AppendCarries
        <5>2. p = [part |-> "payload", frame |-> f] => p.frame = f
          OBVIOUS
        <5>. QED BY <5>1, <5>2
      <4>. QED BY <4>1 DEF Carried
    <3>. QED BY <1>1, <3>2, <3>3, <3>4 DEF Placed
  <2>. QED BY <1>2, <2>8, <2>9 DEF Loses
<1>. QED BY <1>3, <1>9, <1>10

\* write_frame fails: the frame is lost and the connection forgotten.
LEMMA WriteFailsStep ==
    ASSUME OnePlace, WriteFails
    PROVE  OnePlace' /\ Loses
<1>1. /\ conns \in Seq(Connection) /\ conn \in 1..Len(conns) /\ Len(conns) \in Nat
      /\ reachable \in BOOLEAN /\ faults \in 0..MaxFaults
  BY DEF WriteFails, OnePlace, TransportTypeOK
<1>. DEFINE x == [conns[conn] EXCEPT !.told = TRUE]
<1>2. conns[conn] \in Connection
  BY <1>1
<1>3. x \in Connection /\ x.bytes = conns[conn].bytes
  BY <1>2 DEF Connection
<1>4. conns' = [conns EXCEPT ![conn] = x]
  BY DEF WriteFails
<1>. HIDE DEF x
<1>5. OtherBytes(conns', conns, conn, conns[conn].bytes)
  BY <1>1, <1>3, <1>4, UpdateBytes
<1>6. conns' \in Seq(Connection) /\ Len(conns') = Len(conns) /\ Within(conns', conns)
  BY <1>1, <1>5, SameWithin DEF OtherBytes
<1>7. /\ UNCHANGED <<sent, rx, reachable, inbound, arrived, faults>>
      /\ writing' = 0 /\ conn' \in 0..Len(conns')
  BY <1>1, <1>6 DEF WriteFails, forget
<1>. QED BY <1>1, <1>6, <1>7, WithinStep

\* A connection breaks: the frames whose payload was in the lost bytes are lost.
LEMMA BreakStep ==
    ASSUME OnePlace, NEW c \in DOMAIN conns, Break(c)
    PROVE  OnePlace' /\ Loses
<1>1. /\ conns \in Seq(Connection) /\ c \in 1..Len(conns) /\ conn \in 0..Len(conns)
      /\ reachable \in BOOLEAN /\ faults \in 0..MaxFaults
  BY DEF OnePlace, TransportTypeOK
<1>2. conns[c] \in Connection
  BY <1>1
<1>3. conns[c].bytes \in Seq(Piece)
  BY <1>2 DEF Connection
<1>4. PICK k \in 0..Len(conns[c].bytes) :
         conns' = [conns EXCEPT ![c].broken = TRUE, ![c].bytes = SubSeq(@, 1, k)]
  BY DEF Break
<1>. DEFINE b == SubSeq(conns[c].bytes, 1, k)
            x == [conns[c] EXCEPT !.broken = TRUE, !.bytes = b]
<1>5. b \in Seq(Piece)
  BY <1>3
<1>6. conns' = [conns EXCEPT ![c] = x]
  BY <1>1, <1>2, <1>4 DEF Connection
<1>. HIDE DEF b
<1>7. x \in Connection /\ x.bytes = b
  BY <1>2, <1>5 DEF Connection
<1>. HIDE DEF x
<1>8. OtherBytes(conns', conns, c, b)
  BY <1>1, <1>6, <1>7, UpdateBytes
<1>9. conns' \in Seq(Connection) /\ Len(conns') = Len(conns) /\ Within(conns', conns)
  BY <1>1, <1>8, PrefixWithin DEF OtherBytes, b
<1>10. UNCHANGED <<sent, rx, conn, writing, reachable, inbound, arrived>>
  BY DEF Break, link
<1>11. faults' \in 0..MaxFaults
  BY <1>1, TransportAssumption DEF Break
<1>. QED BY <1>1, <1>9, <1>10, <1>11, WithinStep

\* The peer's coming and going moves no frame.
LEMMA ReachStep ==
    ASSUME OnePlace, Unreachable \/ Reachable
    PROVE  OnePlace' /\ Loses
<1>1. conns \in Seq(Connection) /\ conn \in 0..Len(conns) /\ faults \in 0..MaxFaults
  BY DEF OnePlace, TransportTypeOK
<1>2. UNCHANGED <<sent, rx, conn, writing, conns, inbound, arrived>> /\ reachable' \in BOOLEAN
  BY DEF Unreachable, Reachable, link
<1>3. faults' \in 0..MaxFaults
  BY <1>1, TransportAssumption DEF Unreachable, Reachable
<1>4. Within(conns', conns)
  BY <1>2 DEF Within
<1>. QED BY <1>1, <1>2, <1>3, <1>4, WithinStep

\* read_connection returns: nothing was in flight.
LEMMA ReadFailsStep ==
    ASSUME OnePlace, NEW c \in DOMAIN conns, ReadFails(c)
    PROVE  OnePlace' /\ Loses
<1>1. /\ conns \in Seq(Connection) /\ c \in 1..Len(conns) /\ conn \in 0..Len(conns)
      /\ reachable \in BOOLEAN /\ faults \in 0..MaxFaults
  BY DEF OnePlace, TransportTypeOK
<1>. DEFINE x == [conns[c] EXCEPT !.returned = TRUE]
<1>2. conns[c] \in Connection
  BY <1>1
<1>3. x \in Connection /\ x.bytes = conns[c].bytes
  BY <1>2 DEF Connection
<1>4. conns' = [conns EXCEPT ![c] = x]
  BY DEF ReadFails
<1>. HIDE DEF x
<1>5. OtherBytes(conns', conns, c, conns[c].bytes)
  BY <1>1, <1>3, <1>4, UpdateBytes
<1>6. conns' \in Seq(Connection) /\ Len(conns') = Len(conns) /\ Within(conns', conns)
  BY <1>1, <1>5, SameWithin DEF OtherBytes
<1>7. UNCHANGED <<sent, rx, conn, writing, reachable, inbound, arrived, faults>>
  BY DEF ReadFails, link
<1>. QED BY <1>1, <1>6, <1>7, WithinStep

\* A reader takes a piece: a complete frame goes from its connection to the driver.
LEMMA ReadPieceStep ==
    ASSUME OnePlace, NEW c \in DOMAIN conns, ReadPiece(c)
    PROVE  OnePlace' /\ Loses
<1>. DEFINE k == sent - Len(rx)
            p == Head(conns[c].bytes)
            r == IF conns[c].reading = 0 THEN p.frame ELSE 0
            x == [conns[c] EXCEPT !.bytes = Tail(conns[c].bytes), !.reading = r]
<1>1. /\ TransportTypeOK /\ conns \in Seq(Connection) /\ c \in 1..Len(conns)
      /\ inbound \in Seq(Frame) /\ RxOrdered(sent, rx) /\ Len(inbound) \in Nat
      /\ writing # 0 => conn # 0 /\ writing = k
      /\ InboundOnce(k, writing, inbound)
      /\ CarriedBehind(conns, k, writing, inbound) /\ CarriedOnce(conns)
  BY DEF OnePlace, TransportTypeOK
<1>2. conns[c] \in Connection
  BY <1>1
<1>3. conns[c].bytes \in Seq(Piece) /\ conns[c].bytes # <<>> /\ conns[c].reading \in {0} \cup Frame
  BY <1>2 DEF Connection, ReadPiece
<1>4. /\ Tail(conns[c].bytes) \in Seq(Piece) /\ 1 \in 1..Len(conns[c].bytes)
      /\ p = conns[c].bytes[1] /\ p \in Piece
  BY <1>3
<1>5. p.frame \in Frame /\ r \in {0} \cup Frame
  BY <1>4 DEF Piece
<1>6. conns' = [conns EXCEPT ![c] = x]
  BY <1>1, <1>2 DEF ReadPiece, Connection
<1>7. /\ UNCHANGED <<sent, rx, conn, writing, reachable, arrived, faults>>
      /\ \/ inbound' = inbound
         \/ inbound' = Append(inbound, p.frame) /\ p.part = "payload"
  BY DEF ReadPiece, completes, link
<1>. HIDE DEF r
<1>8. x \in Connection /\ x.bytes = Tail(conns[c].bytes)
  BY <1>2, <1>4, <1>5 DEF Connection
<1>. HIDE DEF x
<1>9. OtherBytes(conns', conns, c, Tail(conns[c].bytes))
  BY <1>1, <1>6, <1>8, UpdateBytes
<1>10. conns' \in Seq(Connection) /\ Len(conns') = Len(conns)
  BY <1>9 DEF OtherBytes
<1>. HIDE DEF k
<1>11. /\ CarriedBehind(conns', k, writing, inbound) /\ CarriedOnce(conns')
       /\ \A f : carries(conns, c, 1, f) => \A d, i : ~carries(conns', d, i, f)
  BY <1>1, <1>3, <1>9, TailKeeps
<1>12. ASSUME NEW f, Carried(conns', f) PROVE Carried(conns, f)
  <2>1. PICK d, i : carries(conns', d, i, f)
    BY <1>12 DEF Carried
  <2>2. carries(conns, d, IF d = c THEN i + 1 ELSE i, f)
    BY <1>1, <1>3, <1>9, <2>1, TailCarries
  <2>. QED BY <2>2 DEF Carried
<1>13. CASE inbound' = inbound
  <2>1. TransportTypeOK'
    BY <1>1, <1>7, <1>10, <1>13 DEF TransportTypeOK
  <2>2. OnePlace'
    BY <1>1, <1>7, <1>11, <1>13, <2>1 DEF OnePlace, k
  <2>3. ASSUME NEW f, f \in underway' PROVE f \in underway
    <3>1. f \in underway <=> Placed(rx, writing, inbound, conns, f)
      BY <1>1, UnderwayNow
    <3>2. Placed(rx, writing, inbound, conns', f)
      BY <1>7, <1>13, <2>1, <2>3, UnderwayThen
    <3>. QED BY <1>12, <3>1, <3>2 DEF Placed
  <2>. QED BY <1>7, <2>2, <2>3 DEF Loses
<1>14. CASE inbound' = Append(inbound, p.frame) /\ p.part = "payload"
  <2>. DEFINE f0 == p.frame
  <2>1. p = [part |-> "payload", frame |-> f0]
    BY <1>4, <1>14 DEF Piece
  <2>2. carries(conns, c, 1, f0)
    BY <1>1, <1>4, <2>1 DEF carries
  <2>3. f0 \in Frame /\ inbound' = Append(inbound, f0)
    BY <1>5, <1>14
  <2>. HIDE DEF p, f0
  <2>4. /\ inbound' \in Seq(Frame) /\ Len(inbound') = Len(inbound) + 1
        /\ \A j \in 1..Len(inbound) : inbound'[j] = inbound[j]
        /\ inbound'[Len(inbound) + 1] = f0
    BY <1>1, <2>3, AppendProperties
  <2>5. Behind(k, writing, f0) /\ \A j \in 1..Len(inbound) : inbound[j] # f0
    BY <1>1, <2>2, Zenon DEF CarriedBehind
  <2>6. ASSUME NEW j \in 1..Len(inbound')
        PROVE  \/ j \in 1..Len(inbound) /\ inbound'[j] = inbound[j] /\ inbound[j] # f0
               \/ j = Len(inbound) + 1 /\ inbound'[j] = f0
    <3>1. j \in 1..Len(inbound) \/ j = Len(inbound) + 1
      BY <1>1, <2>4
    <3>. QED BY <2>4, <2>5, <3>1
  <2>7. InboundOnce(k, writing, inbound')
    <3>1. ASSUME NEW j \in 1..Len(inbound') PROVE Behind(k, writing, inbound'[j])
      BY <1>1, <2>5, <2>6 DEF InboundOnce
    <3>2. ASSUME NEW i \in 1..Len(inbound'), NEW j \in 1..Len(inbound'),
                 inbound'[i] = inbound'[j]
          PROVE  i = j
      <4>1. \A m, n \in 1..Len(inbound) : inbound[m] = inbound[n] => m = n
        BY <1>1 DEF InboundOnce
      <4>2. \/ i \in 1..Len(inbound) /\ inbound'[i] = inbound[i] /\ inbound[i] # f0
            \/ i = Len(inbound) + 1 /\ inbound'[i] = f0
        BY <2>6
      <4>3. \/ j \in 1..Len(inbound) /\ inbound'[j] = inbound[j] /\ inbound[j] # f0
            \/ j = Len(inbound) + 1 /\ inbound'[j] = f0
        BY <2>6
      <4>. QED BY <3>2, <4>1, <4>2, <4>3, Zenon
    <3>. QED BY <3>1, <3>2 DEF InboundOnce
  <2>8. CarriedBehind(conns', k, writing, inbound')
    <3>1. ASSUME NEW d, NEW i, NEW f, carries(conns', d, i, f)
          PROVE  Behind(k, writing, f) /\ \A j \in 1..Len(inbound') : inbound'[j] # f
      <4>1. f # f0
        BY <1>11, <2>2, <3>1, Zenon
      <4>2. Behind(k, writing, f) /\ \A j \in 1..Len(inbound) : inbound[j] # f
        BY <1>11, <3>1, Zenon DEF CarriedBehind
      <4>. QED BY <2>6, <4>1, <4>2
    <3>. QED BY <3>1 DEF CarriedBehind
  <2>9. TransportTypeOK'
    BY <1>1, <1>7, <1>10, <2>4 DEF TransportTypeOK
  <2>10. OnePlace'
    BY <1>1, <1>7, <1>11, <2>7, <2>8, <2>9 DEF OnePlace, k
  <2>11. ASSUME NEW f, f \in underway' PROVE f \in underway
    <3>1. f \in underway <=> Placed(rx, writing, inbound, conns, f)
      BY <1>1, UnderwayNow
    <3>2. Placed(rx, writing, inbound', conns', f)
      BY <1>7, <2>9, <2>11, UnderwayThen
    <3>3. In(inbound', f) => In(inbound, f) \/ f = f0
      BY <2>6 DEF In
    <3>4. Carried(conns, f0)
      BY <2>2 DEF Carried
    <3>. QED BY <1>12, <3>1, <3>2, <3>3, <3>4 DEF Placed
  <2>. QED BY <1>7, <2>10, <2>11 DEF Loses
<1>. QED BY <1>7, <1>13, <1>14

\* The driver receives a message: its frame is nowhere any more.
LEMMA ReceiveStep ==
    ASSUME OnePlace, Receive
    PROVE  OnePlace' /\ \E f \in underway : Promised!LinkDeliver(f)
<1>. DEFINE k == sent - Len(rx)
            f0 == Head(inbound)
<1>1. /\ TransportTypeOK /\ inbound \in Seq(Frame) /\ arrived \in Seq(Frame) /\ rx \in Seq(Frame)
      /\ sent \in Nat /\ Len(rx) \in Nat /\ RxOrdered(sent, rx) /\ Len(inbound) \in Nat
      /\ writing # 0 => conn # 0 /\ writing = k
      /\ InboundOnce(k, writing, inbound)
      /\ CarriedBehind(conns, k, writing, inbound) /\ CarriedOnce(conns)
  BY DEF OnePlace, TransportTypeOK
<1>2. /\ inbound # <<>> /\ inbound' = Tail(inbound) /\ arrived' = Append(arrived, f0)
      /\ UNCHANGED <<sent, rx, conn, writing, conns, reachable, faults>>
  BY DEF Receive, link
<1>3. /\ f0 = inbound[1] /\ f0 \in Frame /\ 1 \in 1..Len(inbound)
      /\ inbound' \in Seq(Frame) /\ Len(inbound') = Len(inbound) - 1
      /\ \A j \in 1..Len(inbound) - 1 : inbound'[j] = inbound[j + 1]
  BY <1>1, <1>2
<1>. HIDE DEF f0, k
<1>4. arrived' \in Seq(Frame)
  BY <1>1, <1>2, <1>3, AppendProperties
<1>5. TransportTypeOK'
  BY <1>1, <1>2, <1>3, <1>4 DEF TransportTypeOK
<1>6. ASSUME NEW j \in 1..Len(inbound')
      PROVE  j \in Nat /\ j + 1 \in 1..Len(inbound) /\ inbound'[j] = inbound[j + 1] /\ j + 1 # 1
  BY <1>1, <1>3
<1>7. InboundOnce(k, writing, inbound')
  <2>1. ASSUME NEW j \in 1..Len(inbound') PROVE Behind(k, writing, inbound'[j])
    BY <1>1, <1>6 DEF InboundOnce
  <2>2. ASSUME NEW i \in 1..Len(inbound'), NEW j \in 1..Len(inbound'), inbound'[i] = inbound'[j]
        PROVE  i = j
    <3>1. i + 1 = j + 1
      BY <1>1, <1>6, <2>2 DEF InboundOnce
    <3>2. i \in Nat /\ j \in Nat
      BY <1>6
    <3>. QED BY <3>1, <3>2
  <2>. QED BY <2>1, <2>2 DEF InboundOnce
<1>8. CarriedBehind(conns, k, writing, inbound')
  <2>1. ASSUME NEW d, NEW i, NEW f, carries(conns, d, i, f)
        PROVE  Behind(k, writing, f) /\ \A j \in 1..Len(inbound') : inbound'[j] # f
    <3>1. Behind(k, writing, f) /\ \A j \in 1..Len(inbound) : inbound[j] # f
      BY <1>1, <2>1, Zenon DEF CarriedBehind
    <3>. QED BY <1>6, <3>1
  <2>. QED BY <2>1 DEF CarriedBehind
<1>9. OnePlace'
  BY <1>1, <1>2, <1>5, <1>7, <1>8 DEF OnePlace, k
<1>10. ~Placed(rx, writing, inbound', conns, f0)
  <2>1. Behind(k, writing, f0)
    BY <1>1, <1>3 DEF InboundOnce
  <2>2. ~In(rx, f0)
    <3>1. f0 \in Int /\ f0 <= sent - Len(rx)
      BY <1>3, <2>1 DEF Behind, k, Frame
    <3>2. ASSUME NEW i \in 1..Len(rx) PROVE rx[i] # f0
      BY <1>1, <3>1 DEF RxOrdered
    <3>. QED BY <3>2 DEF In
  <2>3. f0 # writing
    BY <2>1 DEF Behind
  <2>4. ~In(inbound', f0)
    BY <1>1, <1>3, <1>6 DEF In, InboundOnce
  <2>5. ~Carried(conns, f0)
    BY <1>1, <1>3 DEF Carried, CarriedBehind
  <2>. QED BY <2>2, <2>3, <2>4, <2>5 DEF Placed
<1>11. ASSUME NEW f PROVE f \in underway' <=> f \in underway /\ f # f0
  <2>1. f \in underway <=> Placed(rx, writing, inbound, conns, f)
    BY <1>1, UnderwayNow
  <2>2. f \in underway' <=> Placed(rx, writing, inbound', conns, f)
    BY <1>2, <1>5, UnderwayThen
  <2>3. In(inbound', f) => In(inbound, f)
    BY <1>6 DEF In
  <2>4. In(inbound, f) => In(inbound', f) \/ f = f0
    <3>1. ASSUME NEW j \in 1..Len(inbound), j # 1
          PROVE  j - 1 \in 1..Len(inbound') /\ inbound'[j - 1] = inbound[j]
      BY <1>1, <1>3, <3>1
    <3>. QED BY <1>3, <3>1 DEF In
  <2>. QED BY <1>10, <2>1, <2>2, <2>3, <2>4 DEF Placed
<1>12. f0 \in underway
  BY <1>1, <1>3, UnderwayNow DEF Placed, In
<1>13. underway' = underway \ {f0}
  BY <1>11
<1>. QED BY <1>2, <1>9, <1>12, <1>13 DEF Promised!LinkDeliver

-----------------------------------------------------------------------------
\* A link starts with nothing under way.
LEMMA InitialPlaces == ASSUME TransportInit PROVE OnePlace /\ Promised!LinkInit
<1>1. /\ sent = 0 /\ rx = <<>> /\ conn = 0 /\ writing = 0 /\ conns = <<>>
      /\ reachable = TRUE /\ inbound = <<>> /\ arrived = <<>> /\ faults = 0
  BY DEF TransportInit
<1>2. TransportTypeOK
  BY <1>1, TransportAssumption DEF TransportTypeOK
<1>3. Len(rx) = 0 /\ Len(inbound) = 0 /\ Len(conns) = 0
  BY <1>1
<1>4. \A c, i, f : ~carries(conns, c, i, f)
  BY <1>3 DEF carries
<1>5. RxOrdered(sent, rx) /\ InboundOnce(sent - Len(rx), writing, inbound)
  BY <1>1, <1>3 DEF RxOrdered, InboundOnce
<1>6. CarriedBehind(conns, sent - Len(rx), writing, inbound) /\ CarriedOnce(conns)
  BY <1>4 DEF CarriedBehind, CarriedOnce
<1>7. ASSUME NEW f PROVE f \notin underway
  <2>1. f \in underway <=> Placed(rx, writing, inbound, conns, f)
    BY <1>2, UnderwayNow
  <2>. QED BY <1>1, <1>3, <1>4, <2>1 DEF Placed, In, Carried
<1>. QED BY <1>1, <1>2, <1>5, <1>6, <1>7 DEF OnePlace, Promised!LinkInit

\* Every step keeps each frame in one place, and is a step of Link or none.
LEMMA TransportStep ==
    ASSUME OnePlace, [TransportNext]_transportVars
    PROVE  OnePlace' /\ [Promised!LinkNext]_(Promised!linkVars)
<1>1. CASE Send
  BY <1>1, SendStep DEF Promised!LinkNext, Promised!LinkSend
<1>2. CASE Receive
  BY <1>2, ReceiveStep DEF Promised!LinkNext
<1>3. ASSUME OnePlace' /\ Loses PROVE OnePlace' /\ [Promised!LinkNext]_(Promised!linkVars)
  BY <1>3 DEF Loses, Promised!LinkNext, Promised!LinkLose
<1>4. CASE Take
  BY <1>3, <1>4, TakeStep
<1>5. CASE Write
  BY <1>3, <1>5, WritePieceStep, WriteFailsStep DEF Write
<1>6. ASSUME NEW c \in DOMAIN conns, Read(c) \/ Break(c)
      PROVE  OnePlace' /\ [Promised!LinkNext]_(Promised!linkVars)
  BY <1>3, <1>6, ReadPieceStep, ReadFailsStep, BreakStep DEF Read
<1>7. CASE Unreachable \/ Reachable
  BY <1>3, <1>7, ReachStep
<1>8. CASE UNCHANGED transportVars
  <2>1. UNCHANGED <<sent, rx, conn, writing, conns, reachable, inbound, arrived, faults>>
    BY <1>8 DEF transportVars, link
  <2>2. OnePlace'
    BY <2>1 DEF OnePlace, TransportTypeOK
  <2>3. underway' = underway
    BY <2>1 DEF underway
  <2>. QED BY <2>1, <2>2, <2>3 DEF Promised!linkVars
<1>. QED BY <1>1, <1>2, <1>4, <1>5, <1>6, <1>7, <1>8 DEF TransportNext

(***************************************************************************)
(* Through any number of breaks, reconnections and failures to connect, a  *)
(* frame is in one place of the link only (peer_link, read_connection).    *)
(***************************************************************************)
THEOREM OneFrameOnePlace == TransportSpec => []FramesInOnePlace
<1>1. TransportInit => OnePlace
  BY InitialPlaces
<1>2. OnePlace /\ [TransportNext]_transportVars => OnePlace'
  BY TransportStep
<1>. QED BY <1>1, <1>2, OnePlaceParts, PTL DEF TransportSpec

(***************************************************************************)
(* The link of src/net/peer.rs implements Link: what the peer's driver     *)
(* receives was sent, and is received at most once.                        *)
(***************************************************************************)
THEOREM LinkImplemented == TransportSpec => ImplementsLink
<1>1. TransportInit => OnePlace /\ Promised!LinkInit
  BY InitialPlaces
<1>2. OnePlace /\ [TransportNext]_transportVars
        => OnePlace' /\ [Promised!LinkNext]_(Promised!linkVars)
  BY TransportStep
<1>. QED BY <1>1, <1>2, PTL DEF TransportSpec, ImplementsLink, Promised!LinkSpec

=============================================================================
