--------------------------- MODULE StorageProofs ---------------------------
(***************************************************************************)
(* Facts about the state machine: stores stay stores, and a batch applied  *)
(* in one step gives each key what the last item touching it writes.       *)
(***************************************************************************)
EXTENDS Storage, RaftLogProofs

\* restore builds a store from the pairs of a snapshot.
LEMMA RestoreType ==
    ASSUME NEW entries \in SUBSET KeyValue
    PROVE  restore(entries) \in Store
<1>1. ASSUME NEW k \in Key, \E e \in entries : e[1] = k
      PROVE  (CHOOSE e \in entries : e[1] = k)[2] \in Value
  <2>1. (CHOOSE e \in entries : e[1] = k) \in entries
    BY <1>1
  <2>. QED BY <2>1 DEF KeyValue
<1>. QED BY <1>1 DEF restore, Store

\* A snapshot lists pairs of a key and a value.
LEMMA SnapshotType ==
    ASSUME NEW store \in Store
    PROVE  snapshot(store) \in SUBSET KeyValue
BY DEF snapshot, Store, KeyValue

\* Applying a committed item keeps the store a store.
LEMMA ApplyType ==
    ASSUME NEW store \in Store, NEW item \in Committed
    PROVE  apply(store, item) \in Store
<1>1. CASE item.kind = "Snapshot"
  <2>1. item.data \in SUBSET KeyValue
    BY <1>1 DEF Committed
  <2>. QED BY <1>1, <2>1, RestoreType DEF apply
<1>2. CASE item.kind # "Snapshot"
  <2>. DEFINE cmd == Decode[item.command]
  <2>1. item.command \in Command
    BY <1>2 DEF Committed
  <2>2. cmd \in WriteCommand
    BY <2>1, StorageAssumption
  <2>. HIDE DEF cmd
  <2>3. CASE cmd.op = "Set"
    <3>1. cmd.key \in Key /\ cmd.value \in Value
      BY <2>2, <2>3 DEF WriteCommand
    <3>2. apply(store, item) = [store EXCEPT ![cmd.key] = cmd.value]
      BY <1>2, <2>3 DEF apply, cmd
    <3>. QED BY <3>1, <3>2 DEF Store
  <2>4. CASE cmd.op # "Set"
    <3>1. apply(store, item) = [k \in Key |-> IF k \in cmd.keys THEN Absent ELSE store[k]]
      BY <1>2, <2>4 DEF apply, cmd
    <3>. QED BY <3>1 DEF Store
  <2>. QED BY <2>3, <2>4
<1>. QED BY <1>1, <1>2

\* The loop of process_ready over a batch keeps the store a store.
LEMMA ApplyAllType ==
    ASSUME NEW store \in Store, NEW batch \in Seq(Committed)
    PROVE  apply_all(store, batch) \in Store
<1>. DEFINE touching(k) == {i \in 1..Len(batch) : touches(batch[i], k)}
<1>1. ASSUME NEW k \in Key, touching(k) # {}
      PROVE  apply(store, batch[Max(touching(k))])[k] \in Value \cup {Absent}
  <2>1. Len(batch) \in Nat
    OBVIOUS
  <2>2. touching(k) \in SUBSET Nat /\ \A x \in touching(k) : x <= Len(batch)
    BY <2>1
  <2>. HIDE DEF touching
  <2>3. Max(touching(k)) \in touching(k)
    BY <1>1, <2>1, <2>2, MaxProperty
  <2>4. Max(touching(k)) \in 1..Len(batch)
    BY <2>3 DEF touching
  <2>5. batch[Max(touching(k))] \in Committed
    BY <2>4
  <2>6. apply(store, batch[Max(touching(k))]) \in Store
    BY <2>5, ApplyType
  <2>. QED BY <2>6 DEF Store
<1>2. apply_all(store, batch) =
        [k \in Key |-> IF touching(k) = {} THEN store[k]
                       ELSE apply(store, batch[Max(touching(k))])[k]]
  BY DEF apply_all
<1>. HIDE DEF touching
<1>. QED BY <1>1, <1>2 DEF Store

\* An item writes the keys it touches without reading the store.
LEMMA TouchedKeys ==
    ASSUME NEW s \in Store, NEW r \in Store, NEW item \in Committed, NEW k \in Key,
           touches(item, k)
    PROVE  apply(s, item)[k] = apply(r, item)[k]
<1>1. CASE item.kind = "Snapshot"
  BY <1>1 DEF apply
<1>2. CASE item.kind # "Snapshot"
  <2>. DEFINE cmd == Decode[item.command]
  <2>1. item.command \in Command
    BY <1>2 DEF Committed
  <2>2. cmd \in WriteCommand
    BY <2>1, StorageAssumption
  <2>3. \/ cmd.op = "Set" /\ cmd.key = k
        \/ cmd.op = "Del" /\ k \in cmd.keys
    BY <1>2 DEF touches
  <2>4. \A x : apply(x, item) =
                 IF cmd.op = "Set" THEN [x EXCEPT ![cmd.key] = cmd.value]
                 ELSE [j \in Key |-> IF j \in cmd.keys THEN Absent ELSE x[j]]
    BY <1>2 DEF apply
  <2>. HIDE DEF cmd
  <2>. QED BY <2>3, <2>4 DEF Store
<1>. QED BY <1>1, <1>2

\* An item leaves the keys it does not touch alone.
LEMMA UntouchedKeys ==
    ASSUME NEW s \in Store, NEW item \in Committed, NEW k \in Key, ~touches(item, k)
    PROVE  apply(s, item)[k] = s[k]
<1>1. item.kind = "Command"
  BY DEF Committed, touches
<1>. DEFINE cmd == Decode[item.command]
<1>2. item.command \in Command
  BY <1>1 DEF Committed
<1>3. cmd \in WriteCommand
  BY <1>2, StorageAssumption
<1>4. ~(cmd.op = "Set" /\ cmd.key = k) /\ ~(cmd.op = "Del" /\ k \in cmd.keys)
  BY <1>1 DEF touches
<1>5. apply(s, item) = IF cmd.op = "Set" THEN [s EXCEPT ![cmd.key] = cmd.value]
                       ELSE [j \in Key |-> IF j \in cmd.keys THEN Absent ELSE s[j]]
  BY <1>1 DEF apply
<1>. HIDE DEF cmd
<1>6. CASE cmd.op = "Set"
  BY <1>4, <1>5, <1>6 DEF Store
<1>7. CASE cmd.op # "Set"
  <2>1. cmd.op = "Del"
    BY <1>3, <1>7 DEF WriteCommand
  <2>. QED BY <1>4, <1>5, <2>1 DEF Store
<1>. QED BY <1>6, <1>7

\* The positions of a batch that touch a key.
Touching(batch, k) == {i \in 1..Len(batch) : touches(batch[i], k)}

\* The last item of a batch that touches a key is one of its items.
LEMMA LastTouching ==
    ASSUME NEW batch \in Seq(Committed), NEW k, Touching(batch, k) # {}
    PROVE  /\ Max(Touching(batch, k)) \in Touching(batch, k)
           /\ \A i \in Touching(batch, k) : i <= Max(Touching(batch, k))
<1>1. Len(batch) \in Nat
  OBVIOUS
<1>2. Touching(batch, k) \in SUBSET Nat /\ \A x \in Touching(batch, k) : x <= Len(batch)
  BY <1>1 DEF Touching
<1>. QED BY <1>1, <1>2, MaxProperty

\* Any position that touches the key and that no later position follows is the last.
LEMMA LastTouchingIs ==
    ASSUME NEW batch \in Seq(Committed), NEW k, NEW i \in Touching(batch, k),
           \A j \in Touching(batch, k) : j <= i
    PROVE  Max(Touching(batch, k)) = i
<1>1. Max(Touching(batch, k)) \in Touching(batch, k) /\ i <= Max(Touching(batch, k))
  BY LastTouching
<1>2. Touching(batch, k) \subseteq Nat
  BY DEF Touching
<1>. QED BY <1>1, <1>2

\* What apply_all leaves at a key.
LEMMA ApplyAllAt ==
    ASSUME NEW s \in Store, NEW batch \in Seq(Committed), NEW k \in Key
    PROVE  apply_all(s, batch)[k] = IF Touching(batch, k) = {} THEN s[k]
                                    ELSE apply(s, batch[Max(Touching(batch, k))])[k]
BY DEF apply_all, Touching

\* Appending an item to a batch applies it last: one iteration of the driver's loop.
LEMMA ApplyAllAppend ==
    ASSUME NEW s \in Store, NEW batch \in Seq(Committed), NEW item \in Committed
    PROVE  apply_all(s, Append(batch, item)) = apply(apply_all(s, batch), item)
<1>. DEFINE b == Append(batch, item)
            r == apply_all(s, batch)
<1>1. b \in Seq(Committed) /\ r \in Store /\ Len(batch) \in Nat /\ Len(b) = Len(batch) + 1
  BY ApplyAllType, AppendProperties
<1>2. b[Len(batch) + 1] = item /\ \A i \in 1..Len(batch) : b[i] = batch[i]
  BY <1>1, AppendProperties
<1>3. apply_all(s, b) \in Store /\ apply(r, item) \in Store
  BY <1>1, ApplyAllType, ApplyType
<1>. HIDE DEF b, r
<1>4. ASSUME NEW k \in Key
      PROVE  apply_all(s, b)[k] = apply(r, item)[k]
  <2>1. CASE touches(item, k)
    <3>1. Len(batch) + 1 \in Touching(b, k) /\ \A j \in Touching(b, k) : j <= Len(batch) + 1
      BY <1>1, <1>2, <2>1 DEF Touching
    <3>2. Max(Touching(b, k)) = Len(batch) + 1
      BY <1>1, <3>1, LastTouchingIs
    <3>3. apply_all(s, b)[k] = apply(s, item)[k]
      BY <1>1, <1>2, <3>1, <3>2, ApplyAllAt
    <3>. QED BY <1>1, <2>1, <3>3, TouchedKeys
  <2>2. CASE ~touches(item, k)
    <3>1. Touching(b, k) = Touching(batch, k)
      BY <1>1, <1>2, <2>2 DEF Touching
    <3>2. apply_all(s, b)[k] = r[k]
      <4>1. CASE Touching(batch, k) = {}
        BY <1>1, <3>1, <4>1, ApplyAllAt DEF r
      <4>2. CASE Touching(batch, k) # {}
        <5>1. Max(Touching(batch, k)) \in 1..Len(batch)
          BY <4>2, LastTouching DEF Touching
        <5>. QED BY <1>1, <1>2, <3>1, <4>2, <5>1, ApplyAllAt DEF r
      <4>. QED BY <4>1, <4>2
    <3>. QED BY <1>1, <2>2, <3>2, UntouchedKeys
  <2>. QED BY <2>1, <2>2
<1>. QED BY <1>3, <1>4 DEF Store, b, r

\* Restoring a snapshot gives back the store it was taken of.
LEMMA RestoreSnapshot ==
    ASSUME NEW s \in Store
    PROVE  restore(snapshot(s)) = s
<1>. DEFINE entries == snapshot(s)
<1>1. entries \in SUBSET KeyValue
  BY SnapshotType
<1>2. ASSUME NEW k \in Key
      PROVE  restore(entries)[k] = s[k]
  <2>1. CASE s[k] = Absent
    <3>1. ~\E e \in entries : e[1] = k
      BY <2>1 DEF snapshot
    <3>. QED BY <2>1, <3>1 DEF restore
  <2>2. CASE s[k] # Absent
    <3>1. <<k, s[k]>> \in entries
      BY <2>2 DEF snapshot
    <3>2. \A e \in entries : e[1] = k => e[2] = s[k]
      BY DEF snapshot
    <3>3. \E e \in entries : e[1] = k
      BY <3>1
    <3>4. (CHOOSE e \in entries : e[1] = k)[2] = s[k]
      BY <3>2, <3>3
    <3>. QED BY <3>3, <3>4 DEF restore
  <2>. QED BY <2>1, <2>2
<1>3. restore(entries) \in Store
  BY <1>1, RestoreType
<1>. HIDE DEF entries
<1>. QED BY <1>2, <1>3 DEF Store, entries

\* Applying the tail of a batch again changes nothing.
LEMMA ReapplyTail ==
    ASSUME NEW s \in Store, NEW batch \in Seq(Committed), NEW n \in 1..Len(batch) + 1
    PROVE  apply_all(apply_all(s, batch), SubSeq(batch, n, Len(batch))) = apply_all(s, batch)
<1>. DEFINE r == apply_all(s, batch)
            tail == SubSeq(batch, n, Len(batch))
<1>1. Len(batch) \in Nat /\ n \in Nat /\ 1 <= n /\ n <= Len(batch) + 1
  BY LenProperties
<1>2. tail \in Seq(Committed)
  BY <1>1, SubSeqType
<1>3. /\ Len(tail) = Len(batch) + 1 - n
      /\ \A i \in 1..Len(batch) + 1 - n : tail[i] = batch[n - 1 + i]
  <2>1. CASE n = Len(batch) + 1
    <3>1. tail = <<>>
      BY <1>1, <2>1, SubSeqEmpty
    <3>. QED BY <1>1, <2>1, <3>1
  <2>2. CASE n <= Len(batch)
    BY <1>1, <2>2, SubSeqProperties
  <2>. QED BY <1>1, <2>1, <2>2
<1>4. r \in Store
  BY ApplyAllType
<1>. HIDE DEF tail, r
<1>5. apply_all(r, tail) \in Store
  BY <1>2, <1>4, ApplyAllType
<1>6. ASSUME NEW k \in Key
      PROVE  apply_all(r, tail)[k] = r[k]
  <2>1. CASE Touching(tail, k) = {}
    BY <1>2, <1>4, <2>1, ApplyAllAt
  <2>2. CASE Touching(tail, k) # {}
    <3>. DEFINE t == Max(Touching(tail, k))
    <3>1. t \in Touching(tail, k) /\ \A i \in Touching(tail, k) : i <= t
      BY <1>2, <2>2, LastTouching
    <3>. HIDE DEF t
    <3>2. t \in 1..Len(batch) + 1 - n /\ touches(tail[t], k)
      BY <1>3, <3>1 DEF Touching
    <3>3. n - 1 + t \in 1..Len(batch) /\ batch[n - 1 + t] = tail[t]
      BY <1>1, <1>3, <3>2
    <3>4. n - 1 + t \in Touching(batch, k)
      BY <3>2, <3>3 DEF Touching
    <3>5. ASSUME NEW j \in Touching(batch, k), j > n - 1 + t
          PROVE  FALSE
      <4>1. j \in 1..Len(batch) /\ touches(batch[j], k)
        BY <3>5 DEF Touching
      <4>2. j - (n - 1) \in 1..Len(batch) + 1 - n /\ n - 1 + (j - (n - 1)) = j
        BY <1>1, <3>2, <3>5, <4>1
      <4>3. tail[j - (n - 1)] = batch[j]
        BY <1>3, <4>2
      <4>4. j - (n - 1) \in Touching(tail, k)
        BY <1>3, <4>1, <4>2, <4>3 DEF Touching
      <4>. QED BY <1>1, <3>1, <3>2, <3>5, <4>1, <4>4
    <3>6. Max(Touching(batch, k)) = n - 1 + t
      <4>1. \A j \in Touching(batch, k) : j <= n - 1 + t
        BY <1>1, <3>2, <3>5 DEF Touching
      <4>. QED BY <3>4, <4>1, LastTouchingIs
    <3>7. apply_all(r, tail)[k] = apply(r, tail[t])[k]
      BY <1>2, <1>4, <2>2, ApplyAllAt DEF t
    <3>8. r[k] = apply(s, tail[t])[k]
      BY <3>3, <3>4, <3>6, ApplyAllAt DEF r
    <3>9. tail[t] \in Committed
      BY <3>3
    <3>. QED BY <1>4, <3>2, <3>7, <3>8, <3>9, TouchedKeys
  <2>. QED BY <2>1, <2>2
<1>. QED BY <1>4, <1>5, <1>6 DEF Store, r, tail

=============================================================================
