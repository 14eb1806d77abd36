--------------------------- MODULE RaftLogProofs ---------------------------
(***************************************************************************)
(* Facts about the operators of RaftLog, for every log.                    *)
(***************************************************************************)
EXTENDS RaftLog, TLAPS, FiniteSetTheorems, SequenceTheorems,
        WellFoundedInduction

\* RaftLog::new is a log.
LEMMA EmptyLogType == EmptyLog \in Log
BY DEF EmptyLog, Log

\* The fields and index bounds of a log.
LEMMA LogFields ==
    ASSUME NEW log \in Log
    PROVE  /\ log.entries \in Seq(LogEntry)
           /\ log.snapshot_index \in Nat /\ log.snapshot_term \in Nat
           /\ last_index(log) \in Nat /\ first_index(log) \in Nat
           /\ last_index(log) >= log.snapshot_index
BY DEF Log, last_index, first_index

\* last_term is a term, with or without entries after the snapshot point.
LEMMA LastTermType ==
    ASSUME NEW log \in Log
    PROVE  last_term(log) \in Nat
<1>1. CASE log.entries = <<>>
  BY <1>1 DEF Log, last_term
<1>2. CASE log.entries # <<>>
  <2>1. Len(log.entries) \in 1..Len(log.entries)
    BY <1>2 DEF Log
  <2>2. log.entries[Len(log.entries)] \in LogEntry
    BY <2>1, ElementOfSeq DEF Log
  <2>. QED BY <1>2, <2>2 DEF last_term, LogEntry
<1>. QED BY <1>1, <1>2

\* get returns an entry wherever the log has one.
LEMMA GetType ==
    ASSUME NEW log \in Log, NEW i \in Nat, present(log, i)
    PROVE  get(log, i) \in LogEntry
<1>1. i - log.snapshot_index \in 1..Len(log.entries)
  BY DEF Log, present, last_index
<1>. QED BY <1>1, ElementOfSeq DEF Log, get

\* term_at is a term or None.
LEMMA TermAtType ==
    ASSUME NEW log \in Log, NEW i \in Nat
    PROVE  term_at(log, i) \in Nat \cup {NoTerm}
<1>1. present(log, i) => get(log, i) \in LogEntry
  BY GetType
<1>. QED BY <1>1 DEF term_at, Log, LogEntry

\* append leaves a log.
LEMMA AppendType ==
    ASSUME NEW log \in Log, NEW es \in Seq(LogEntry)
    PROVE  append(log, es) \in Log
BY ConcatProperties DEF append, Log

\* entries_from is a sequence of entries, from anywhere.
LEMMA EntriesFromType ==
    ASSUME NEW log \in Log, NEW i \in Nat
    PROVE  entries_from(log, i) \in Seq(LogEntry)
<1>1. CASE i <= log.snapshot_index
  BY <1>1 DEF entries_from, Log
<1>2. CASE ~(i <= log.snapshot_index)
  <2>1. i - log.snapshot_index \in 1..Len(log.entries) + 1 \/ i - log.snapshot_index > Len(log.entries)
    BY <1>2 DEF Log
  <2>. QED BY <1>2, <2>1, SubSeqProperties DEF entries_from, Log
<1>. QED BY <1>1, <1>2

\* The order on naturals as the relation the library reasons about.
LEMMA LessThanInNat ==
    ASSUME NEW x \in Nat, NEW y \in Nat, x < y
    PROVE  <<x, y>> \in OpToRel(<, Nat)
BY Zenon DEF OpToRel

\* A nonempty set of naturals has a least element.
LEMMA LeastElement ==
    ASSUME NEW S \in SUBSET Nat, S # {}
    PROVE  \E x \in S : \A y \in S : x <= y
<1>1. PICK x \in S : \A y \in S : ~(<<y, x>> \in OpToRel(<, Nat))
  BY NatLessThanWellFounded, WFMin
<1>2. \A y \in S : ~(y < x)
  BY <1>1, LessThanInNat
<1>. QED BY <1>2

\* Min, which splice uses for the first disagreeing entry, is the least element.
LEMMA MinProperty ==
    ASSUME NEW S \in SUBSET Nat, S # {}
    PROVE  Min(S) \in S /\ \A y \in S : Min(S) <= y
<1>1. \E x \in S : \A y \in S : x =< y
  BY LeastElement
<1>. QED BY <1>1, Zenon DEF Min

\* Max, which advance_commit uses for the highest index, is the greatest element
\* of a bounded set.
LEMMA MaxProperty ==
    ASSUME NEW S \in SUBSET Nat, S # {}, NEW b \in Nat, \A x \in S : x <= b
    PROVE  Max(S) \in S /\ \A y \in S : Max(S) >= y
<1>. DEFINE T == {b - x : x \in S}
<1>1. T \in SUBSET Nat /\ T # {}
  <2>1. \A x \in S : b - x \in Nat
    OBVIOUS
  <2>2. T \subseteq Nat
    BY <2>1, Zenon
  <2>. QED BY <2>2
<1>2. PICK t \in T : \A y \in T : t <= y
  BY <1>1, LeastElement
<1>3. PICK x \in S : t = b - x
  OBVIOUS
<1>4. \A y \in S : x >= y
  <2>. TAKE y \in S
  <2>1. b - y \in T
    OBVIOUS
  <2>. QED BY <1>2, <1>3, <2>1
<1>. QED BY <1>4, Zenon DEF Max

\* A slice within the bounds of a sequence is a sequence.
LEMMA SubSeqType ==
    ASSUME NEW S, NEW q \in Seq(S), NEW i \in Int, NEW j \in Int,
           1 <= i, j <= Len(q)
    PROVE  SubSeq(q, i, j) \in Seq(S)
<1>1. \A k \in i..j : q[k] \in S
  BY ElementOfSeq
<1>. QED BY <1>1, SubSeqProperties

\* truncate_from leaves a log, also at and below the snapshot point.
LEMMA TruncateType ==
    ASSUME NEW log \in Log, NEW i \in Nat
    PROVE  truncate_from(log, i) \in Log
<1>. DEFINE offset == i - log.snapshot_index - 1
<1>1. CASE i <= log.snapshot_index
  <2>1. truncate_from(log, i) = [log EXCEPT !.entries = <<>>]
    BY <1>1, Zenon DEF truncate_from
  <2>2. <<>> \in Seq(LogEntry)
    OBVIOUS
  <2>. QED BY <2>1, <2>2 DEF Log
<1>3. CASE ~(i <= log.snapshot_index) /\ offset >= Len(log.entries)
  BY <1>3 DEF truncate_from, Log
<1>2. CASE ~(i <= log.snapshot_index) /\ ~(offset >= Len(log.entries))
  <2>1. SubSeq(log.entries, 1, offset) \in Seq(LogEntry)
    BY <1>2, SubSeqType DEF Log
  <2>. QED BY <1>2, <2>1 DEF truncate_from, Log
<1>. QED BY <1>1, <1>2, <1>3

\* splice leaves a log, whatever the leader sends.
LEMMA SpliceType ==
    ASSUME NEW log \in Log, NEW prev \in Nat, NEW incoming \in Seq(LogEntry)
    PROVE  splice(log, prev, incoming) \in Log
<1>. DEFINE D == disagreeing(log, prev, incoming)
            k == Min(D)
<1>1. CASE D = {}
  BY <1>1 DEF splice
<1>2. CASE D # {}
  <2>1. D \in SUBSET Nat
    BY DEF disagreeing
  <2>2. k \in D
    BY <1>2, <2>1, MinProperty
  <2>3. k \in 1..Len(incoming)
    BY <2>2 DEF disagreeing
  <2>4. truncate_from(log, prev + k) \in Log
    BY <2>3, TruncateType
  <2>5. SubSeq(incoming, k, Len(incoming)) \in Seq(LogEntry)
    BY <2>3, SubSeqType
  <2>. QED BY <1>2, <2>4, <2>5, AppendType DEF splice
<1>. QED BY <1>1, <1>2

\* compact leaves a log, also for an index it does not hold.
LEMMA CompactType ==
    ASSUME NEW log \in Log, NEW i \in Nat
    PROVE  compact(log, i) \in Log
<1>1. CASE present(log, i)
  <2>1. get(log, i) \in LogEntry
    BY <1>1, GetType
  <2>2. term_at(log, i) \in Nat
    BY <1>1, <2>1 DEF term_at, LogEntry, Log
  <2>3. SubSeq(log.entries, i - log.snapshot_index + 1, Len(log.entries)) \in Seq(LogEntry)
    BY <1>1, SubSeqType DEF present, last_index, Log
  <2>. QED BY <1>1, <2>2, <2>3 DEF compact, Log
<1>2. CASE ~present(log, i)
  BY <1>2 DEF compact
<1>. QED BY <1>1, <1>2

=============================================================================
