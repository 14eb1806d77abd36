---------------------------- MODULE CompactedLog ----------------------------
(***************************************************************************)
(* One RaftLog under every sequence of its operations, beside the log it   *)
(* stands for: full holds every entry since index 1, is never compacted,   *)
(* and merges a leader's entries one at a time as the Raft paper says.     *)
(***************************************************************************)
EXTENDS RaftLog, SequencesExt

CONSTANTS Term,         \* the terms entries may have
          MaxLength     \* bound on the index of the last entry

ASSUME LogAssumption == Term \subseteq Nat /\ MaxLength \in Nat

VARIABLES log, full,
          shifted       \* history: has a merge put entries behind the wrong index?

logVars == <<log, full, shifted>>

Entry == [term : Term, command : Command]
UpTo(n) == UNION {[1..k -> Entry] : k \in 0..n}

(***************************************************************************)
(* The reference: an incoming entry that is there already changes nothing; *)
(* any other replaces what is at its index and all that follows.           *)
(***************************************************************************)
Absorb(f, i, e) ==
    IF i <= Len(f) /\ f[i].term = e.term THEN f ELSE SubSeq(f, 1, i - 1) \o <<e>>

Merge(f, prev, incoming) ==
    FoldLeftDomain(LAMBDA g, k : Absorb(g, prev + k, incoming[k]), f, incoming)

LogInit == log = EmptyLog /\ full = <<>> /\ shifted = FALSE

LogAppend(e) ==
    /\ last_index(log) < MaxLength
    /\ log' = append(log, <<e>>)
    /\ full' = full \o <<e>>
    /\ UNCHANGED shifted

(***************************************************************************)
(* Entries from a leader, once matches has let prev and its term through.  *)
(* It lets 0 through on a compacted log too, and splice then appends the   *)
(* first entry it does not find, and all that follow, behind the snapshot  *)
(* point: full does not follow it there, and is empty from then on.        *)
(***************************************************************************)
LogSplice(prev, t, incoming) ==
    /\ matches(log, prev, t) /\ last_index(splice(log, prev, incoming)) <= MaxLength
    /\ log' = splice(log, prev, incoming)
    /\ shifted' = \/ shifted
                   \/ \E k \in disagreeing(log, prev, incoming) : prev + k <= log.snapshot_index
    /\ full' = IF shifted' THEN <<>> ELSE Merge(full, prev, incoming)

LogCompact(i) ==
    /\ log' = compact(log, i)
    /\ UNCHANGED <<full, shifted>>

\* A leader's snapshot stands for entries this log has never seen; it starts the log anew.
LogInstall(f) ==
    /\ f # <<>>
    /\ log' = install_snapshot(log, Len(f), f[Len(f)].term)
    /\ full' = f /\ shifted' = FALSE

LogNext ==
    \/ \E e \in Entry : LogAppend(e)
    \/ \E prev \in 0..MaxLength, t \in Term \cup {0} : \E incoming \in UpTo(MaxLength - prev) :
          LogSplice(prev, t, incoming)
    \/ \E i \in 0..MaxLength : LogCompact(i)
    \/ \E f \in UpTo(MaxLength) : LogInstall(f)

LogSpec == LogInit /\ [][LogNext]_logVars

FullTerm(i) == IF i = 0 THEN 0 ELSE IF i <= Len(full) THEN full[i].term ELSE NoTerm

(***************************************************************************)
(* Compaction is invisible: last_index, last_term, term_at from the        *)
(* snapshot point on, entries_from and matches behind it answer as they    *)
(* would on the uncompacted log, whatever was appended, merged, compacted  *)
(* and installed before, and in whatever order.  It shows in one way only, *)
(* which is excepted: entries merged at or below the snapshot point that   *)
(* the log does not recognise (matches lets a prev_log_index of 0 through) *)
(* end up at other indexes than their own, until a snapshot is installed.  *)
(***************************************************************************)
CompactionTransparent ==
    ~shifted =>
        /\ last_index(log) = Len(full)
        /\ last_term(log) = FullTerm(Len(full))
        /\ \A i \in log.snapshot_index..MaxLength + 1 :
              /\ term_at(log, i) = FullTerm(i)
              /\ entries_from(log, i + 1) = SubSeq(full, i + 1, Len(full))
              /\ i > log.snapshot_index =>
                    \A t \in Term : matches(log, i, t) <=> FullTerm(i) = t

=============================================================================
