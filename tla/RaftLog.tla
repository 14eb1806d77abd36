------------------------------ MODULE RaftLog ------------------------------
(***************************************************************************)
(* The replicated log of src/raft/log.rs: the entries after a snapshot     *)
(* point, and that point.  Every method of RaftLog is an operator on the   *)
(* log record; a method that changes the log returns the new record.       *)
(***************************************************************************)
EXTENDS Integers, Sequences, FiniteSetsExt

CONSTANT Command    \* opaque serialized commands (LogEntry::command)

min(a, b) == IF a <= b THEN a ELSE b
max(a, b) == IF a <= b THEN b ELSE a

LogEntry == [term : Nat, command : Command]

Log == [entries : Seq(LogEntry), snapshot_index : Nat, snapshot_term : Nat]

EmptyLog == [entries |-> <<>>, snapshot_index |-> 0, snapshot_term |-> 0]

\* Option::None of term_at.  Terms are naturals, so no term is confused with it.
NoTerm == -1

last_index(log) == log.snapshot_index + Len(log.entries)

last_term(log) ==
    IF log.entries = <<>> THEN log.snapshot_term
                          ELSE log.entries[Len(log.entries)].term

first_index(log) == log.snapshot_index + 1

\* get(index) is Some: the entry is physically present.
present(log, index) == log.snapshot_index < index /\ index <= last_index(log)

get(log, index) == log.entries[index - log.snapshot_index]

term_at(log, index) ==
    IF index = log.snapshot_index THEN log.snapshot_term
    ELSE IF present(log, index) THEN get(log, index).term
    ELSE NoTerm

append(log, new_entries) == [log EXCEPT !.entries = @ \o new_entries]

\* Slip: the slice starts one entry too late.
entries_after(log, from) ==
    IF from <= log.snapshot_index
    THEN log.entries
    ELSE SubSeq(log.entries, from - log.snapshot_index + 1, Len(log.entries))

entries_from(log, from) ==
    IF from <= log.snapshot_index
    THEN log.entries
    ELSE SubSeq(log.entries, from - log.snapshot_index, Len(log.entries))

matches(log, index, term) ==
    IF term_at(log, index) = NoTerm THEN index = 0
                                    ELSE term_at(log, index) = term

\* Vec::truncate leaves a vector that is already short enough alone.
truncate_from(log, index) ==
    LET offset == index - log.snapshot_index - 1
    IN [log EXCEPT !.entries =
            IF index <= log.snapshot_index THEN <<>>
            ELSE IF offset >= Len(@) THEN @
            ELSE SubSeq(@, 1, offset)]

(***************************************************************************)
(* splice(prev, incoming) skips the incoming entries whose term the log    *)
(* already has at their index; from the first that disagrees (or is new)   *)
(* the log is truncated and the rest of incoming appended.                 *)
(***************************************************************************)
disagreeing(log, prev, incoming) ==
    {k \in 1..Len(incoming) : term_at(log, prev + k) # incoming[k].term}

splice(log, prev, incoming) ==
    IF disagreeing(log, prev, incoming) = {} THEN log
    ELSE LET k == Min(disagreeing(log, prev, incoming))
         IN append(truncate_from(log, prev + k),
                   SubSeq(incoming, k, Len(incoming)))

install_snapshot(log, index, term) ==
    [entries |-> <<>>, snapshot_index |-> index, snapshot_term |-> term]

\* Slip: the drain takes one entry more than the snapshot covers.
compact_past(log, index) ==
    IF present(log, index)
    THEN [entries        |-> SubSeq(log.entries, index - log.snapshot_index + 2,
                                    Len(log.entries)),
          snapshot_index |-> index,
          snapshot_term  |-> term_at(log, index)]
    ELSE log

\* Slip: snapshot_index moves before the term is looked up, so the old one stays.
compact_old_term(log, index) ==
    IF present(log, index)
    THEN [entries        |-> SubSeq(log.entries, index - log.snapshot_index + 1,
                                    Len(log.entries)),
          snapshot_index |-> index,
          snapshot_term  |-> log.snapshot_term]
    ELSE log

compact(log, index) ==
    IF present(log, index)
    THEN [entries        |-> SubSeq(log.entries, index - log.snapshot_index + 1,
                                    Len(log.entries)),
          snapshot_index |-> index,
          snapshot_term  |-> term_at(log, index)]
    ELSE log

=============================================================================
