------------------------------ MODULE Storage ------------------------------
(***************************************************************************)
(* The state machine: the in-memory engine of src/storage/memory.rs and    *)
(* the write commands of src/apply.rs.  A store maps every key to its      *)
(* value, or to Absent when the map of the engine has no such key.         *)
(***************************************************************************)
EXTENDS RaftLog

CONSTANTS Key, Value, Absent,
          Decode    \* what each serialized command of the log decodes to

WriteCommand == [op : {"Set"}, key : Key, value : Value]
                  \cup [op : {"Del"}, keys : SUBSET Key]

ASSUME StorageAssumption == /\ Absent \notin Value
                            /\ Decode \in [Command -> WriteCommand]

Store == [Key -> Value \cup {Absent}]
EmptyStore == [k \in Key |-> Absent]

\* The wire form of a snapshot: the list of the pairs the map holds.
KeyValue == Key \X Value
snapshot(store) == {<<k, store[k]>> : k \in {k \in Key : store[k] # Absent}}
\* Slip: the map is cleared and not filled again.
restore_cleared(entries) == EmptyStore

restore(entries) ==
    [k \in Key |-> IF \E e \in entries : e[1] = k
                   THEN (CHOOSE e \in entries : e[1] = k)[2]
                   ELSE Absent]

\* What the core hands to the driver: a committed command or a whole snapshot.
Committed == [kind : {"Command"}, index : Nat, command : Command]
               \cup [kind : {"Snapshot"}, data : SUBSET KeyValue]

\* Slip: Set keeps the value that is there.
apply_if_absent(store, item) ==
    IF item.kind = "Snapshot" THEN restore(item.data)
    ELSE LET cmd == Decode[item.command]
         IN IF cmd.op = "Set"
            THEN [store EXCEPT ![cmd.key] = IF @ = Absent THEN cmd.value ELSE @]
            ELSE [k \in Key |-> IF k \in cmd.keys THEN Absent ELSE store[k]]

\* One item of Ready::committed applied to the store (WriteCommand::apply, restore).
apply(store, item) ==
    IF item.kind = "Snapshot" THEN restore(item.data)
    ELSE LET cmd == Decode[item.command]
         IN IF cmd.op = "Set" THEN [store EXCEPT ![cmd.key] = cmd.value]
            ELSE [k \in Key |-> IF k \in cmd.keys THEN Absent ELSE store[k]]

(***************************************************************************)
(* A whole batch applied in order.  Every item overwrites the keys it      *)
(* touches without reading them, so a key ends up with what the last item  *)
(* that touches it writes.                                                 *)
(***************************************************************************)
touches(item, k) ==
    \/ item.kind = "Snapshot"
    \/ /\ item.kind = "Command"
       /\ \/ Decode[item.command].op = "Set" /\ Decode[item.command].key = k
          \/ Decode[item.command].op = "Del" /\ k \in Decode[item.command].keys

apply_all(store, batch) ==
    [k \in Key |->
        LET touching == {i \in 1..Len(batch) : touches(batch[i], k)}
        IN IF touching = {} THEN store[k]
           ELSE apply(store, batch[Max(touching)])[k]]

=============================================================================
