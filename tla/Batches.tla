------------------------------ MODULE Batches ------------------------------
(***************************************************************************)
(* The loop of Driver::process_ready over Ready::committed, one item at a  *)
(* time, beside the batch of the items it has taken.  Storage!apply_all,   *)
(* which the cluster uses, states in one step what this loop computes.     *)
(***************************************************************************)
EXTENDS Storage

VARIABLES base,     \* the store before the batch
          batch,    \* the items taken so far
          store     \* the store now

batchVars == <<base, batch, store>>

BatchInit == base \in Store /\ batch = <<>> /\ store = base

\* One iteration of the loop.
ApplyItem(item) ==
    /\ store' = apply(store, item)
    /\ batch' = Append(batch, item)
    /\ UNCHANGED base

\* take_ready hands over the next batch.
NextBatch ==
    /\ base' = store /\ batch' = <<>>
    /\ UNCHANGED store

BatchNext == (\E item \in Committed : ApplyItem(item)) \/ NextBatch

BatchSpec == BatchInit /\ [][BatchNext]_batchVars

(***************************************************************************)
(* apply_all computes what process_ready's loop computes: each key ends up *)
(* with what the last item that touches it writes.                         *)
(***************************************************************************)
LastWriterWins == store = apply_all(base, batch)

\* The items of the batch from position k on.
From(k) == SubSeq(batch, k, Len(batch))

(***************************************************************************)
(* The driver fills InstallSnapshot with the store as it is, which may     *)
(* already contain commands past last_included_index.  The follower that   *)
(* restores it and is then sent those commands again, from any position k  *)
(* on, ends up with the leader's store, whatever it held before.           *)
(***************************************************************************)
SnapshotCatchUp ==
    \A k \in 1..Len(batch) + 1 :
        apply_all(restore(snapshot(store)), From(k)) = store

=============================================================================
