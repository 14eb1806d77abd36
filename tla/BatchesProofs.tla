--------------------------- MODULE BatchesProofs ---------------------------
(***************************************************************************)
(* The loop over committed items, for every set of keys, values and        *)
(* commands and batches of any length.                                     *)
(***************************************************************************)
EXTENDS Batches, StorageProofs

BatchType == base \in Store /\ batch \in Seq(Committed) /\ store \in Store

BatchInv == BatchType /\ LastWriterWins

\* The loop starts with nothing applied.
LEMMA BatchStarts == BatchInit => BatchInv
<1>. SUFFICES ASSUME BatchInit PROVE BatchInv
  OBVIOUS
<1>1. BatchType
  BY DEF BatchInit, BatchType
<1>2. apply_all(base, <<>>) = base
  BY <1>1 DEF apply_all, BatchType, Store
<1>. QED BY <1>1, <1>2 DEF BatchInit, BatchInv, LastWriterWins

\* Each iteration, and the hand-over of the next batch, keeps the two sides equal.
LEMMA BatchStep == BatchInv /\ [BatchNext]_batchVars => BatchInv'
<1>. SUFFICES ASSUME BatchInv, [BatchNext]_batchVars PROVE BatchInv'
  OBVIOUS
<1>1. ASSUME NEW item \in Committed, ApplyItem(item) PROVE BatchInv'
  <2>1. BatchType'
    BY <1>1, ApplyType, AppendProperties DEF BatchInv, BatchType, ApplyItem
  <2>2. LastWriterWins'
    BY <1>1, ApplyAllAppend DEF BatchInv, BatchType, LastWriterWins, ApplyItem
  <2>. QED BY <2>1, <2>2 DEF BatchInv
<1>2. CASE NextBatch
  <2>1. BatchType'
    BY <1>2 DEF BatchInv, BatchType, NextBatch
  <2>2. apply_all(store, <<>>) = store
    BY DEF apply_all, BatchInv, BatchType, Store
  <2>. QED BY <1>2, <2>1, <2>2 DEF BatchInv, LastWriterWins, NextBatch
<1>3. CASE UNCHANGED batchVars
  BY <1>3 DEF batchVars, BatchInv, BatchType, LastWriterWins
<1>. QED BY <1>1, <1>2, <1>3 DEF BatchNext

(***************************************************************************)
(* apply_all, the cluster model's one-step application of a batch, is what *)
(* the loop of process_ready computes, for batches of any length.          *)
(***************************************************************************)
THEOREM BatchIsLoop == BatchSpec => []LastWriterWins
<1>1. BatchInv => LastWriterWins
  BY DEF BatchInv
<1>. QED BY <1>1, BatchStarts, BatchStep, PTL DEF BatchSpec

(***************************************************************************)
(* A follower that restores a snapshot newer than its last_included_index  *)
(* and is then sent the commands after that index ends with the leader's   *)
(* store: applying the tail of a batch a second time changes nothing.      *)
(***************************************************************************)
THEOREM CatchUpConverges == BatchSpec => []SnapshotCatchUp
<1>1. BatchInv => SnapshotCatchUp
  <2>. SUFFICES ASSUME BatchInv, NEW k \in 1..Len(batch) + 1
                PROVE  apply_all(restore(snapshot(store)), From(k)) = store
    BY DEF SnapshotCatchUp
  <2>1. restore(snapshot(store)) = store
    BY RestoreSnapshot DEF BatchInv, BatchType
  <2>2. apply_all(apply_all(base, batch), SubSeq(batch, k, Len(batch))) = apply_all(base, batch)
    BY ReapplyTail DEF BatchInv, BatchType
  <2>. QED BY <2>1, <2>2 DEF BatchInv, LastWriterWins, From
<1>. QED BY <1>1, BatchStarts, BatchStep, PTL DEF BatchSpec

=============================================================================
