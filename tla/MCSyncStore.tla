----------------------------- MODULE MCSyncStore -----------------------------
(***************************************************************************)
(* Small instances of SyncStore.  The batches make the interesting cases   *)
(* meet: first writes of the same record by two devices, an update on top  *)
(* of one of them, a batch whose second mutation conflicts, a batch with a *)
(* mutation that was pushed alone before, the same batch again (a retry),  *)
(* mutation ids used for two requests, and more mutations than cursors.    *)
(***************************************************************************)
EXTENDS SyncStore

CONSTANTS c1, c2, k1, r1, r2, m1, m2, m3, m4, x, y

Req(m, r, base, content) ==
  [mutationId |-> m, recordId |-> r, baseRevision |-> base,
   content |-> content]

MCBatches ==
  {<<Req(m1, r1, 0, x)>>,                       \* create r1
   <<Req(m2, r1, 0, y), Req(m3, r2, 0, y)>>,    \* create r1 and r2
   <<Req(m1, r1, 0, x), Req(m4, r1, 1, y)>>,    \* replay m1, then update r1
   <<Req(m3, r2, 0, x), Req(m2, r2, 1, x)>>}    \* m3, m2 with other payloads
=============================================================================
