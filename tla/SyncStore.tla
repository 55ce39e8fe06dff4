------------------------------ MODULE SyncStore ------------------------------
(***************************************************************************)
(* The server side of encrypted sync for one vault: the tables sync_vault, *)
(* sync_record and sync_mutation and the two operations on them.           *)
(*                                                                         *)
(* pushMutations runs as a PostgreSQL transaction: it locks the vault row  *)
(* (select ... for update), then handles the mutations of its batch one by *)
(* one with separate statements, and commits or rolls back.  Statements of *)
(* different connections interleave; a statement sees the committed rows   *)
(* and the rows its own transaction wrote (READ COMMITTED).  The server or *)
(* its connection may fail at any point, and a committed answer may be     *)
(* lost on its way to the device.                                          *)
(*                                                                         *)
(* pullChanges is one statement, so it reads one snapshot of the committed *)
(* tables.  A reader applies the page it gets and remembers the cursor.    *)
(***************************************************************************)
EXTENDS Integers, Sequences, FiniteSets

CONSTANTS
  Connection,   \* database connections of the pool, one transaction each
  Reader,       \* devices that pull
  RecordId,
  MutationId,
  Content,      \* the encrypted payloads
  NoContent,    \* the payload of a row that does not exist
  Batches,      \* the validated batches devices may push
  PageLimit,    \* changes per page
  MaxCursor     \* MAX_WIRE_BIGINT of the model

Revision == 0..MaxCursor

\* parseSyncMutationRequest makes record.revision = baseRevision + 1, so the
\* request carries the base only.
Request ==
  [mutationId : MutationId, recordId : RecordId,
   baseRevision : Revision, content : Content]

ASSUME ConstantsAssumption ==
  /\ IsFiniteSet(RecordId)
  /\ PageLimit \in Nat \ {0}
  /\ MaxCursor \in Nat
  /\ NoContent \notin Content
  /\ Batches \subseteq Seq(Request)

VARIABLES
  nextCursor,   \* sync_vault.next_cursor
  records,      \* sync_record, by record id; revision 0: no row
  mutations,    \* sync_mutation
  tx,           \* per connection, the transaction it runs
  reader,       \* per device, its cursor and the rows it has pulled
  acks          \* every result a device has received

vars == <<nextCursor, records, mutations, tx, reader, acks>>

-----------------------------------------------------------------------------
(* Rows and transactions *)

Row == [revision : Nat, cursor : Nat, content : Content \cup {NoContent}]
NoRow == [revision |-> 0, cursor |-> 0, content |-> NoContent]

\* request_fingerprint is a SHA-256 of the whole request: equal exactly when
\* the requests are.
Entry ==
  [mutationId : MutationId, recordId : RecordId, revision : Nat,
   cursor : Nat, fingerprint : Request]

Result ==
  [mutationId : MutationId, recordId : RecordId, revision : Nat,
   cursor : Nat, status : {"applied", "replayed"}]

Idle ==
  [pc |-> "idle", batch |-> <<>>, next |-> 1, cursor |-> 0,
   rows |-> [r \in RecordId |-> NoRow], entries |-> {}, results |-> {}]

Transaction ==
  [pc : {"idle", "begun", "open", "write"}, batch : Batches \cup {<<>>},
   next : Nat \ {0}, cursor : Nat, rows : [RecordId -> Row],
   entries : SUBSET Entry, results : SUBSET Result]

TypeOK ==
  /\ nextCursor \in Nat
  /\ records \in [RecordId -> Row]
  /\ mutations \in SUBSET Entry
  /\ tx \in [Connection -> Transaction]
  /\ reader \in [Reader -> [cursor : Nat, rows : [RecordId -> Row]]]
  /\ acks \in SUBSET Result

Init ==
  /\ nextCursor = 0
  /\ records = [r \in RecordId |-> NoRow]
  /\ mutations = {}
  /\ tx = [c \in Connection |-> Idle]
  /\ reader = [k \in Reader |->
                 [cursor |-> 0, rows |-> [r \in RecordId |-> NoRow]]]
  /\ acks = {}

\* The transaction holds the row lock of sync_vault from its first select
\* until it ends.
HoldsLock(c) == tx[c].pc \in {"open", "write"}

\* What a statement of c's transaction sees.
RowSeen(c, r) == IF tx[c].rows[r] = NoRow THEN records[r] ELSE tx[c].rows[r]
EntriesSeen(c) == mutations \cup tx[c].entries

\* The mutation c's loop is at.
Current(c) == tx[c].batch[tx[c].next]
InLoop(c) == tx[c].pc = "open" /\ tx[c].next <= Len(tx[c].batch)

EntriesFor(c) ==
  {e \in EntriesSeen(c) : e.mutationId = Current(c).mutationId}

-----------------------------------------------------------------------------
(* pushMutations *)

\* Variant: the loop starts one before the batch.
BeginEarly(c, batch) ==
  /\ tx[c].pc = "idle"
  /\ tx' = [tx EXCEPT ![c] = [Idle EXCEPT !.pc = "begun", !.batch = batch,
                                          !.next = 0]]
  /\ UNCHANGED <<nextCursor, records, mutations, reader, acks>>

\* connect, begin
Begin(c, batch) ==
  /\ tx[c].pc = "idle"
  /\ tx' = [tx EXCEPT ![c] = [Idle EXCEPT !.pc = "begun", !.batch = batch]]
  /\ UNCHANGED <<nextCursor, records, mutations, reader, acks>>

\* Variant: the select without "for update".
LockVaultWithoutWaiting(c) ==
  /\ tx[c].pc = "begun"
  /\ tx' = [tx EXCEPT ![c].pc = "open", ![c].cursor = nextCursor]
  /\ UNCHANGED <<nextCursor, records, mutations, reader, acks>>

\* select "next_cursor" ... for update: waits until no other transaction holds
\* the row, then reads its newest committed version.
LockVault(c) ==
  /\ tx[c].pc = "begun"
  /\ \A d \in Connection : ~HoldsLock(d)
  /\ tx' = [tx EXCEPT ![c].pc = "open", ![c].cursor = nextCursor]
  /\ UNCHANGED <<nextCursor, records, mutations, reader, acks>>

\* The mutation id is known with the same fingerprint: answer what it did.
Replay(c) ==
  /\ InLoop(c)
  /\ \E e \in EntriesFor(c) :
       /\ e.fingerprint = Current(c)
       /\ tx' = [tx EXCEPT
                   ![c].next = @ + 1,
                   ![c].results = @ \cup
                     {[mutationId |-> e.mutationId, recordId |-> e.recordId,
                       revision |-> e.revision, cursor |-> e.cursor,
                       status |-> "replayed"]}]
  /\ UNCHANGED <<nextCursor, records, mutations, reader, acks>>

\* Variant: only a base from the future is a conflict.
BaseNotAhead(c) ==
  RowSeen(c, Current(c).recordId).revision >= Current(c).baseRevision

BaseMatches(c) ==
  RowSeen(c, Current(c).recordId).revision = Current(c).baseRevision

\* The mutation id is new, its base revision is the row's and a cursor is left.
Accept(c) ==
  /\ InLoop(c)
  /\ EntriesFor(c) = {}
  /\ BaseMatches(c)
  /\ tx[c].cursor < MaxCursor
  /\ tx' = [tx EXCEPT ![c].pc = "write", ![c].cursor = @ + 1]
  /\ UNCHANGED <<nextCursor, records, mutations, reader, acks>>

\* Variant: an error ends the loop, but what was written before it is committed.
RejectKeepingPrefix(c) ==
  /\ InLoop(c)
  /\ \/ \E e \in EntriesFor(c) : e.fingerprint # Current(c)
     \/ EntriesFor(c) = {} /\ ~BaseMatches(c)
     \/ EntriesFor(c) = {} /\ BaseMatches(c) /\ tx[c].cursor >= MaxCursor
  /\ nextCursor' = tx[c].cursor
  /\ records' = [r \in RecordId |-> RowSeen(c, r)]
  /\ mutations' = EntriesSeen(c)
  /\ tx' = [tx EXCEPT ![c] = Idle]
  /\ UNCHANGED <<reader, acks>>

\* Variant: nobody handles the last cursor.
RejectWithoutLimit(c) ==
  /\ InLoop(c)
  /\ \/ \E e \in EntriesFor(c) : e.fingerprint # Current(c)
     \/ EntriesFor(c) = {} /\ ~BaseMatches(c)
  /\ tx' = [tx EXCEPT ![c] = Idle]
  /\ UNCHANGED <<nextCursor, records, mutations, reader, acks>>

\* The id was used for another request, the base is stale, or no cursor is
\* left: the error aborts the whole transaction.
Reject(c) ==
  /\ InLoop(c)
  /\ \/ \E e \in EntriesFor(c) : e.fingerprint # Current(c)
     \/ EntriesFor(c) = {} /\ ~BaseMatches(c)
     \/ EntriesFor(c) = {} /\ BaseMatches(c) /\ tx[c].cursor >= MaxCursor
  /\ tx' = [tx EXCEPT ![c] = Idle]
  /\ UNCHANGED <<nextCursor, records, mutations, reader, acks>>

WrittenRow(c) ==
  [revision |-> Current(c).baseRevision + 1, cursor |-> tx[c].cursor,
   content |-> Current(c).content]

WrittenEntry(c) ==
  [mutationId |-> Current(c).mutationId, recordId |-> Current(c).recordId,
   revision |-> Current(c).baseRevision + 1, cursor |-> tx[c].cursor,
   fingerprint |-> Current(c)]

\* Upsert the record, insert the mutation, note the result.
Write(c) ==
  /\ tx[c].pc = "write"
  /\ tx' = [tx EXCEPT
              ![c].pc = "open",
              ![c].next = @ + 1,
              ![c].rows[Current(c).recordId] = WrittenRow(c),
              ![c].entries = @ \cup {WrittenEntry(c)},
              ![c].results = @ \cup
                {[mutationId |-> Current(c).mutationId,
                  recordId |-> Current(c).recordId,
                  revision |-> Current(c).baseRevision + 1,
                  cursor |-> tx[c].cursor, status |-> "applied"]}]
  /\ UNCHANGED <<nextCursor, records, mutations, reader, acks>>

\* update sync_vault, commit; the answer reaches the device or is lost.
Commit(c) ==
  /\ tx[c].pc = "open"
  /\ tx[c].next > Len(tx[c].batch)
  /\ nextCursor' = tx[c].cursor
  /\ records' = [r \in RecordId |-> RowSeen(c, r)]
  /\ mutations' = EntriesSeen(c)
  /\ tx' = [tx EXCEPT ![c] = Idle]
  /\ acks' \in {acks, acks \cup tx[c].results}
  /\ UNCHANGED reader

\* Variant: the answer leaves before the commit, which then fails.
AbortAfterAnswer(c) ==
  /\ tx[c].pc # "idle"
  /\ tx' = [tx EXCEPT ![c] = Idle]
  /\ acks' = acks \cup tx[c].results
  /\ UNCHANGED <<nextCursor, records, mutations, reader>>

\* A statement fails, the process stops or the connection drops: PostgreSQL
\* rolls back, the device gets no result.
Abort(c) ==
  /\ tx[c].pc # "idle"
  /\ tx' = [tx EXCEPT ![c] = Idle]
  /\ UNCHANGED <<nextCursor, records, mutations, reader, acks>>

-----------------------------------------------------------------------------
(* pullChanges *)

\* The rows after a cursor, and the first PageLimit of them in cursor order.
Fresh(after) ==
  {r \in RecordId : records[r].cursor > after /\ records[r].cursor <= nextCursor}

NotAfter(r, after) ==
  {q \in Fresh(after) : records[q].cursor <= records[r].cursor}

\* Variant: one row short of the limit.
PageShort(after) ==
  {r \in Fresh(after) : Cardinality(NotAfter(r, after)) < PageLimit}

Page(after) ==
  {r \in Fresh(after) : Cardinality(NotAfter(r, after)) <= PageLimit}

HasMore(after) == Cardinality(Fresh(after)) > PageLimit

\* Variant: every page returns the vault's cursor.
IsVaultCursor(after, n) == n = nextCursor

IsNextCursor(after, n) ==
  IF HasMore(after)
  THEN \E r \in Page(after) :
         /\ n = records[r].cursor
         /\ \A q \in Page(after) : records[q].cursor <= n
  ELSE n = nextCursor

\* One page: the device takes every row of it and moves its cursor.  (A cursor
\* ahead of the vault's is refused; CursorNotAhead says it does not occur while
\* the database keeps what it committed.)
Pull(k) ==
  /\ reader[k].cursor <= nextCursor
  /\ \E n \in 0..nextCursor :
       /\ IsNextCursor(reader[k].cursor, n)
       /\ reader' = [reader EXCEPT ![k] =
            [cursor |-> n,
             rows |-> [r \in RecordId |->
                         IF r \in Page(reader[k].cursor) THEN records[r]
                         ELSE reader[k].rows[r]]]]
  /\ UNCHANGED <<nextCursor, records, mutations, tx, acks>>

-----------------------------------------------------------------------------
Push(c) ==
  \/ LockVault(c)
  \/ Replay(c)
  \/ Accept(c)
  \/ Reject(c)
  \/ Write(c)
  \/ Commit(c)

Next ==
  \/ \E c \in Connection :
       \/ \E batch \in Batches : Begin(c, batch)
       \/ Push(c)
       \/ Abort(c)
  \/ \E k \in Reader : Pull(k)

Spec == Init /\ [][Next]_vars

\* PostgreSQL serves the waiters of a row lock, a transaction that is not
\* waiting takes its next statement, and a device keeps pulling.
Fairness ==
  /\ \A c \in Connection : WF_vars(Push(c)) /\ SF_vars(LockVault(c))
  /\ \A k \in Reader : WF_vars(Pull(k))

FairSpec == Spec /\ Fairness

-----------------------------------------------------------------------------
(* Properties *)

\* The cursor feed has no gap and no double use: the mutations carry exactly
\* the cursors 1..nextCursor, one each, whatever order concurrent pushes
\* commit in and however many of them roll back.
CursorsDense ==
  /\ {e.cursor : e \in mutations} = 1..nextCursor
  /\ \A e, f \in mutations : e.cursor = f.cursor => e = f

\* No update is lost and none is applied twice: the mutations of a record carry
\* the revisions 1..n in cursor order, n being the revision of its row, and the
\* row is what the last of them wrote.
NoLostUpdate ==
  \A r \in RecordId :
    LET history == {e \in mutations : e.recordId = r} IN
      /\ {e.revision : e \in history} = 1..records[r].revision
      /\ \A e, f \in history : e.revision < f.revision => e.cursor < f.cursor
      /\ \A e \in history :
           e.revision = records[r].revision =>
             /\ e.cursor = records[r].cursor
             /\ e.fingerprint.content = records[r].content

\* A result a device received stays true: the mutation is committed with that
\* revision and cursor, whether it was answered as applied or replayed and
\* whatever failed since.
AcksDurable ==
  \A a \in acks :
    \E e \in mutations :
      /\ e.mutationId = a.mutationId
      /\ e.recordId = a.recordId
      /\ e.revision = a.revision
      /\ e.cursor = a.cursor

\* A pull never skips a change: a reader holds the current row of every record
\* whose cursor it has passed, although rows move to higher cursors while it
\* pages through the feed.
ReaderComplete ==
  \A k \in Reader, r \in RecordId :
    records[r].cursor <= reader[k].cursor => reader[k].rows[r] = records[r]

\* No reader's cursor is ahead of the vault's, so cursor_reset_required is
\* answered only after the database lost committed state.
CursorNotAhead == \A k \in Reader : reader[k].cursor <= nextCursor

\* The store implements the abstract log.  Position i of the log is the request
\* that sync_mutation keeps under cursor i.
LoggedRequest(i) ==
  (CHOOSE e \in mutations : e.cursor = i).fingerprint

Log == INSTANCE SyncLog WITH
  log <- [i \in 1..nextCursor |-> LoggedRequest(i)],
  seen <- [k \in Reader |->
             [cursor |-> reader[k].cursor,
              held |-> [r \in RecordId |-> reader[k].rows[r].cursor]]]

ImplementsLog == Log!Spec

\* Every push ends: it waits for the vault row no longer than the pushes before it
\* take, and none of them stands still, neither on a conflict nor when the last
\* cursor is used ("The vault cursor is exhausted").
PushesEnd ==
  \A c \in Connection : tx[c].pc # "idle" ~> tx[c].pc = "idle"

\* Every committed change reaches every device that keeps pulling.
ReadersCatchUp ==
  \A k \in Reader, n \in 1..MaxCursor :
    nextCursor >= n ~> reader[k].cursor >= n
=============================================================================
