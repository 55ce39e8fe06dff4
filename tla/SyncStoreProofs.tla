--------------------------- MODULE SyncStoreProofs ---------------------------
(***************************************************************************)
(* Proofs about SyncStore, for any number of connections, readers, records *)
(* and mutations, any set of batches and any page size.                    *)
(*                                                                         *)
(* The properties of the committed tables are not inductive: while a       *)
(* transaction runs, its view of the tables (RowSeen, EntriesSeen and its  *)
(* own cursor) must have them too, because a commit makes that view the    *)
(* tables.  And the view of a transaction is current only because no other *)
(* transaction holds the vault row.                                        *)
(***************************************************************************)
EXTENDS SyncStore, FiniteSetTheorems, FunctionTheorems, SequenceTheorems, TLAPS

(* The inductive invariant *)

\* A mutation that is being written is one of its batch.
WriteInLoop == \A c \in Connection : tx[c].pc = "write" => tx[c].next <= Len(tx[c].batch)

TypeInv == TypeOK /\ WriteInLoop

\* At most one transaction holds the row of the vault.
MutualExclusion ==
  \A c, d \in Connection : (HoldsLock(c) /\ HoldsLock(d)) => c = d

\* A transaction writes nothing before it has the lock.
NothingWritten(c) ==
  ~HoldsLock(c) =>
    /\ tx[c].rows = [r \in RecordId |-> NoRow]
    /\ tx[c].entries = {}
    /\ tx[c].results = {}

\* The tables of a vault with cursor n: every cursor up to n belongs to one
\* mutation ...
Dense(n, entries) ==
  /\ \A e \in entries : e.cursor \in 1..n
  /\ \A i \in 1..n : \E e \in entries : e.cursor = i
  /\ \A e, f \in entries : e.cursor = f.cursor => e = f

\* ... and every revision of a row to one mutation of its record, in order, the
\* last of which wrote the row.
History(rows, entries) ==
  /\ \A e \in entries : e.revision \in 1..rows[e.recordId].revision
  /\ \A r \in RecordId : \A i \in 1..rows[r].revision :
       \E e \in entries : e.recordId = r /\ e.revision = i
  /\ \A e, f \in entries :
       (e.recordId = f.recordId /\ e.revision < f.revision) => e.cursor < f.cursor
  /\ \A e \in entries :
       e.revision = rows[e.recordId].revision =>
         /\ e.cursor = rows[e.recordId].cursor
         /\ e.fingerprint.content = rows[e.recordId].content
  /\ \A r \in RecordId : rows[r].revision = 0 => rows[r] = NoRow

Tables(n, rows, entries) == Dense(n, entries) /\ History(rows, entries)

CommittedTables == Tables(nextCursor, records, mutations)

View(c) == [r \in RecordId |-> RowSeen(c, r)]

\* What the lock holder sees are such tables; while it writes, its cursor is
\* already that of the next mutation, whose base it has compared.
HolderView(c) ==
  /\ tx[c].pc = "open" =>
       /\ Tables(tx[c].cursor, View(c), EntriesSeen(c))
       /\ nextCursor <= tx[c].cursor
  /\ tx[c].pc = "write" =>
       /\ Tables(tx[c].cursor - 1, View(c), EntriesSeen(c))
       /\ nextCursor < tx[c].cursor
       /\ BaseMatches(c)

\* A transaction moves the rows it writes behind every committed cursor.
WrittenRowsMove(c) ==
  \A r \in RecordId :
    tx[c].rows[r] # NoRow => tx[c].rows[r].cursor > nextCursor

\* An entry of sync_mutation that a result is about.
Backs(e, a) ==
  /\ e.mutationId = a.mutationId /\ e.recordId = a.recordId
  /\ e.revision = a.revision /\ e.cursor = a.cursor

\* Results a transaction has noted are backed by what it sees.
ResultsBacked(c) ==
  \A a \in tx[c].results : \E e \in EntriesSeen(c) : Backs(e, a)

TxInv(c) ==
  NothingWritten(c) /\ HolderView(c) /\ WrittenRowsMove(c) /\ ResultsBacked(c)

IInv ==
  /\ TypeInv
  /\ MutualExclusion
  /\ CommittedTables
  /\ \A c \in Connection : TxInv(c)
  /\ AcksDurable
  /\ CursorNotAhead
  /\ ReaderComplete

-----------------------------------------------------------------------------
(* Type correctness *)

LEMMA IdleTyped == ASSUME ConstantsAssumption PROVE Idle \in Transaction
  BY DEF ConstantsAssumption, Idle, Transaction, NoRow, Row

LEMMA CurrentTyped ==
  ASSUME TypeOK, NEW c \in Connection, tx[c].next <= Len(tx[c].batch)
  PROVE  /\ Current(c) \in Request
         /\ Current(c).mutationId \in MutationId
         /\ Current(c).recordId \in RecordId
         /\ Current(c).baseRevision \in Nat
         /\ Current(c).content \in Content
  <1>1. tx[c] \in Transaction
    BY DEF TypeOK
  <1>2. tx[c].batch \in Batches \/ tx[c].batch = <<>>
    BY <1>1 DEF Transaction
  <1>3. tx[c].next \in Nat \ {0}
    BY <1>1 DEF Transaction
  <1>4. tx[c].batch \in Seq(Request)
    BY <1>2, <1>3, ConstantsAssumption DEF ConstantsAssumption
  <1>5. Current(c) \in Request
    BY <1>3, <1>4 DEF Current
  <1> QED
    BY <1>5, ConstantsAssumption DEF Request, Revision, ConstantsAssumption

LEMMA RowSeenTyped ==
  ASSUME TypeOK, NEW c \in Connection, NEW r \in RecordId
  PROVE  RowSeen(c, r) \in Row
  BY DEF TypeOK, RowSeen, Transaction

LEMMA EntriesSeenTyped ==
  ASSUME TypeOK, NEW c \in Connection
  PROVE  EntriesSeen(c) \subseteq Entry
  BY DEF TypeOK, EntriesSeen, Transaction

\* A step of c leaves the other transactions alone and sets the fields of its
\* own; the batch changes with Begin only.
Becomes(c, pc, next, cursor, rows, entries, results) ==
  /\ \A d \in Connection : d # c => tx'[d] = tx[d]
  /\ tx'[c].pc = pc
  /\ tx'[c].next = next
  /\ tx'[c].cursor = cursor
  /\ tx'[c].rows = rows
  /\ tx'[c].entries = entries
  /\ tx'[c].results = results

LEMMA BeginEffect ==
  ASSUME TypeOK, NEW c \in Connection, NEW batch \in Batches, Begin(c, batch)
  PROVE  Becomes(c, "begun", 1, 0, [r \in RecordId |-> NoRow], {}, {})
  BY DEF Begin, Idle, TypeOK, Transaction, Becomes

LEMMA LockVaultEffect ==
  ASSUME TypeOK, NEW c \in Connection, LockVault(c)
  PROVE  /\ Becomes(c, "open", tx[c].next, nextCursor, tx[c].rows,
                    tx[c].entries, tx[c].results)
         /\ tx'[c].batch = tx[c].batch
  BY DEF LockVault, TypeOK, Transaction, Becomes

ReplayResult(e) ==
  [mutationId |-> e.mutationId, recordId |-> e.recordId,
   revision |-> e.revision, cursor |-> e.cursor, status |-> "replayed"]

LEMMA ReplayEffect ==
  ASSUME TypeOK, NEW c \in Connection, Replay(c)
  PROVE  /\ \E e \in EntriesFor(c) :
              Becomes(c, "open", tx[c].next + 1, tx[c].cursor, tx[c].rows,
                      tx[c].entries, tx[c].results \cup {ReplayResult(e)})
         /\ tx'[c].batch = tx[c].batch
  <1>1. PICK e \in EntriesFor(c) :
          tx' = [tx EXCEPT ![c].next = @ + 1,
                           ![c].results = @ \cup {ReplayResult(e)}]
    BY DEF Replay, ReplayResult
  <1>2. tx[c].pc = "open"
    BY DEF Replay, InLoop
  <1>3. /\ Becomes(c, "open", tx[c].next + 1, tx[c].cursor, tx[c].rows,
                   tx[c].entries, tx[c].results \cup {ReplayResult(e)})
        /\ tx'[c].batch = tx[c].batch
    BY <1>1, <1>2 DEF TypeOK, Transaction, Becomes
  <1> QED
    BY <1>3

LEMMA AcceptEffect ==
  ASSUME TypeOK, NEW c \in Connection, Accept(c)
  PROVE  /\ Becomes(c, "write", tx[c].next, tx[c].cursor + 1, tx[c].rows,
                    tx[c].entries, tx[c].results)
         /\ tx'[c].batch = tx[c].batch
  BY DEF Accept, TypeOK, Transaction, Becomes

AppliedResult(c) ==
  [mutationId |-> Current(c).mutationId, recordId |-> Current(c).recordId,
   revision |-> Current(c).baseRevision + 1, cursor |-> tx[c].cursor,
   status |-> "applied"]

LEMMA WriteEffect ==
  ASSUME TypeOK, NEW c \in Connection, Write(c)
  PROVE  /\ Becomes(c, "open", tx[c].next + 1, tx[c].cursor,
                    [tx[c].rows EXCEPT ![Current(c).recordId] = WrittenRow(c)],
                    tx[c].entries \cup {WrittenEntry(c)},
                    tx[c].results \cup {AppliedResult(c)})
         /\ tx'[c].batch = tx[c].batch
  BY DEF Write, TypeOK, Transaction, Becomes, AppliedResult

\* Commit, Reject and Abort end the transaction.
LEMMA EndEffect ==
  ASSUME TypeOK, NEW c \in Connection, tx' = [tx EXCEPT ![c] = Idle]
  PROVE  Becomes(c, "idle", 1, 0, [r \in RecordId |-> NoRow], {}, {})
  BY DEF Idle, TypeOK, Transaction, Becomes

LEMMA NextTyped ==
  ASSUME NEW t \in Transaction
  PROVE  [t EXCEPT !.next = t.next + 1] \in Transaction
  BY DEF Transaction

LEMMA PcTyped ==
  ASSUME NEW t \in Transaction, NEW p \in {"idle", "begun", "open", "write"},
         NEW n \in Nat
  PROVE  [t EXCEPT !.pc = p, !.cursor = n] \in Transaction
  BY DEF Transaction

LEMMA ResultsTyped ==
  ASSUME NEW t \in Transaction, NEW S \in SUBSET Result
  PROVE  [t EXCEPT !.results = S] \in Transaction
  BY DEF Transaction

LEMMA ReplayTyped ==
  ASSUME TypeOK, NEW c \in Connection, Replay(c)
  PROVE  tx' \in [Connection -> Transaction]
  <1> DEFINE moved == [tx EXCEPT ![c].next = @ + 1]
  <1>1. PICK e \in EntriesFor(c) :
          tx' = [moved EXCEPT ![c].results = tx[c].results \cup {ReplayResult(e)}]
    BY DEF Replay, ReplayResult
  <1>2. tx \in [Connection -> Transaction]
    BY DEF TypeOK
  <1>3. moved \in [Connection -> Transaction]
    BY <1>2, NextTyped
  <1>4. ReplayResult(e) \in Result
    BY EntriesSeenTyped DEF EntriesFor, Entry, Result, ReplayResult
  <1>5. tx[c].results \cup {ReplayResult(e)} \in SUBSET Result
    BY <1>2, <1>4 DEF Transaction
  <1> HIDE DEF moved
  <1>6. [moved[c] EXCEPT !.results = tx[c].results \cup {ReplayResult(e)}]
          \in Transaction
    BY <1>3, <1>5, ResultsTyped
  <1> QED
    BY <1>1, <1>3, <1>6

LEMMA TypeInit == Init => TypeInv
  <1> SUFFICES ASSUME Init PROVE TypeInv
    OBVIOUS
  <1>1. tx \in [Connection -> Transaction]
    BY IdleTyped, ConstantsAssumption DEF Init
  <1>2. WriteInLoop
    BY DEF Init, WriteInLoop, Idle
  <1> QED
    BY <1>1, <1>2 DEF Init, TypeInv, TypeOK, Row, NoRow

LEMMA TypeNext == TypeInv /\ [Next]_vars => TypeInv'
  <1> SUFFICES ASSUME TypeInv, [Next]_vars PROVE TypeInv'
    OBVIOUS
  <1> USE DEF TypeInv
  <1>idle. Idle \in Transaction /\ Idle.pc = "idle"
    BY IdleTyped, ConstantsAssumption DEF Idle
  <1>1. ASSUME NEW c \in Connection, NEW batch \in Batches, Begin(c, batch)
        PROVE TypeInv'
    <2>1. [Idle EXCEPT !.pc = "begun", !.batch = batch] \in Transaction
      BY <1>idle DEF Transaction
    <2> QED
      BY <1>1, <2>1 DEF Begin, TypeOK, WriteInLoop, Idle
  <1>2. ASSUME NEW c \in Connection, LockVault(c)
        PROVE TypeInv'
    <2>1. nextCursor \in Nat /\ tx \in [Connection -> Transaction]
      BY DEF TypeOK
    <2>2. [tx[c] EXCEPT !.pc = "open", !.cursor = nextCursor] \in Transaction
      BY <2>1, PcTyped
    <2>3. tx' \in [Connection -> Transaction]
      <3>1. tx' = [tx EXCEPT ![c] = [tx[c] EXCEPT !.pc = "open", !.cursor = nextCursor]]
        BY <1>2, <2>1 DEF LockVault
      <3> QED
        BY ONLY <2>1, <2>2, <3>1
    <2>4. WriteInLoop'
      BY <1>2, LockVaultEffect DEF Becomes, WriteInLoop
    <2>5. UNCHANGED <<nextCursor, records, mutations, reader, acks>>
      BY <1>2 DEF LockVault
    <2>6. TypeOK'
      BY <2>3, <2>5 DEF TypeOK
    <2> QED
      BY <2>4, <2>6
  <1>3. ASSUME NEW c \in Connection, Replay(c)
        PROVE TypeInv'
    <2>1. WriteInLoop'
      BY <1>3, ReplayEffect DEF Becomes, WriteInLoop
    <2> QED
      BY <1>3, <2>1, ReplayTyped DEF Replay, TypeOK
  <1>4. ASSUME NEW c \in Connection, Accept(c)
        PROVE TypeInv'
    <2>1. tx \in [Connection -> Transaction]
      BY DEF TypeOK
    <2>2. [tx[c] EXCEPT !.pc = "write", !.cursor = tx[c].cursor + 1] \in Transaction
      <3>1. tx[c] \in Transaction /\ tx[c].cursor + 1 \in Nat
        BY <2>1 DEF Transaction
      <3> QED
        BY <3>1, PcTyped
    <2>3. tx' \in [Connection -> Transaction]
      <3>1. tx' = [tx EXCEPT ![c] = [tx[c] EXCEPT !.pc = "write", !.cursor = tx[c].cursor + 1]]
        BY <1>4, <2>1 DEF Accept
      <3> QED
        BY ONLY <2>1, <2>2, <3>1
    <2>4. WriteInLoop'
      <3>1. /\ \A d \in Connection : d # c => tx'[d] = tx[d]
            /\ tx'[c].next = tx[c].next /\ tx'[c].batch = tx[c].batch
        BY <1>4, <2>1 DEF Accept
      <3>2. tx[c].next <= Len(tx[c].batch)
        BY <1>4 DEF Accept, InLoop
      <3> QED
        BY <3>1, <3>2 DEF WriteInLoop
    <2>5. UNCHANGED <<nextCursor, records, mutations, reader, acks>>
      BY <1>4 DEF Accept
    <2>6. TypeOK'
      BY <2>3, <2>5 DEF TypeOK
    <2> QED
      BY <2>4, <2>6
  <1>5. ASSUME NEW c \in Connection, Reject(c) \/ Abort(c)
        PROVE TypeInv'
    BY <1>5, <1>idle DEF Reject, Abort, TypeOK, WriteInLoop
  <1>6. ASSUME NEW c \in Connection, Write(c)
        PROVE TypeInv'
    <2>1. tx[c].pc = "write" /\ tx[c].next <= Len(tx[c].batch)
      BY <1>6 DEF Write, WriteInLoop
    <2>2. /\ Current(c) \in Request
          /\ Current(c).mutationId \in MutationId
          /\ Current(c).recordId \in RecordId
          /\ Current(c).baseRevision \in Nat
          /\ Current(c).content \in Content
      BY <2>1, CurrentTyped
    <2>3. tx[c] \in Transaction
      BY DEF TypeOK
    <2>4. WrittenRow(c) \in Row /\ WrittenEntry(c) \in Entry
      BY <2>2, <2>3 DEF WrittenRow, WrittenEntry, Row, Entry, Transaction
    <2>5. [mutationId |-> Current(c).mutationId,
           recordId |-> Current(c).recordId,
           revision |-> Current(c).baseRevision + 1,
           cursor |-> tx[c].cursor, status |-> "applied"] \in Result
      BY <2>2, <2>3 DEF Result, Transaction
    <2>6. tx'[c] \in Transaction
      BY <1>6, <2>2, <2>3, <2>4, <2>5 DEF Write, TypeOK, Transaction
    <2> QED
      BY <1>6, <2>1, <2>6 DEF Write, TypeOK, WriteInLoop
  <1>7. ASSUME NEW c \in Connection, Commit(c)
        PROVE TypeInv'
    <2>1. records' \in [RecordId -> Row]
      BY <1>7, RowSeenTyped DEF Commit
    <2>2. mutations' \in SUBSET Entry
      BY <1>7, EntriesSeenTyped DEF Commit
    <2>3. nextCursor' \in Nat /\ acks' \in SUBSET Result
      BY <1>7 DEF Commit, TypeOK, Transaction
    <2> QED
      BY <1>7, <1>idle, <2>1, <2>2, <2>3 DEF Commit, TypeOK, WriteInLoop
  <1>8. ASSUME NEW k \in Reader, Pull(k)
        PROVE TypeInv'
    <2>1. PICK n \in 0..nextCursor :
            reader' = [reader EXCEPT ![k] =
              [cursor |-> n,
               rows |-> [r \in RecordId |->
                         IF r \in Page(reader[k].cursor) THEN records[r]
                         ELSE reader[k].rows[r]]]]
      BY <1>8 DEF Pull
    <2>2. reader' \in [Reader -> [cursor : Nat, rows : [RecordId -> Row]]]
      BY <2>1 DEF TypeOK
    <2> QED
      BY <1>8, <2>2 DEF Pull, TypeOK, WriteInLoop
  <1>9. CASE UNCHANGED vars
    BY <1>9 DEF vars, TypeOK, WriteInLoop
  <1> QED
    BY <1>1, <1>2, <1>3, <1>4, <1>5, <1>6, <1>7, <1>8, <1>9 DEF Next, Push

\* Every reachable state has the declared types, whatever the batches are.
THEOREM TypeCorrect == Spec => []TypeOK
  <1>1. TypeInv => TypeOK
    BY DEF TypeInv
  <1> QED
    BY <1>1, TypeInit, TypeNext, PTL DEF Spec

-----------------------------------------------------------------------------
(* The inductive invariant *)

\* One more mutation, on top of the row's revision and with the next cursor,
\* leaves tables as they must be.
LEMMA TablesExtended ==
  ASSUME NEW n \in Nat, NEW rows \in [RecordId -> Row], NEW entries \in SUBSET Entry,
         NEW e \in Entry, NEW row \in Row,
         Tables(n, rows, entries),
         e.recordId \in RecordId,
         e.cursor = n + 1,
         e.revision = rows[e.recordId].revision + 1,
         row.revision = e.revision,
         row.cursor = e.cursor,
         row.content = e.fingerprint.content
  PROVE  Tables(n + 1, [rows EXCEPT ![e.recordId] = row], entries \cup {e})
  <1>1. Dense(n + 1, entries \cup {e})
    BY DEF Tables, Dense, Entry
  <1>2. History([rows EXCEPT ![e.recordId] = row], entries \cup {e})
    BY DEF Tables, Dense, History, Entry, Row
  <1> QED
    BY <1>1, <1>2 DEF Tables

\* A transaction is not affected by what another one does before its commit.
LEMMA OtherTx ==
  ASSUME NEW d \in Connection, TxInv(d), tx'[d] = tx[d],
         UNCHANGED <<nextCursor, records, mutations>>
  PROVE  TxInv(d)'
  <1>1. NothingWritten(d)'
    BY DEF TxInv, NothingWritten, HoldsLock
  <1>2. View(d)' = View(d) /\ EntriesSeen(d)' = EntriesSeen(d)
    BY DEF View, RowSeen, EntriesSeen
  <1>3. HolderView(d)'
    <2>1. BaseMatches(d) => BaseMatches(d)'
      BY DEF BaseMatches, RowSeen, Current
    <2>2. tx'[d].pc = "open" => /\ Tables(tx[d].cursor, View(d), EntriesSeen(d))'
                               /\ nextCursor' <= tx'[d].cursor
      BY <1>2 DEF TxInv, HolderView, Tables, Dense, History
    <2>3. tx'[d].pc = "write" => /\ Tables(tx[d].cursor - 1, View(d), EntriesSeen(d))'
                                /\ nextCursor' < tx'[d].cursor
      BY <1>2 DEF TxInv, HolderView, Tables, Dense, History
    <2> QED
      BY <2>1, <2>2, <2>3 DEF TxInv, HolderView
  <1>4. WrittenRowsMove(d)'
    BY DEF TxInv, WrittenRowsMove
  <1>5. ResultsBacked(d)'
    BY <1>2 DEF TxInv, ResultsBacked, Backs
  <1> QED
    BY <1>1, <1>3, <1>4, <1>5 DEF TxInv

\* A step that changes nothing but the transaction of c.
LEMMA TxStep ==
  ASSUME IInv, TypeInv', NEW c \in Connection,
         UNCHANGED <<nextCursor, records, mutations, reader, acks>>,
         \A d \in Connection : d # c => tx'[d] = tx[d],
         TxInv(c)',
         HoldsLock(c)' => \A d \in Connection : d # c => ~HoldsLock(d)
  PROVE  IInv'
  <1>1. MutualExclusion'
    BY DEF IInv, MutualExclusion, HoldsLock
  <1>2. CommittedTables'
    BY DEF IInv, CommittedTables, Tables, Dense, History
  <1>3. \A d \in Connection : TxInv(d)'
    BY OtherTx DEF IInv
  <1>4. AcksDurable' /\ CursorNotAhead' /\ ReaderComplete'
    BY DEF IInv, AcksDurable, CursorNotAhead, ReaderComplete
  <1> QED
    BY <1>1, <1>2, <1>3, <1>4 DEF IInv

LEMMA BeginKeeps ==
  ASSUME IInv, TypeInv', NEW c \in Connection, NEW batch \in Batches, Begin(c, batch)
  PROVE  IInv'
  <1>1. Becomes(c, "begun", 1, 0, [r \in RecordId |-> NoRow], {}, {})
    BY BeginEffect DEF IInv, TypeInv
  <1>2. TxInv(c)' /\ ~HoldsLock(c)'
    BY <1>1 DEF Becomes, TxInv, NothingWritten, HoldsLock, HolderView,
                WrittenRowsMove, ResultsBacked
  <1> QED
    BY <1>1, <1>2, TxStep DEF Begin, Becomes

LEMMA LockVaultKeeps ==
  ASSUME IInv, TypeInv', NEW c \in Connection, LockVault(c)
  PROVE  IInv'
  <1>1. /\ Becomes(c, "open", tx[c].next, nextCursor, tx[c].rows,
                   tx[c].entries, tx[c].results)
        /\ UNCHANGED <<nextCursor, records, mutations, reader, acks>>
        /\ \A d \in Connection : ~HoldsLock(d)
    BY LockVaultEffect DEF LockVault, IInv, TypeInv
  <1>2. /\ tx[c].rows = [r \in RecordId |-> NoRow]
        /\ tx[c].entries = {} /\ tx[c].results = {}
    BY <1>1 DEF IInv, TxInv, NothingWritten
  <1>3. View(c)' = records /\ EntriesSeen(c)' = mutations
    BY <1>1, <1>2 DEF Becomes, View, RowSeen, EntriesSeen, IInv, TypeInv, TypeOK
  <1>4. HolderView(c)'
    BY <1>1, <1>3 DEF Becomes, HolderView, IInv, TypeInv, TypeOK, CommittedTables
  <1>5. NothingWritten(c)' /\ WrittenRowsMove(c)' /\ ResultsBacked(c)'
    BY <1>1, <1>2 DEF Becomes, NothingWritten, WrittenRowsMove, ResultsBacked
  <1> QED
    BY <1>1, <1>4, <1>5, TxStep DEF Becomes, TxInv

LEMMA ReplayKeeps ==
  ASSUME IInv, TypeInv', NEW c \in Connection, Replay(c)
  PROVE  IInv'
  <1>1. /\ tx[c].pc = "open"
        /\ UNCHANGED <<nextCursor, records, mutations, reader, acks>>
    BY DEF Replay, InLoop
  <1>2. PICK e \in EntriesFor(c) :
          Becomes(c, "open", tx[c].next + 1, tx[c].cursor, tx[c].rows,
                  tx[c].entries, tx[c].results \cup {ReplayResult(e)})
    BY ReplayEffect DEF IInv, TypeInv
  <1>3. View(c)' = View(c) /\ EntriesSeen(c)' = EntriesSeen(c)
    BY <1>1, <1>2 DEF Becomes, View, RowSeen, EntriesSeen
  <1>4. HolderView(c)' /\ NothingWritten(c)' /\ WrittenRowsMove(c)'
    BY <1>1, <1>2, <1>3 DEF Becomes, HolderView, NothingWritten, HoldsLock,
                            WrittenRowsMove, IInv, TxInv
  <1>5. ResultsBacked(c)'
    <2>1. e \in EntriesSeen(c) /\ Backs(e, ReplayResult(e))
      BY DEF EntriesFor, Backs, ReplayResult
    <2> QED
      BY <1>2, <1>3, <2>1 DEF Becomes, ResultsBacked, Backs, IInv, TxInv
  <1>6. \A d \in Connection : d # c => ~HoldsLock(d)
    BY <1>1 DEF IInv, MutualExclusion, HoldsLock
  <1> QED
    BY <1>1, <1>2, <1>4, <1>5, <1>6, TxStep DEF Becomes, TxInv

LEMMA AcceptKeeps ==
  ASSUME IInv, TypeInv', NEW c \in Connection, Accept(c)
  PROVE  IInv'
  <1>1. /\ tx[c].pc = "open" /\ BaseMatches(c)
        /\ UNCHANGED <<nextCursor, records, mutations, reader, acks>>
    BY DEF Accept, InLoop
  <1>2. /\ Becomes(c, "write", tx[c].next, tx[c].cursor + 1, tx[c].rows,
                   tx[c].entries, tx[c].results)
        /\ tx'[c].batch = tx[c].batch
    BY AcceptEffect DEF IInv, TypeInv
  <1>3. /\ View(c)' = View(c) /\ EntriesSeen(c)' = EntriesSeen(c)
        /\ BaseMatches(c)'
    BY <1>1, <1>2 DEF Becomes, View, RowSeen, EntriesSeen, BaseMatches, Current
  <1>4. tx[c].cursor \in Nat /\ nextCursor \in Nat
    BY DEF IInv, TypeInv, TypeOK, Transaction
  <1>5. HolderView(c)'
    BY <1>1, <1>2, <1>3, <1>4 DEF Becomes, HolderView, IInv, TxInv
  <1>6. NothingWritten(c)' /\ WrittenRowsMove(c)' /\ ResultsBacked(c)'
    BY <1>1, <1>2, <1>3 DEF Becomes, NothingWritten, HoldsLock, WrittenRowsMove,
                            ResultsBacked, Backs, IInv, TxInv
  <1>7. \A d \in Connection : d # c => ~HoldsLock(d)
    BY <1>1 DEF IInv, MutualExclusion, HoldsLock
  <1> QED
    BY <1>1, <1>2, <1>5, <1>6, <1>7, TxStep DEF Becomes, TxInv

LEMMA EndKeeps ==
  ASSUME IInv, TypeInv', NEW c \in Connection, Reject(c) \/ Abort(c)
  PROVE  IInv'
  <1>1. /\ tx' = [tx EXCEPT ![c] = Idle]
        /\ UNCHANGED <<nextCursor, records, mutations, reader, acks>>
    BY DEF Reject, Abort
  <1>2. Becomes(c, "idle", 1, 0, [r \in RecordId |-> NoRow], {}, {})
    BY <1>1, EndEffect DEF IInv, TypeInv
  <1>3. TxInv(c)' /\ ~HoldsLock(c)'
    BY <1>2 DEF Becomes, TxInv, NothingWritten, HoldsLock, HolderView,
                WrittenRowsMove, ResultsBacked
  <1> QED
    BY <1>1, <1>2, <1>3, TxStep DEF Becomes

LEMMA WriteKeeps ==
  ASSUME IInv, TypeInv', NEW c \in Connection, Write(c)
  PROVE  IInv'
  <1> DEFINE rid == Current(c).recordId
             e == WrittenEntry(c)
             row == WrittenRow(c)
             n == tx[c].cursor - 1
  <1>1. /\ tx[c].pc = "write"
        /\ UNCHANGED <<nextCursor, records, mutations, reader, acks>>
    BY DEF Write
  <1>2. Becomes(c, "open", tx[c].next + 1, tx[c].cursor,
                [tx[c].rows EXCEPT ![rid] = row], tx[c].entries \cup {e},
                tx[c].results \cup {AppliedResult(c)})
    BY WriteEffect DEF IInv, TypeInv
  <1>3. /\ Current(c) \in Request /\ rid \in RecordId
        /\ Current(c).mutationId \in MutationId
        /\ Current(c).baseRevision \in Nat
        /\ Current(c).content \in Content
    BY <1>1, CurrentTyped DEF IInv, TypeInv, WriteInLoop
  <1>4. tx[c].cursor \in Nat /\ nextCursor \in Nat
    BY DEF IInv, TypeInv, TypeOK, Transaction
  <1>5. /\ Tables(n, View(c), EntriesSeen(c))
        /\ nextCursor < tx[c].cursor
        /\ BaseMatches(c)
    BY <1>1 DEF IInv, TxInv, HolderView
  <1>6. /\ View(c) \in [RecordId -> Row]
        /\ EntriesSeen(c) \in SUBSET Entry
    BY RowSeenTyped, EntriesSeenTyped DEF IInv, TypeInv, View
  <1>7. e \in Entry /\ row \in Row
    BY <1>3, <1>4 DEF WrittenEntry, WrittenRow, Entry, Row
  <1>8. /\ e.recordId = rid /\ e.cursor = n + 1 /\ n \in Nat
        /\ e.revision = View(c)[rid].revision + 1
        /\ row.revision = e.revision /\ row.cursor = e.cursor
        /\ row.content = e.fingerprint.content
    BY <1>3, <1>4, <1>5 DEF WrittenEntry, WrittenRow, BaseMatches, View
  <1>9. Tables(n + 1, [View(c) EXCEPT ![rid] = row], EntriesSeen(c) \cup {e})
    <2> HIDE DEF e, row, rid, n
    <2> QED
      BY <1>3, <1>5, <1>6, <1>7, <1>8, TablesExtended
  <1>10. /\ View(c)' = [View(c) EXCEPT ![rid] = row]
         /\ EntriesSeen(c)' = EntriesSeen(c) \cup {e}
    <2>1. row # NoRow
      BY <1>3 DEF WrittenRow, NoRow
    <2>2. tx[c].rows \in [RecordId -> Row]
      BY DEF IInv, TypeInv, TypeOK, Transaction
    <2> HIDE DEF e, row, rid
    <2> QED
      BY <1>1, <1>2, <1>3, <2>1, <2>2 DEF Becomes, View, RowSeen, EntriesSeen
  <1>11. HolderView(c)'
    BY <1>2, <1>4, <1>5, <1>9, <1>10, <1>1 DEF Becomes, HolderView
  <1>12. NothingWritten(c)'
    BY <1>2 DEF Becomes, NothingWritten, HoldsLock
  <1>13. WrittenRowsMove(c)'
    <2>1. row.cursor > nextCursor
      BY <1>4, <1>5 DEF WrittenRow
    <2>2. tx[c].rows \in [RecordId -> Row]
      BY DEF IInv, TypeInv, TypeOK, Transaction
    <2> HIDE DEF e, row, rid
    <2> QED
      BY <1>1, <1>2, <2>1, <2>2 DEF Becomes, WrittenRowsMove, IInv, TxInv
  <1>14. ResultsBacked(c)'
    <2>1. Backs(e, AppliedResult(c))
      BY DEF Backs, WrittenEntry, AppliedResult
    <2>2. ResultsBacked(c)
      BY DEF IInv, TxInv
    <2> HIDE DEF e, row, rid
    <2> QED
      BY <1>2, <1>10, <2>1, <2>2 DEF Becomes, ResultsBacked, Backs
  <1>15. \A d \in Connection : d # c => ~HoldsLock(d)
    BY <1>1 DEF IInv, MutualExclusion, HoldsLock
  <1>16. \A d \in Connection : d # c => tx'[d] = tx[d]
    BY <1>2 DEF Becomes
  <1> QED
    BY <1>1, <1>11, <1>12, <1>13, <1>14, <1>15, <1>16, TxStep DEF TxInv

\* The commit makes the view of the lock holder the tables.
LEMMA CommitKeeps ==
  ASSUME IInv, TypeInv', NEW c \in Connection, Commit(c)
  PROVE  IInv'
  <1>1. /\ tx[c].pc = "open"
        /\ nextCursor' = tx[c].cursor
        /\ records' = View(c)
        /\ mutations' = EntriesSeen(c)
        /\ acks' \subseteq acks \cup tx[c].results
        /\ reader' = reader
    BY DEF Commit, View
  <1>2. Becomes(c, "idle", 1, 0, [r \in RecordId |-> NoRow], {}, {})
    BY EndEffect DEF Commit, IInv, TypeInv
  <1>3. \A d \in Connection : d # c => ~HoldsLock(d) /\ tx'[d] = tx[d]
    BY <1>1, <1>2 DEF IInv, MutualExclusion, HoldsLock, Becomes
  <1>4. /\ Tables(tx[c].cursor, View(c), EntriesSeen(c))
        /\ nextCursor <= tx[c].cursor
    BY <1>1 DEF IInv, TxInv, HolderView
  <1>5. CommittedTables'
    BY <1>1, <1>4 DEF CommittedTables, Tables, Dense, History
  <1>6. MutualExclusion'
    BY <1>2, <1>3 DEF MutualExclusion, HoldsLock, Becomes
  <1>7. ASSUME NEW d \in Connection PROVE TxInv(d)'
    <2>1. ~HoldsLock(d)'
      BY <1>2, <1>3 DEF HoldsLock, Becomes
    <2>2. NothingWritten(d)
      BY DEF IInv, TxInv
    <2>3. /\ tx'[d].rows = [r \in RecordId |-> NoRow]
          /\ tx'[d].entries = {} /\ tx'[d].results = {}
      BY <1>2, <1>3, <2>2 DEF Becomes, NothingWritten
    <2> QED
      BY <2>1, <2>3 DEF TxInv, NothingWritten, HoldsLock, HolderView,
                        WrittenRowsMove, ResultsBacked
  <1>8. AcksDurable'
    <2>1. \A a \in tx[c].results : \E e \in mutations' : Backs(e, a)
      BY <1>1 DEF IInv, TxInv, ResultsBacked
    <2>2. mutations \subseteq mutations'
      BY <1>1 DEF EntriesSeen
    <2> QED
      BY <1>1, <2>1, <2>2 DEF IInv, AcksDurable, Backs
  <1>9. CursorNotAhead'
    BY <1>1, <1>4 DEF IInv, CursorNotAhead, TypeInv, TypeOK, Transaction
  <1>10. ReaderComplete'
    <2>1. SUFFICES ASSUME NEW k \in Reader, NEW r \in RecordId,
                          records'[r].cursor <= reader[k].cursor
                   PROVE  reader[k].rows[r] = records'[r]
      BY <1>1 DEF ReaderComplete
    <2>2. reader[k].cursor <= nextCursor /\ reader[k].cursor \in Nat /\ nextCursor \in Nat
      BY DEF IInv, CursorNotAhead, TypeInv, TypeOK
    <2>3. CASE tx[c].rows[r] = NoRow
      BY <1>1, <2>1, <2>3 DEF View, RowSeen, IInv, ReaderComplete
    <2>4. CASE tx[c].rows[r] # NoRow
      <3>1. records'[r].cursor > nextCursor
        BY <1>1, <2>4 DEF View, RowSeen, IInv, TxInv, WrittenRowsMove
      <3>2. records'[r].cursor \in Nat
        BY DEF TypeInv, TypeOK, Row
      <3> QED
        BY <2>1, <2>2, <3>1, <3>2
    <2> QED
      BY <2>3, <2>4
  <1> QED
    BY <1>5, <1>6, <1>7, <1>8, <1>9, <1>10 DEF IInv

\* A page has every row between the reader's cursor and the one it returns.
LEMMA PageHasNoGap ==
  ASSUME TypeOK, NEW after \in Nat, NEW n \in Nat, IsNextCursor(after, n),
         NEW r \in RecordId, records[r].cursor > after, records[r].cursor <= n,
         n <= nextCursor
  PROVE  r \in Page(after)
  <1>1. IsFiniteSet(Fresh(after)) /\ nextCursor \in Nat /\ PageLimit \in Nat
    <2>1. Fresh(after) \subseteq RecordId
      BY DEF Fresh
    <2> QED
      BY <2>1, FS_Subset, ConstantsAssumption DEF ConstantsAssumption, TypeOK
  <1>2. \A q \in RecordId : records[q].cursor \in Nat
    BY DEF TypeOK, Row
  <1>3. r \in Fresh(after)
    BY <1>1, <1>2 DEF Fresh
  <1>4. \A q \in Fresh(after) :
          /\ IsFiniteSet(NotAfter(q, after))
          /\ Cardinality(NotAfter(q, after)) \in Nat
          /\ Cardinality(NotAfter(q, after)) <= Cardinality(Fresh(after))
    <2>1. \A q \in Fresh(after) : NotAfter(q, after) \subseteq Fresh(after)
      BY DEF NotAfter
    <2> QED
      BY <1>1, <2>1, FS_Subset, FS_CardinalityType
  <1>5. CASE HasMore(after)
    <2>1. PICK q \in Page(after) : n = records[q].cursor
      BY <1>5 DEF IsNextCursor
    <2>2. q \in Fresh(after) /\ Cardinality(NotAfter(q, after)) <= PageLimit
      BY <2>1 DEF Page
    <2>3. NotAfter(r, after) \subseteq NotAfter(q, after)
      BY <1>2, <2>1, <2>2 DEF NotAfter, Fresh
    <2>4. Cardinality(NotAfter(r, after)) <= Cardinality(NotAfter(q, after))
      BY <1>4, <2>2, <2>3, FS_Subset
    <2> QED
      BY <1>1, <1>3, <1>4, <2>2, <2>4 DEF Page
  <1>6. CASE ~HasMore(after)
    <2>1. Cardinality(Fresh(after)) <= PageLimit
      BY <1>1, <1>6, FS_CardinalityType DEF HasMore
    <2> QED
      BY <1>1, <1>3, <1>4, <2>1, FS_CardinalityType DEF Page
  <1> QED
    BY <1>5, <1>6

LEMMA PullKeeps ==
  ASSUME IInv, TypeInv', NEW k \in Reader, Pull(k)
  PROVE  IInv'
  <1>1. UNCHANGED <<nextCursor, records, mutations, tx, acks>>
    BY DEF Pull
  <1>2. PICK n \in 0..nextCursor :
          /\ IsNextCursor(reader[k].cursor, n)
          /\ reader' = [reader EXCEPT ![k] =
               [cursor |-> n,
                rows |-> [r \in RecordId |->
                            IF r \in Page(reader[k].cursor) THEN records[r]
                            ELSE reader[k].rows[r]]]]
    BY DEF Pull
  <1>3. /\ reader \in [Reader -> [cursor : Nat, rows : [RecordId -> Row]]]
        /\ nextCursor \in Nat /\ n \in Nat /\ n <= nextCursor
        /\ \A r \in RecordId : records[r].cursor \in Nat
    BY DEF IInv, TypeInv, TypeOK, Row
  <1>4. CursorNotAhead'
    BY <1>1, <1>2, <1>3 DEF IInv, CursorNotAhead
  <1>5. ReaderComplete'
    <2>1. SUFFICES ASSUME NEW j \in Reader, NEW r \in RecordId,
                          records[r].cursor <= reader'[j].cursor
                   PROVE  reader'[j].rows[r] = records[r]
      BY <1>1 DEF ReaderComplete
    <2>2. CASE j # k
      BY <1>2, <1>3, <2>1, <2>2 DEF IInv, ReaderComplete
    <2>3. CASE j = k /\ records[r].cursor <= reader[k].cursor
      BY <1>2, <1>3, <2>1, <2>3 DEF IInv, ReaderComplete
    <2>4. CASE j = k /\ records[r].cursor > reader[k].cursor
      <3>1. records[r].cursor <= n
        BY <1>2, <1>3, <2>1, <2>4
      <3>2. r \in Page(reader[k].cursor)
        BY <1>2, <1>3, <2>4, <3>1, PageHasNoGap DEF IInv, TypeInv
      <3> QED
        BY <1>2, <1>3, <2>4, <3>2
    <2> QED
      BY <1>3, <2>2, <2>3, <2>4
  <1>6. \A c \in Connection : TxInv(c)'
    BY <1>1, OtherTx DEF IInv
  <1>7. MutualExclusion' /\ CommittedTables' /\ AcksDurable'
    BY <1>1 DEF IInv, MutualExclusion, HoldsLock, CommittedTables, Tables, Dense,
                History, AcksDurable
  <1> QED
    BY <1>4, <1>5, <1>6, <1>7 DEF IInv

LEMMA IInvInit == Init => IInv
  <1> SUFFICES ASSUME Init PROVE IInv
    OBVIOUS
  <1>1. CommittedTables
    BY DEF Init, CommittedTables, Tables, Dense, History, NoRow
  <1>2. ASSUME NEW c \in Connection PROVE TxInv(c)
    BY DEF Init, Idle, TxInv, NothingWritten, HoldsLock, HolderView,
           WrittenRowsMove, ResultsBacked
  <1>3. MutualExclusion
    BY DEF Init, Idle, MutualExclusion, HoldsLock
  <1>4. AcksDurable /\ CursorNotAhead /\ ReaderComplete
    BY DEF Init, AcksDurable, CursorNotAhead, ReaderComplete
  <1> QED
    BY <1>1, <1>2, <1>3, <1>4, TypeInit DEF IInv

LEMMA IInvNext == IInv /\ [Next]_vars => IInv'
  <1> SUFFICES ASSUME IInv, [Next]_vars PROVE IInv'
    OBVIOUS
  <1>1. TypeInv'
    BY TypeNext DEF IInv
  <1>2. ASSUME NEW c \in Connection, NEW batch \in Batches, Begin(c, batch)
        PROVE  IInv'
    BY <1>1, <1>2, BeginKeeps
  <1>3. ASSUME NEW c \in Connection, LockVault(c) PROVE IInv'
    BY <1>1, <1>3, LockVaultKeeps
  <1>4. ASSUME NEW c \in Connection, Replay(c) PROVE IInv'
    BY <1>1, <1>4, ReplayKeeps
  <1>5. ASSUME NEW c \in Connection, Accept(c) PROVE IInv'
    BY <1>1, <1>5, AcceptKeeps
  <1>6. ASSUME NEW c \in Connection, Reject(c) \/ Abort(c) PROVE IInv'
    BY <1>1, <1>6, EndKeeps
  <1>7. ASSUME NEW c \in Connection, Write(c) PROVE IInv'
    BY <1>1, <1>7, WriteKeeps
  <1>8. ASSUME NEW c \in Connection, Commit(c) PROVE IInv'
    BY <1>1, <1>8, CommitKeeps
  <1>9. ASSUME NEW k \in Reader, Pull(k) PROVE IInv'
    BY <1>1, <1>9, PullKeeps
  <1>10. CASE UNCHANGED vars
    <2>1. \A c \in Connection : TxInv(c)'
      BY <1>10, OtherTx DEF vars, IInv
    <2>2. MutualExclusion' /\ CommittedTables'
      BY <1>10 DEF vars, IInv, MutualExclusion, HoldsLock, CommittedTables,
                   Tables, Dense, History
    <2>3. AcksDurable' /\ CursorNotAhead' /\ ReaderComplete'
      BY <1>10 DEF vars, IInv, AcksDurable, CursorNotAhead, ReaderComplete
    <2> QED
      BY <1>1, <2>1, <2>2, <2>3 DEF IInv
  <1> QED
    BY <1>2, <1>3, <1>4, <1>5, <1>6, <1>7, <1>8, <1>9, <1>10 DEF Next, Push

LEMMA Invariance == Spec => []IInv
  BY IInvInit, IInvNext, PTL DEF Spec

-----------------------------------------------------------------------------
(* What follows *)

\* However pushes interleave, fail or roll back, the cursors in use are exactly
\* 1..nextCursor, one mutation each (pushMutations' cursor counter).
THEOREM CursorsAlwaysDense == Spec => []CursorsDense
  <1>1. IInv => CursorsDense
    <2> SUFFICES ASSUME IInv PROVE CursorsDense
      OBVIOUS
    <2>1. Dense(nextCursor, mutations)
      BY DEF IInv, CommittedTables, Tables
    <2>2. {e.cursor : e \in mutations} = 1..nextCursor
      BY <2>1 DEF Dense
    <2> QED
      BY <2>1, <2>2 DEF Dense, CursorsDense
  <1> QED
    BY <1>1, Invariance, PTL

\* No push overwrites a revision it was not based on: every record's mutations
\* are numbered 1..n in the order of the feed and the row is the last of them.
THEOREM UpdatesNeverLost == Spec => []NoLostUpdate
  <1>1. IInv => NoLostUpdate
    <2> SUFFICES ASSUME IInv, NEW r \in RecordId
                 PROVE  LET history == {e \in mutations : e.recordId = r} IN
                          /\ {e.revision : e \in history} = 1..records[r].revision
                          /\ \A e, f \in history :
                               e.revision < f.revision => e.cursor < f.cursor
                          /\ \A e \in history :
                               e.revision = records[r].revision =>
                                 /\ e.cursor = records[r].cursor
                                 /\ e.fingerprint.content = records[r].content
      BY DEF NoLostUpdate
    <2> DEFINE history == {e \in mutations : e.recordId = r}
    <2>1. History(records, mutations)
      BY DEF IInv, CommittedTables, Tables
    <2>2. {e.revision : e \in history} = 1..records[r].revision
      BY <2>1 DEF History
    <2>3. \A e, f \in history : e.revision < f.revision => e.cursor < f.cursor
      BY <2>1 DEF History
    <2>4. \A e \in history : e.revision = records[r].revision =>
            /\ e.cursor = records[r].cursor
            /\ e.fingerprint.content = records[r].content
      BY <2>1 DEF History
    <2> QED
      BY <2>2, <2>3, <2>4
  <1> QED
    BY <1>1, Invariance, PTL

\* What a device was told about a mutation stays true (the results that
\* pushMutations returns after its commit).
THEOREM AcksAlwaysDurable == Spec => []AcksDurable
  <1>1. IInv => AcksDurable
    BY DEF IInv
  <1> QED
    BY <1>1, Invariance, PTL

\* A device that follows nextCursor page by page misses no row, for every page
\* size and every number of records (pullChanges).
THEOREM ReadersAlwaysComplete == Spec => [](ReaderComplete /\ CursorNotAhead)
  <1>1. IInv => ReaderComplete /\ CursorNotAhead
    BY DEF IInv
  <1> QED
    BY <1>1, Invariance, PTL

-----------------------------------------------------------------------------
(* The store implements the log                                            *)
(*                                                                         *)
(* For the log the tables say too little: what they keep of a request, and *)
(* that a transaction answers every mutation of its batch, is invariant on *)
(* top of IInv.                                                            *)

\* An entry is of the request it was answered for; mutation ids and revisions
\* are used once.
Logged(entries) ==
  /\ \A e \in entries : /\ e.mutationId = e.fingerprint.mutationId
                        /\ e.recordId = e.fingerprint.recordId
                        /\ e.revision = e.fingerprint.baseRevision + 1
  /\ \A e, f \in entries : e.mutationId = f.mutationId => e = f
  /\ \A e, f \in entries : e.recordId = f.recordId /\ e.revision = f.revision => e = f

\* The mutations of the batch before position n have entries, and what the
\* transaction wrote is of them.
Handled(c, n) ==
  /\ n <= Len(tx[c].batch) + 1
  /\ \A j \in 1..(n - 1) : \E e \in EntriesSeen(c) : e.fingerprint = tx[c].batch[j]
  /\ \A e \in tx[c].entries : \E j \in 1..(n - 1) : e.fingerprint = tx[c].batch[j]

BatchInv(c) ==
  /\ tx[c].pc # "idle" => tx[c].batch \in Batches
  /\ tx[c].pc = "begun" => tx[c].next = 1
  /\ HoldsLock(c) => Logged(EntriesSeen(c)) /\ Handled(c, tx[c].next)
  /\ tx[c].pc = "write" => EntriesFor(c) = {}

LInv == Logged(mutations) /\ \A c \in Connection : BatchInv(c)

LEMMA BatchTyped ==
  ASSUME TypeOK, NEW c \in Connection, tx[c].batch \in Batches
  PROVE  /\ tx[c].batch \in Seq(Request) /\ Len(tx[c].batch) \in Nat
         /\ DOMAIN tx[c].batch = 1..Len(tx[c].batch) /\ tx[c].next \in Nat \ {0}
  <1>1. tx[c].next \in Nat \ {0}
    BY DEF TypeOK, Transaction
  <1>2. tx[c].batch \in Seq(Request)
    BY ConstantsAssumption DEF ConstantsAssumption
  <1> QED
    BY <1>1, <1>2, LenProperties

LEMMA OtherBatch ==
  ASSUME NEW d \in Connection, BatchInv(d), tx'[d] = tx[d], mutations' = mutations
  PROVE  BatchInv(d)'
  BY DEF BatchInv, HoldsLock, EntriesSeen, EntriesFor, Current, Handled, Logged

LEMMA LoggedExtended ==
  ASSUME NEW n, NEW rows, NEW entries \in SUBSET Entry, NEW e \in Entry,
         Tables(n, rows, entries), Logged(entries),
         e.mutationId = e.fingerprint.mutationId, e.recordId = e.fingerprint.recordId,
         e.revision = e.fingerprint.baseRevision + 1,
         rows[e.recordId].revision \in Nat, e.revision = rows[e.recordId].revision + 1,
         \A f \in entries : f.mutationId # e.mutationId
  PROVE  Logged(entries \cup {e})
  <1>1. \A f \in entries : f.recordId = e.recordId => f.revision # e.revision
    BY DEF Tables, History
  <1> QED
    BY <1>1 DEF Logged

LEMMA LInvInit == Init => LInv
  BY DEF Init, Idle, LInv, Logged, BatchInv, HoldsLock

LEMMA LInvPush ==
  ASSUME IInv, LInv, NEW c \in Connection,
         \/ \E batch \in Batches : Begin(c, batch)
         \/ LockVault(c) \/ Replay(c) \/ Accept(c) \/ Reject(c) \/ Abort(c)
  PROVE  LInv'
  <1>1. TypeOK /\ mutations' = mutations /\ BatchInv(c)
    BY DEF IInv, TypeInv, LInv, Begin, LockVault, Replay, Accept, Reject, Abort
  <1>2. (\A d \in Connection : d # c => tx'[d] = tx[d]) /\ BatchInv(c)'
    <2>1. ASSUME NEW batch \in Batches, Begin(c, batch)
          PROVE  (\A d \in Connection : d # c => tx'[d] = tx[d]) /\ BatchInv(c)'
      <3>1. Becomes(c, "begun", 1, 0, [r \in RecordId |-> NoRow], {}, {}) /\ tx'[c].batch = batch
        <4>1. tx' = [tx EXCEPT ![c] = [Idle EXCEPT !.pc = "begun", !.batch = batch]]
          BY <2>1 DEF Begin
        <4>2. tx'[c].batch = batch
          BY <1>1, <4>1 DEF Idle, TypeOK
        <4> QED
          BY <1>1, <2>1, <4>2, BeginEffect
      <3> QED
        BY <3>1 DEF Becomes, BatchInv, HoldsLock
    <2>2. CASE LockVault(c)
      <3>1. /\ Becomes(c, "open", tx[c].next, nextCursor, tx[c].rows, tx[c].entries, tx[c].results)
            /\ tx'[c].batch = tx[c].batch /\ tx[c].pc = "begun"
        BY <1>1, <2>2, LockVaultEffect DEF LockVault
      <3>2. tx[c].entries = {} /\ tx[c].next = 1 /\ tx[c].batch \in Batches
        BY <1>1, <3>1 DEF BatchInv, IInv, TxInv, NothingWritten, HoldsLock
      <3>3. EntriesSeen(c)' = mutations
        BY <1>1, <3>1, <3>2 DEF EntriesSeen, Becomes
      <3>4. Logged(EntriesSeen(c))'
        BY <3>3 DEF LInv, Logged
      <3>5. Handled(c, tx[c].next)'
        BY <1>1, <3>1, <3>2, BatchTyped DEF Handled, Becomes
      <3> QED
        BY <3>1, <3>2, <3>4, <3>5 DEF Becomes, BatchInv
    <2>3. CASE Replay(c)
      <3>1. PICK e \in EntriesFor(c) : e.fingerprint = Current(c)
        BY <2>3 DEF Replay
      <3>2. PICK f \in EntriesFor(c) :
              Becomes(c, "open", tx[c].next + 1, tx[c].cursor, tx[c].rows, tx[c].entries,
                      tx[c].results \cup {ReplayResult(f)})
        BY <1>1, <2>3, ReplayEffect
      <3>3. tx'[c].batch = tx[c].batch /\ InLoop(c)
        BY <1>1, <2>3, ReplayEffect DEF Replay
      <3>4. tx[c].batch \in Batches /\ Logged(EntriesSeen(c)) /\ Handled(c, tx[c].next)
        BY <1>1, <3>3 DEF InLoop, BatchInv, HoldsLock
      <3>5. EntriesSeen(c)' = EntriesSeen(c)
        BY <1>1, <3>2 DEF EntriesSeen, Becomes
      <3>6. Logged(EntriesSeen(c))'
        BY <3>4, <3>5 DEF Logged
      <3>7. Handled(c, tx[c].next)'
        <4>1. e \in EntriesSeen(c) /\ e.fingerprint = tx[c].batch[tx[c].next]
          BY <3>1 DEF EntriesFor, Current
        <4>2. PICK n : n = tx[c].next
          OBVIOUS
        <4>3. n \in Nat \ {0} /\ Len(tx[c].batch) \in Nat /\ n <= Len(tx[c].batch)
          BY <1>1, <3>3, <3>4, <4>2, BatchTyped DEF InLoop
        <4>4. tx'[c].next = n + 1 /\ tx'[c].entries = tx[c].entries
          BY <3>2, <4>2 DEF Becomes
        <4>5. \A j \in 1..n : \E x \in EntriesSeen(c) : x.fingerprint = tx[c].batch[j]
          BY <3>4, <4>1, <4>2, <4>3 DEF Handled
        <4>6. \A x \in tx[c].entries : \E j \in 1..n : x.fingerprint = tx[c].batch[j]
          BY <3>4, <4>2, <4>3 DEF Handled
        <4> QED
          BY <3>3, <3>5, <4>3, <4>4, <4>5, <4>6 DEF Handled
      <3> QED
        BY <3>2, <3>3, <3>4, <3>6, <3>7 DEF Becomes, BatchInv
    <2>4. CASE Accept(c)
      <3>1. /\ Becomes(c, "write", tx[c].next, tx[c].cursor + 1, tx[c].rows, tx[c].entries,
                       tx[c].results)
            /\ tx'[c].batch = tx[c].batch /\ InLoop(c) /\ EntriesFor(c) = {}
        BY <1>1, <2>4, AcceptEffect DEF Accept
      <3>2. tx[c].batch \in Batches /\ Logged(EntriesSeen(c)) /\ Handled(c, tx[c].next)
        BY <1>1, <3>1 DEF InLoop, BatchInv, HoldsLock
      <3>3. EntriesSeen(c)' = EntriesSeen(c) /\ EntriesFor(c)' = EntriesFor(c)
        BY <1>1, <3>1 DEF EntriesSeen, EntriesFor, Current, Becomes
      <3>4. Logged(EntriesSeen(c))' /\ Handled(c, tx[c].next)'
        BY <3>1, <3>2, <3>3 DEF Logged, Handled, Becomes
      <3> QED
        BY <3>1, <3>2, <3>3, <3>4 DEF Becomes, BatchInv
    <2>5. CASE Reject(c) \/ Abort(c)
      <3>1. Becomes(c, "idle", 1, 0, [r \in RecordId |-> NoRow], {}, {})
        BY <1>1, <2>5, EndEffect DEF Reject, Abort
      <3> QED
        BY <3>1 DEF Becomes, BatchInv, HoldsLock
    <2> QED
      BY <2>1, <2>2, <2>3, <2>4, <2>5
  <1>3. \A d \in Connection : BatchInv(d)'
    BY <1>1, <1>2, OtherBatch DEF LInv
  <1> QED
    BY <1>1, <1>3 DEF LInv, Logged

LEMMA LInvWrite == ASSUME IInv, LInv, NEW c \in Connection, Write(c) PROVE LInv'
  <1>1. TypeOK /\ mutations' = mutations /\ tx[c].pc = "write" /\ BatchInv(c)
    BY DEF IInv, TypeInv, LInv, Write
  <1>2. PICK n, e : n = tx[c].next /\ e = WrittenEntry(c)
    OBVIOUS
  <1>3. /\ tx[c].batch \in Batches /\ Logged(EntriesSeen(c)) /\ Handled(c, n)
        /\ EntriesFor(c) = {}
    BY <1>1, <1>2 DEF BatchInv, HoldsLock
  <1>4. n \in Nat \ {0} /\ Len(tx[c].batch) \in Nat /\ n <= Len(tx[c].batch)
    BY <1>1, <1>2, <1>3, BatchTyped DEF IInv, TypeInv, WriteInLoop
  <1>5. /\ Current(c) = tx[c].batch[n] /\ Current(c) \in Request
        /\ Current(c).mutationId \in MutationId /\ Current(c).recordId \in RecordId
        /\ Current(c).baseRevision \in Nat
    BY <1>1, <1>2, <1>4, CurrentTyped DEF Current
  <1>6. /\ \A d \in Connection : d # c => tx'[d] = tx[d]
        /\ tx'[c].pc = "open" /\ tx'[c].next = n + 1 /\ tx'[c].batch = tx[c].batch
        /\ tx'[c].entries = tx[c].entries \cup {e}
    BY <1>1, <1>2, WriteEffect DEF Becomes
  <1>7. EntriesSeen(c)' = EntriesSeen(c) \cup {e}
    BY <1>1, <1>6 DEF EntriesSeen
  <1>8. /\ e.mutationId = Current(c).mutationId /\ e.recordId = Current(c).recordId
        /\ e.revision = Current(c).baseRevision + 1 /\ e.fingerprint = Current(c)
        /\ e \in Entry
    <2>1. tx[c].cursor \in Nat
      BY <1>1 DEF TypeOK, Transaction
    <2> QED
      BY <1>2, <1>5, <2>1 DEF WrittenEntry, Entry
  <1>9. Logged(EntriesSeen(c) \cup {e})
    <2>1. Tables(tx[c].cursor - 1, View(c), EntriesSeen(c)) /\ BaseMatches(c)
      BY <1>1 DEF IInv, TxInv, HolderView
    <2>2. View(c)[e.recordId].revision = Current(c).baseRevision
      BY <1>5, <1>8, <2>1 DEF View, BaseMatches
    <2>3. EntriesSeen(c) \in SUBSET Entry
      BY <1>1, EntriesSeenTyped
    <2>4. \A f \in EntriesSeen(c) : f.mutationId # e.mutationId
      BY <1>3, <1>8 DEF EntriesFor
    <2> QED
      BY <1>3, <1>5, <1>8, <2>1, <2>2, <2>3, <2>4, LoggedExtended
  <1>10. Handled(c, tx[c].next)'
    <2>1. \A j \in 1..n : \E x \in EntriesSeen(c) \cup {e} : x.fingerprint = tx[c].batch[j]
      BY <1>3, <1>4, <1>5, <1>8 DEF Handled
    <2>2. \A x \in tx[c].entries \cup {e} : \E j \in 1..n : x.fingerprint = tx[c].batch[j]
      BY <1>3, <1>4, <1>5, <1>8 DEF Handled
    <2> QED
      BY <1>4, <1>6, <1>7, <2>1, <2>2 DEF Handled
  <1>11. BatchInv(c)'
    <2>1. Logged(EntriesSeen(c))'
      BY <1>7, <1>9 DEF Logged
    <2> QED
      BY <1>3, <1>6, <1>10, <2>1 DEF BatchInv
  <1>12. \A d \in Connection : BatchInv(d)'
    BY <1>1, <1>6, <1>11, OtherBatch DEF LInv
  <1> QED
    BY <1>1, <1>12 DEF LInv, Logged

LEMMA LInvNext == IInv /\ LInv /\ [Next]_vars => LInv'
  <1> SUFFICES ASSUME IInv, LInv, [Next]_vars PROVE LInv'
    OBVIOUS
  <1>1. ASSUME NEW c \in Connection, Commit(c) PROVE LInv'
    <2>1. TypeOK /\ tx[c].pc = "open" /\ BatchInv(c) /\ mutations' = EntriesSeen(c)
      BY <1>1 DEF Commit, LInv, IInv, TypeInv
    <2>2. Becomes(c, "idle", 1, 0, [r \in RecordId |-> NoRow], {}, {})
      BY <1>1, <2>1, EndEffect DEF Commit
    <2>3. ASSUME NEW d \in Connection PROVE BatchInv(d)'
      <3>1. CASE d = c
        BY <2>2, <3>1 DEF Becomes, BatchInv, HoldsLock
      <3>2. CASE d # c
        <4>1. ~HoldsLock(d) /\ tx'[d] = tx[d] /\ BatchInv(d)
          BY <2>1, <2>2, <3>2 DEF IInv, MutualExclusion, HoldsLock, Becomes, LInv
        <4> QED
          BY <4>1 DEF BatchInv, HoldsLock
      <3> QED
        BY <3>1, <3>2
    <2>4. Logged(mutations)'
      BY <2>1 DEF BatchInv, HoldsLock, Logged
    <2> QED
      BY <2>3, <2>4 DEF LInv
  <1>2. CASE tx' = tx /\ mutations' = mutations
    BY <1>2, OtherBatch DEF LInv, Logged
  <1> QED
    BY <1>1, <1>2, LInvPush, LInvWrite DEF Next, Push, Pull, vars

LEMMA LogInvariance == Spec => [](IInv /\ LInv)
  BY IInvInit, LInvInit, IInvNext, LInvNext, PTL DEF Spec

\* The log of a vault with cursor n.
LogOf(n, entries) == [i \in 1..n |-> (CHOOSE e \in entries : e.cursor = i).fingerprint]

\* Position i of it is the request of the entry with cursor i.
LEMMA Position ==
  ASSUME NEW n \in Nat, NEW entries \in SUBSET Entry, Dense(n, entries),
         NEW s, s = LogOf(n, entries)
  PROVE  /\ s \in Seq(Request) /\ Len(s) = n /\ DOMAIN s = 1..n
         /\ \A e \in entries : e.cursor \in 1..n /\ s[e.cursor] = e.fingerprint
         /\ \A i \in 1..n : \E e \in entries : e.cursor = i /\ s[i] = e.fingerprint
  <1>1. ASSUME NEW e \in entries PROVE e.cursor \in 1..n /\ s[e.cursor] = e.fingerprint
    <2>1. e.cursor \in 1..n /\ \A f \in entries : f.cursor = e.cursor => f = e
      BY DEF Dense
    <2>2. (CHOOSE f \in entries : f.cursor = e.cursor) = e
      BY <2>1
    <2> QED
      BY <2>1, <2>2 DEF LogOf
  <1>2. ASSUME NEW i \in 1..n PROVE \E e \in entries : e.cursor = i /\ s[i] = e.fingerprint
    BY <1>1 DEF Dense
  <1>3. \A i \in 1..n : s[i] \in Request
    BY <1>2 DEF Entry
  <1>4. s \in [1..n -> Request]
    BY <1>3 DEF LogOf
  <1>5. s \in Seq(Request)
    BY <1>4
  <1>6. Len(s) = n /\ DOMAIN s = 1..n
    BY <1>4, <1>5
  <1> QED
    BY <1>1, <1>2, <1>5, <1>6

\* The newest version of a record is the one its row has.
LEMMA LatestIsRow ==
  ASSUME NEW n \in Nat, NEW rows \in [RecordId -> Row], NEW entries \in SUBSET Entry,
         Tables(n, rows, entries), Logged(entries), NEW s, s = LogOf(n, entries),
         NEW r \in RecordId
  PROVE  Log!Latest(s, r) = rows[r].cursor
  <1>1. /\ DOMAIN s = 1..n
        /\ \A e \in entries : e.cursor \in 1..n /\ s[e.cursor] = e.fingerprint
        /\ \A i \in 1..n : \E e \in entries : e.cursor = i /\ s[i] = e.fingerprint
    BY Position DEF Tables
  <1>2. \A i \in Log!Writes(s, r) : \E e \in entries : e.cursor = i /\ e.recordId = r
    BY <1>1 DEF Log!Writes, Logged
  <1>3. \A e \in entries : e.recordId = r => e.cursor \in Log!Writes(s, r)
    BY <1>1 DEF Log!Writes, Logged
  <1>4. rows[r] \in Row
    OBVIOUS
  <1>5. CASE rows[r].revision = 0
    <2>1. \A e \in entries : e.recordId # r
      BY <1>5 DEF Tables, History
    <2>2. Log!Writes(s, r) = {} /\ rows[r].cursor = 0
      BY <1>2, <1>5, <2>1 DEF Tables, History, NoRow
    <2> QED
      BY <2>2 DEF Log!Latest
  <1>6. CASE rows[r].revision # 0
    <2>1. rows[r].revision \in 1..rows[r].revision
      BY <1>4, <1>6 DEF Row
    <2>2. PICK last \in entries : last.recordId = r /\ last.revision = rows[r].revision
      BY <2>1 DEF Tables, History
    <2>3. last.cursor = rows[r].cursor
      BY <2>2 DEF Tables, History
    <2>4. ASSUME NEW e \in entries, e.recordId = r PROVE e.cursor <= last.cursor
      <3>1. e.revision \in 1..rows[r].revision /\ e.cursor \in Nat /\ last.cursor \in Nat
        BY <2>4 DEF Tables, History, Entry
      <3>2. CASE e.revision = last.revision
        BY <2>2, <2>4, <3>1, <3>2 DEF Logged
      <3>3. CASE e.revision < last.revision
        BY <2>2, <2>4, <3>1, <3>3 DEF Tables, History
      <3> QED
        BY <1>4, <2>2, <3>1, <3>2, <3>3 DEF Row
    <2>5. /\ last.cursor \in Log!Writes(s, r) /\ Log!Writes(s, r) \subseteq Nat
          /\ \A j \in Log!Writes(s, r) : j <= last.cursor
      BY <1>1, <1>2, <1>3, <2>2, <2>4 DEF Log!Writes
    <2>6. (CHOOSE i \in Log!Writes(s, r) : \A j \in Log!Writes(s, r) : j <= i) = last.cursor
      <3>1. \A i \in Log!Writes(s, r) :
              (\A j \in Log!Writes(s, r) : j <= i) => i = last.cursor
        BY <2>5
      <3> HIDE DEF Log!Writes
      <3> QED
        BY <2>5, <3>1
    <2> QED
      BY <2>3, <2>5, <2>6 DEF Log!Latest
  <1> QED
    BY <1>5, <1>6

\* The versions of a record before revision k + 1 are k in number.
LEMMA VersionsBefore ==
  ASSUME NEW n \in Nat, NEW rows \in [RecordId -> Row], NEW entries \in SUBSET Entry,
         Tables(n, rows, entries), Logged(entries), NEW s, s = LogOf(n, entries),
         NEW e \in entries
  PROVE  Cardinality({j \in 1..(e.cursor - 1) : s[j].recordId = e.recordId}) = e.revision - 1
  <1> DEFINE r == e.recordId
             before == {j \in 1..(e.cursor - 1) : s[j].recordId = r}
             k == e.revision - 1
             version == [v \in 1..k |-> (CHOOSE x \in entries : x.recordId = r /\ x.revision = v).cursor]
  <1>1. /\ \A x \in entries : x.cursor \in 1..n /\ s[x.cursor] = x.fingerprint
        /\ \A i \in 1..n : \E x \in entries : x.cursor = i /\ s[i] = x.fingerprint
    BY Position DEF Tables
  <1>2. e \in Entry /\ r \in RecordId /\ rows[r] \in Row
    BY DEF Entry
  <1>3. rows[r].revision \in Nat /\ e.revision \in 1..rows[r].revision /\ k \in Nat
    BY <1>2 DEF Row, Tables, History
  <1>4. ASSUME NEW v \in 1..k
        PROVE  \E x \in entries : /\ x.recordId = r /\ x.revision = v /\ version[v] = x.cursor
                                  /\ x.cursor \in before
    <2>1. PICK x \in entries : x.recordId = r /\ x.revision = v
      BY <1>2, <1>3 DEF Tables, History
    <2>2. (CHOOSE y \in entries : y.recordId = r /\ y.revision = v) = x
      <3>1. \A y \in entries : y.recordId = r /\ y.revision = v => y = x
        BY <2>1 DEF Logged
      <3> HIDE DEF r
      <3> QED
        BY <2>1, <3>1
    <2>3. version[v] = x.cursor
      BY <2>2
    <2>4. x.cursor < e.cursor
      BY <1>3, <2>1 DEF Tables, History
    <2>5. x.cursor \in 1..(e.cursor - 1)
      BY <1>1, <2>4
    <2>6. s[x.cursor].recordId = r
      BY <1>1, <2>1 DEF Logged
    <2> QED
      BY <2>1, <2>3, <2>5, <2>6
  <1>5. ASSUME NEW j \in before PROVE \E v \in 1..k : version[v] = j
    <2>1. j \in 1..n /\ j < e.cursor /\ j \in Nat
      BY <1>1
    <2>2. PICK x \in entries : x.cursor = j /\ s[j] = x.fingerprint
      BY <1>1, <2>1
    <2>3. x.recordId = r
      BY <2>2 DEF Logged
    <2>4. x.revision \in 1..rows[r].revision
      BY <2>3 DEF Tables, History
    <2>5. x.revision # e.revision
      BY <2>1, <2>2, <2>3 DEF Logged
    <2>6. ~(x.revision > e.revision)
      BY <1>1, <1>3, <2>1, <2>2, <2>3, <2>4 DEF Tables, History
    <2>7. x.revision \in 1..k
      BY <1>3, <2>4, <2>5, <2>6
    <2>8. PICK y \in entries : y.recordId = r /\ y.revision = x.revision /\ version[x.revision] = y.cursor
      BY <1>4, <2>7
    <2>9. y = x
      BY <2>3, <2>8 DEF Logged
    <2> QED
      BY <2>2, <2>7, <2>8, <2>9
  <1>6. version \in [1..k -> before]
    <2>1. \A v \in 1..k : version[v] \in before
      BY <1>4
    <2> HIDE DEF before
    <2> QED
      BY <2>1
  <1>7. ASSUME NEW v \in 1..k, NEW w \in 1..k, version[v] = version[w] PROVE v = w
    BY <1>4, <1>7 DEF Tables, Dense
  <1> HIDE DEF version, before, k, r
  <1>8. version \in Bijection(1..k, before)
    BY <1>5, <1>6, <1>7, Fun_IsBij
  <1>9. ExistsBijection(1..k, before)
    BY <1>8, Fun_ExistsBij
  <1>10. IsFiniteSet(1..k) /\ Cardinality(1..k) = k
    <2>1. k \in Int /\ 1 \in Int
      BY <1>3
    <2>2. IsFiniteSet(1..k) /\ Cardinality(1..k) = IF 1 > k THEN 0 ELSE k - 1 + 1
      BY <2>1, FS_Interval
    <2> QED
      BY <1>3, <2>2
  <1>11. Cardinality(before) = k
    BY <1>9, <1>10, FS_Bijection
  <1> QED
    BY <1>11 DEF before, k, r

LEMMA LogCardinality == ASSUME NEW S PROVE Log!Cardinality(S) = Cardinality(S)
  BY DEF Log!Cardinality, Cardinality

\* Such a log is one a single copy could have produced.
LEMMA LogIsLegal ==
  ASSUME NEW n \in Nat, NEW rows \in [RecordId -> Row], NEW entries \in SUBSET Entry,
         Tables(n, rows, entries), Logged(entries), NEW s, s = LogOf(n, entries)
  PROVE  Log!Legal(s)
  <1>1. /\ DOMAIN s = 1..n
        /\ \A i \in 1..n : \E e \in entries : e.cursor = i /\ s[i] = e.fingerprint
    BY Position DEF Tables
  <1>2. ASSUME NEW i \in DOMAIN s
        PROVE  /\ \A j \in 1..(i - 1) : s[j].mutationId # s[i].mutationId
               /\ s[i].baseRevision =
                    Cardinality({j \in 1..(i - 1) : s[j].recordId = s[i].recordId})
    <2>1. PICK e \in entries : e.cursor = i /\ s[i] = e.fingerprint
      BY <1>1
    <2>2. /\ s[i].mutationId = e.mutationId /\ s[i].recordId = e.recordId
          /\ s[i].baseRevision = e.revision - 1
      BY <2>1 DEF Logged, Entry, Request, Revision
    <2>3. ASSUME NEW j \in 1..(i - 1) PROVE s[j].mutationId # s[i].mutationId
      <3>1. j \in 1..n /\ j # i
        BY <1>1
      <3>2. PICK f \in entries : f.cursor = j /\ s[j] = f.fingerprint
        BY <1>1, <3>1
      <3> QED
        BY <2>1, <2>2, <3>1, <3>2 DEF Logged
    <2>4. Cardinality({j \in 1..(e.cursor - 1) : s[j].recordId = e.recordId}) = e.revision - 1
      BY VersionsBefore
    <2> QED
      BY <2>1, <2>2, <2>3, <2>4
  <1> QED
    BY <1>2, LogCardinality, Zenon DEF Log!Legal

\* A log that more entries extend.
LEMMA LogGrows ==
  ASSUME NEW n \in Nat, NEW m \in Nat, n <= m,
         NEW old \in SUBSET Entry, NEW new \in SUBSET Entry, old \subseteq new,
         Dense(n, old), Dense(m, new), NEW s, s = LogOf(n, old), NEW t, t = LogOf(m, new)
  PROVE  /\ SubSeq(t, 1, n) = s
         /\ n = m => t = s
         /\ \A i \in (n + 1)..m : \E e \in new \ old : t[i] = e.fingerprint
  <1>1. /\ s \in Seq(Request) /\ Len(s) = n
        /\ t \in Seq(Request) /\ Len(t) = m
        /\ \A e \in old : e.cursor \in 1..n /\ s[e.cursor] = e.fingerprint
        /\ \A e \in new : e.cursor \in 1..m /\ t[e.cursor] = e.fingerprint
        /\ \A i \in 1..n : \E e \in old : e.cursor = i /\ s[i] = e.fingerprint
        /\ \A i \in 1..m : \E e \in new : e.cursor = i /\ t[i] = e.fingerprint
    <2>1. /\ s \in Seq(Request) /\ Len(s) = n
          /\ \A e \in old : e.cursor \in 1..n /\ s[e.cursor] = e.fingerprint
          /\ \A i \in 1..n : \E e \in old : e.cursor = i /\ s[i] = e.fingerprint
      BY Position
    <2>2. /\ t \in Seq(Request) /\ Len(t) = m
          /\ \A e \in new : e.cursor \in 1..m /\ t[e.cursor] = e.fingerprint
          /\ \A i \in 1..m : \E e \in new : e.cursor = i /\ t[i] = e.fingerprint
      BY Position
    <2> QED
      BY <2>1, <2>2
  <1>2. \A i \in 1..n : t[i] = s[i]
    BY <1>1
  <1>3. \A i \in 1..m : t[i] \in Request
    BY <1>1, LenProperties
  <1>4. SubSeq(t, 1, n) = s
    <2>1. PICK u : u = SubSeq(t, 1, n)
      OBVIOUS
    <2>2. \A i \in 1..n : t[i] \in Request
      BY <1>3
    <2>3. /\ u \in Seq(Request)
          /\ Len(u) = IF 1 <= n THEN n - 1 + 1 ELSE 0
          /\ \A i \in 1..(n - 1 + 1) : u[i] = t[1 + i - 1]
      BY <2>1, <2>2, SubSeqProperties
    <2>4. Len(u) = Len(s) /\ \A i \in 1..Len(u) : u[i] = s[i]
      BY <1>1, <1>2, <2>3
    <2> QED
      BY <1>1, <2>1, <2>3, <2>4, SeqEqual
  <1>5. n = m => t = s
    BY <1>1, <1>2, SeqEqual
  <1>6. ASSUME NEW i \in (n + 1)..m PROVE \E e \in new \ old : t[i] = e.fingerprint
    BY <1>1, <1>6
  <1> QED
    BY <1>4, <1>5, <1>6

-----------------------------------------------------------------------------
TheLog == [i \in 1..nextCursor |-> LoggedRequest(i)]
TheSeen == [k \in Reader |->
              [cursor |-> reader[k].cursor,
               held |-> [r \in RecordId |-> reader[k].rows[r].cursor]]]

LEMMA TheLogIs == TheLog = LogOf(nextCursor, mutations) /\ TheLog' = LogOf(nextCursor', mutations')
  BY DEF TheLog, LoggedRequest, LogOf

\* A commit applies a batch to the log, or was only a replay.
LEMMA CommitApplies ==
  ASSUME IInv, LInv, IInv', LInv', NEW c \in Connection, Commit(c)
  PROVE  [Log!Next]_Log!vars
  <1>1. /\ tx[c].pc = "open" /\ tx[c].next > Len(tx[c].batch)
        /\ nextCursor' = tx[c].cursor /\ mutations' = EntriesSeen(c) /\ reader' = reader
        /\ TypeOK /\ nextCursor \in Nat /\ nextCursor' \in Nat
        /\ mutations \in SUBSET Entry /\ mutations' \in SUBSET Entry
        /\ records' \in [RecordId -> Row]
    BY DEF Commit, IInv, TypeInv, TypeOK
  <1>2. /\ tx[c].batch \in Batches /\ Handled(c, tx[c].next) /\ nextCursor <= nextCursor'
        /\ Dense(nextCursor, mutations) /\ Tables(nextCursor', records', mutations')
        /\ Logged(mutations') /\ mutations \subseteq mutations'
    BY <1>1 DEF LInv, BatchInv, HoldsLock, IInv, TxInv, HolderView, CommittedTables, Tables,
                EntriesSeen, Logged, Dense, History
  <1>3. PICK s, t, batch, n, m : /\ s = TheLog /\ t = TheLog' /\ batch = tx[c].batch
                                 /\ n = nextCursor /\ m = nextCursor'
    OBVIOUS
  <1>4. /\ SubSeq(t, 1, n) = s /\ (n = m => t = s)
        /\ \A i \in (n + 1)..m : \E e \in mutations' \ mutations : t[i] = e.fingerprint
    <2>1. PICK old, new : old = mutations /\ new = mutations'
      OBVIOUS
    <2>2. /\ n \in Nat /\ m \in Nat /\ n <= m /\ old \subseteq new
          /\ old \in SUBSET Entry /\ new \in SUBSET Entry
          /\ Dense(n, old) /\ Dense(m, new)
      BY <1>1, <1>2, <1>3, <2>1 DEF Tables, Dense
    <2>3. s = LogOf(n, old) /\ t = LogOf(m, new)
      BY <1>3, <2>1, TheLogIs
    <2> QED
      BY <2>1, <2>2, <2>3, LogGrows
  <1>5. /\ Len(s) = n /\ Len(t) = m /\ DOMAIN t = 1..m
        /\ \A e \in mutations' : e.cursor \in 1..m /\ t[e.cursor] = e.fingerprint
    BY <1>1, <1>2, <1>3, TheLogIs, Position DEF Tables
  <1>6. TheSeen' = TheSeen
    BY <1>1 DEF TheSeen
  <1>7. CASE n = m
    BY <1>3, <1>4, <1>6, <1>7 DEF Log!vars, TheLog, TheSeen
  <1>8. CASE n # m
    <2>1. Log!Legal(t)
      BY <1>1, <1>2, <1>3, TheLogIs, LogIsLegal
    <2>2. {t[i] : i \in (n + 1)..m} \subseteq Log!Members(batch)
      <3>1. mutations' \ mutations \subseteq tx[c].entries
        BY <1>1 DEF EntriesSeen
      <3>2. \A e \in tx[c].entries : \E j \in DOMAIN batch : e.fingerprint = batch[j]
        BY <1>1, <1>2, <1>3, BatchTyped DEF Handled
      <3> QED
        BY <1>4, <3>1, <3>2 DEF Log!Members
    <2>3. Log!Members(batch) \subseteq Log!Members(t)
      <3>1. \A j \in 1..(tx[c].next - 1) :
              \E e \in EntriesSeen(c) : e.fingerprint = tx[c].batch[j]
        BY <1>2 DEF Handled
      <3>2. DOMAIN batch \subseteq 1..(tx[c].next - 1)
        <4>1. DOMAIN batch = 1..Len(tx[c].batch)
          BY <1>1, <1>2, <1>3, BatchTyped
        <4>2. Len(tx[c].batch) \in Nat /\ tx[c].next \in Nat
          BY <1>1, <1>2, BatchTyped
        <4> QED
          BY <1>1, <4>1, <4>2
      <3>3. \A j \in DOMAIN batch : \E e \in mutations' : e.fingerprint = batch[j]
        BY <1>1, <1>3, <3>1, <3>2
      <3> QED
        BY <1>5, <3>3 DEF Log!Members
    <2>4. Len(t) > Len(s) /\ batch \in Batches
      BY <1>1, <1>2, <1>3, <1>5, <1>8
    <2>5. Log!Apply(batch)
      <3>1. Len(TheLog') > Len(TheLog) /\ SubSeq(TheLog', 1, Len(TheLog)) = TheLog
        BY <1>3, <1>4, <1>5, <2>4
      <3>2. Log!Legal(TheLog')
        BY <1>3, <2>1
      <3>3. {TheLog'[i] : i \in (Len(TheLog) + 1)..Len(TheLog')} \subseteq Log!Members(batch)
        BY <1>3, <1>5, <2>2
      <3>4. Log!Members(batch) \subseteq Log!Members(TheLog')
        BY <1>3, <2>3
      <3> QED
        BY <1>6, <3>1, <3>2, <3>3, <3>4 DEF Log!Apply, TheLog, TheSeen
    <2> QED
      BY <2>4, <2>5 DEF Log!Next
  <1> QED
    BY <1>7, <1>8

\* A page reads the log: the cursor it returns is not behind the reader's, and
\* the reader then holds the newest version of every record up to it.
LEMMA PullReads ==
  ASSUME IInv, LInv, NEW k \in Reader, Pull(k)
  PROVE  Log!Read(k)
  <1>1. /\ UNCHANGED <<nextCursor, records, mutations>> /\ reader[k].cursor <= nextCursor
        /\ TypeOK /\ CommittedTables /\ Logged(mutations) /\ ReaderComplete
    BY DEF Pull, IInv, TypeInv, LInv
  <1>2. PICK n \in 0..nextCursor :
          /\ IsNextCursor(reader[k].cursor, n)
          /\ reader' = [reader EXCEPT ![k] =
               [cursor |-> n,
                rows |-> [r \in RecordId |->
                            IF r \in Page(reader[k].cursor) THEN records[r]
                            ELSE reader[k].rows[r]]]]
    BY DEF Pull
  <1> DEFINE after == reader[k].cursor
  <1>3. /\ nextCursor \in Nat /\ n \in Nat /\ after \in Nat /\ n <= nextCursor
        /\ reader \in [Reader -> [cursor : Nat, rows : [RecordId -> Row]]]
        /\ \A r \in RecordId : records[r].cursor \in Nat
    BY <1>1 DEF TypeOK, Row
  <1>4. \A r \in Page(after) : r \in RecordId /\ records[r].cursor > after
    BY DEF Page, Fresh
  <1>5. after <= n /\ \A r \in Page(after) : records[r].cursor <= n
    <2>1. CASE HasMore(after)
      BY <1>2, <1>3, <1>4, <2>1 DEF IsNextCursor
    <2>2. CASE ~HasMore(after)
      BY <1>1, <1>2, <2>2 DEF IsNextCursor, Page, Fresh
    <2> QED
      BY <2>1, <2>2
  <1>6. Len(TheLog) = nextCursor /\ \A r \in RecordId : Log!Latest(TheLog, r) = records[r].cursor
    <2>1. PICK s, rows, entries, m : /\ s = TheLog /\ rows = records
                                     /\ entries = mutations /\ m = nextCursor
      OBVIOUS
    <2>2. /\ s = LogOf(m, entries) /\ m \in Nat /\ rows \in [RecordId -> Row]
          /\ entries \in SUBSET Entry /\ Tables(m, rows, entries) /\ Logged(entries)
      BY <1>1, <2>1, TheLogIs DEF TypeOK, CommittedTables
    <2>3. Len(s) = m
      BY <2>2, Position DEF Tables
    <2>4. \A r \in RecordId : Log!Latest(s, r) = rows[r].cursor
      BY <2>2, LatestIsRow
    <2> QED
      BY <2>1, <2>3, <2>4
  <1>7. ASSUME NEW r \in RecordId
        PROVE  (IF r \in Page(after) THEN records[r] ELSE reader[k].rows[r]).cursor =
                 IF Log!Latest(TheLog, r) \in 1..n THEN Log!Latest(TheLog, r)
                 ELSE reader[k].rows[r].cursor
    <2>1. Log!Latest(TheLog, r) = records[r].cursor
      BY <1>6
    <2>2. CASE r \in Page(after)
      <3>1. records[r].cursor \in 1..n
        BY <1>3, <1>4, <1>5, <2>2
      <3> QED
        BY <2>1, <2>2, <3>1
    <2>3. CASE r \notin Page(after) /\ records[r].cursor \in 1..n
      <3>1. ~(records[r].cursor > after)
        BY <1>1, <1>2, <1>3, <2>3, PageHasNoGap
      <3>2. reader[k].rows[r] = records[r]
        BY <1>1, <1>3, <3>1 DEF ReaderComplete
      <3> QED
        BY <2>1, <2>3, <3>2
    <2>4. CASE r \notin Page(after) /\ records[r].cursor \notin 1..n
      BY <2>1, <2>4
    <2> QED
      BY <2>2, <2>3, <2>4
  <1> DEFINE held == [r \in RecordId |->
                        IF Log!Latest(TheLog, r) \in 1..n THEN Log!Latest(TheLog, r)
                        ELSE TheSeen[k].held[r]]
  <1>8. /\ TheSeen[k].cursor = after
        /\ \A r \in RecordId : TheSeen[k].held[r] = reader[k].rows[r].cursor
    BY DEF TheSeen
  <1>9. TheSeen' = [TheSeen EXCEPT ![k] = [cursor |-> n, held |-> held]]
    <2>1. reader'[k].cursor = n /\ \A j \in Reader : j # k => reader'[j] = reader[j]
      BY <1>2, <1>3
    <2>2. \A r \in RecordId : reader'[k].rows[r].cursor = held[r]
      BY <1>2, <1>3, <1>7, <1>8
    <2>3. [r \in RecordId |-> reader'[k].rows[r].cursor] = held
      BY <2>2
    <2> HIDE DEF held
    <2> QED
      BY <2>1, <2>3 DEF TheSeen
  <1>10. n \in TheSeen[k].cursor..Len(TheLog)
    BY <1>3, <1>5, <1>6, <1>8
  <1>11. UNCHANGED TheLog
    BY <1>1 DEF TheLog, LoggedRequest
  <1> QED
    BY <1>9, <1>10, <1>11 DEF Log!Read, TheLog, TheSeen

\* No other step shows in the log.
LEMMA OthersUnseen ==
  ASSUME UNCHANGED <<nextCursor, mutations, reader>> PROVE UNCHANGED Log!vars
  BY DEF Log!vars, LoggedRequest

LEMMA LogInit == Init => Log!Init
  <1> SUFFICES ASSUME Init PROVE Log!Init
    OBVIOUS
  <1>1. nextCursor = 0 /\ reader = [k \in Reader |->
                             [cursor |-> 0, rows |-> [r \in RecordId |-> NoRow]]]
    BY DEF Init
  <1>2. TheLog = <<>>
    BY <1>1 DEF TheLog
  <1>3. TheSeen = [k \in Reader |-> [cursor |-> 0, held |-> [r \in RecordId |-> 0]]]
    BY <1>1 DEF TheSeen, NoRow
  <1> QED
    BY <1>2, <1>3 DEF Log!Init, TheLog, TheSeen

LEMMA LogNext ==
  ASSUME IInv, LInv, IInv', LInv', [Next]_vars PROVE [Log!Next]_Log!vars
  <1>1. ASSUME NEW c \in Connection, NEW batch \in Batches, Begin(c, batch)
        PROVE  [Log!Next]_Log!vars
    BY <1>1, OthersUnseen DEF Begin
  <1>2. ASSUME NEW c \in Connection, LockVault(c) PROVE [Log!Next]_Log!vars
    BY <1>2, OthersUnseen DEF LockVault
  <1>3. ASSUME NEW c \in Connection, Replay(c) PROVE [Log!Next]_Log!vars
    BY <1>3, OthersUnseen DEF Replay
  <1>4. ASSUME NEW c \in Connection, Accept(c) PROVE [Log!Next]_Log!vars
    BY <1>4, OthersUnseen DEF Accept
  <1>5. ASSUME NEW c \in Connection, Reject(c) PROVE [Log!Next]_Log!vars
    BY <1>5, OthersUnseen DEF Reject
  <1>6. ASSUME NEW c \in Connection, Write(c) PROVE [Log!Next]_Log!vars
    BY <1>6, OthersUnseen DEF Write
  <1>7. ASSUME NEW c \in Connection, Commit(c) PROVE [Log!Next]_Log!vars
    BY <1>7, CommitApplies
  <1>8. ASSUME NEW c \in Connection, Abort(c) PROVE [Log!Next]_Log!vars
    BY <1>8, OthersUnseen DEF Abort
  <1>9. ASSUME NEW k \in Reader, Pull(k) PROVE [Log!Next]_Log!vars
    BY <1>9, PullReads DEF Log!Next
  <1>10. CASE UNCHANGED vars
    BY <1>10, OthersUnseen DEF vars
  <1> QED
    BY <1>1, <1>2, <1>3, <1>4, <1>5, <1>6, <1>7, <1>8, <1>9, <1>10 DEF Next, Push

\* For all connections, readers, records, batches, page sizes and cursor
\* limits, the tables, row locks and transactions of pushMutations and the
\* paging of pullChanges implement an append-only log: whatever interleaves
\* and rolls back, a push takes effect at once, as a whole and only if one copy
\* of the vault could have taken it, and a pull moves forward in that log.
THEOREM StoreImplementsLog == Spec => ImplementsLog
  <1>1. IInv /\ LInv /\ (IInv /\ LInv)' /\ [Next]_vars => [Log!Next]_Log!vars
    BY LogNext
  <1> QED
    BY <1>1, LogInit, LogInvariance, PTL DEF Spec, ImplementsLog, Log!Spec
=============================================================================
