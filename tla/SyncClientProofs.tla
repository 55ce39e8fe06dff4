--------------------------- MODULE SyncClientProofs ---------------------------
(***************************************************************************)
(* Proofs about SyncClient, for any number of devices, records, edits and  *)
(* mutations, any page size and whatever fails.                            *)
(*                                                                         *)
(* That the parts of a job find the metadata they expect holds even if the *)
(* operator restores an older state of the server.  That a device's        *)
(* metadata are complete needs a server that never goes back, and rests on *)
(* two orders: a row that is written moves behind every cursor, and a      *)
(* mutation the server has applied is pushed again before the device pulls *)
(* anything.  What a resolved conflict puts into the metadata is current   *)
(* because a record with a conflict is taken over by no pull.              *)
(***************************************************************************)
EXTENDS SyncClient, FiniteSetTheorems, FunctionTheorems, SequenceTheorems,
        WellFoundedInduction, TLAPS

(* The inductive invariant *)

\* A revision and item of record r that the server had or has.
OfRow(r, revision, item) ==
  /\ revision <= server.rows[r].revision
  /\ revision = server.rows[r].revision => item = server.rows[r].item

\* The rows of a state s of the server have different cursors, up to its own.
Ordered(s) ==
  /\ \A r \in RecordId : s.rows[r].cursor <= s.cursor
  /\ \A r, q \in RecordId :
       s.rows[r].cursor = s.rows[q].cursor /\ s.rows[r].cursor # 0 => r = q

\* Of a device with metadata M and a job in a stage: a job that drains has an
\* outbox and no conflict, a pull after that has no outbox.
JobFits(M, stage) ==
  /\ stage \in {"replay", "push"} => M.outbox # <<>>
  /\ stage \in {"first", "enqueue", "second"} => M.outbox = <<>>
  /\ stage \in {"replay", "enqueue", "push"} => M.conflicts = {}

\* The mutations of a device e that made n have different numbers of its own.
NumbersOwn(e, M, n) ==
  /\ \A i \in DOMAIN M.outbox : M.outbox[i].id[1] = e /\ M.outbox[i].id[2] \in 1..n
  /\ \A i, j \in DOMAIN M.outbox : M.outbox[i].id = M.outbox[j].id => i = j

\* A queued mutation that the server has applied, unknown to the device, is the
\* first; the row it wrote, or that was written over it, is still to be pulled.
AppliedIsAhead(M, stage) ==
  \A i \in DOMAIN M.outbox :
    M.outbox[i].id \in server.applied =>
      /\ i = 1 /\ M.conflicts = {} /\ stage # "conflict"
      /\ OfRow(M.outbox[i].record, M.outbox[i].base + 1, M.outbox[i].item)
      /\ server.rows[M.outbox[i].record].cursor > M.cursor

\* What the metadata know, and the versions they hold as conflicts, are of the
\* server; a conflict is not older than what is known.
KnownIsTrue(M) ==
  /\ \A r \in RecordId : OfRow(r, M.known[r].revision, M.known[r].local)
  /\ \A c \in M.conflicts :
       OfRow(c.record, c.revision, c.item) /\ M.known[c.record].revision <= c.revision

\* A record with a conflict stays one the pull does not take over.
ConflictsStay(M, stage, doc) ==
  stage \in {"first", "second", "conflict"} =>
    \A c \in M.conflicts : Conflicting(doc, M, c.record)

\* Of every row that the cursor has passed, the metadata know the current version
\* or hold it as a conflict.
Complete(M) ==
  /\ M.cursor <= server.cursor
  /\ \A r \in RecordId :
       LET row == server.rows[r] IN
         row.cursor \in 1..M.cursor =>
           \/ M.known[r] = [revision |-> row.revision, local |-> row.item]
           \/ \E c \in M.conflicts :
                c = [record |-> r, revision |-> row.revision, item |-> row.item]

DeviceInv(e, M, J, n) ==
  /\ NumbersOwn(e, M, n)
  /\ AppliedIsAhead(M, J.stage)
  /\ KnownIsTrue(M)
  /\ ConflictsStay(M, J.stage, J.doc)
  /\ Complete(M)

\* The server has applied mutations that were made.
AppliedWereMade == \A x \in server.applied : x[2] <= made[x[1]]

\* A record that was never written has no item.
UnwrittenAreNone == \A r \in RecordId : OfRow(r, 0, None)

\* No state of the server was saved, so none was restored.
NeverBack == backup = NewServer

CInv ==
  /\ TypeOK
  /\ Ordered(server) /\ Ordered(backup)
  /\ \A e \in Device : JobFits(meta[e], job[e].stage)
  /\ NeverBack =>
       /\ AppliedWereMade /\ UnwrittenAreNone
       /\ \A e \in Device : DeviceInv(e, meta[e], job[e], made[e])

\* What a device does by itself.
DeviceStep(d) ==
  User(d) \/ Restart(d) \/ StartSync(d) \/ Sync(d) \/ Resolve(d) \/ Fault(d)

-----------------------------------------------------------------------------
(* Numbers and pages *)

LEMMA HasLeast ==
  ASSUME NEW S, S \subseteq Nat, S # {}
  PROVE  \E n \in S : \A m \in S : n <= m
  <1> DEFINE R == OpToRel(<, Nat)
  <1>1. PICK n \in S : \A m \in S : ~(<<m, n>> \in R)
    BY NatLessThanWellFounded, WFMin, Zenon
  <1>2. ASSUME NEW m \in S PROVE n <= m
    <2>1. m \in Nat /\ n \in Nat
      OBVIOUS
    <2>2. SUFFICES ASSUME m < n PROVE FALSE
      BY <2>1
    <2>3. <<m, n>> \in Nat \X Nat /\ <<m, n>>[1] < <<m, n>>[2]
      BY <2>1, <2>2
    <2>4. <<m, n>> \in R
      BY <2>3, Zenon DEF OpToRel
    <2> QED
      BY <1>1, <2>4
  <1> QED
    BY <1>2

LEMMA HasGreatest ==
  ASSUME NEW S, NEW b \in Nat, S \subseteq 0..b, S # {}
  PROVE  \E n \in S : \A m \in S : m <= n
  <1> DEFINE T == {k \in Nat : b - k \in S}
  <1>1. T \subseteq Nat /\ T # {}
    <2>1. PICK m \in S : TRUE
      OBVIOUS
    <2>2. b - m \in Nat /\ b - (b - m) = m
      OBVIOUS
    <2> QED
      BY <2>2
  <1> HIDE DEF T
  <1>2. PICK k \in T : \A l \in T : k <= l
    BY <1>1, HasLeast
  <1>3. k \in Nat /\ b - k \in S
    BY <1>2 DEF T
  <1>4. ASSUME NEW m \in S PROVE m <= b - k
    <2>1. m \in Nat /\ m <= b /\ b - m \in Nat /\ b - (b - m) = m
      OBVIOUS
    <2>2. b - m \in T
      BY <2>1 DEF T
    <2> QED
      BY <1>2, <1>3, <2>1, <2>2
  <1> QED
    BY <1>3, <1>4

LEMMA Constants ==
  /\ IsFiniteSet(RecordId) /\ PageLimit \in Nat /\ PageLimit >= 1
  /\ MaxEdits \in Nat /\ MaxMutations \in Nat
  /\ None = 0 /\ Item = 0..MaxEdits /\ None \in Item /\ EmptyDocument \in Document
  /\ Idle \in Job /\ Idle.stage = "idle"
  BY ConstantsAssumption DEF ConstantsAssumption, None, Item, EmptyDocument, Document, Idle,
     Job, Stage

LEMMA ServerTyped ==
  ASSUME TypeOK
  PROVE  /\ server.cursor \in Nat /\ server.applied \subseteq MutationId
         /\ server.rows \in [RecordId -> [revision : Nat, cursor : Nat, item : Item]]
         /\ \A r \in RecordId : /\ server.rows[r].revision \in Nat
                                /\ server.rows[r].cursor \in Nat
                                /\ server.rows[r].item \in Item
  BY DEF TypeOK, Server

\* The rows of a page, and those the feed has left for later.
Upto(after, r) == {q \in Fresh(after) : server.rows[q].cursor <= server.rows[r].cursor}

LEMMA UptoFinite ==
  ASSUME NEW after, NEW r
  PROVE  /\ IsFiniteSet(Fresh(after)) /\ IsFiniteSet(Upto(after, r))
         /\ Cardinality(Upto(after, r)) \in Nat
  <1>1. Fresh(after) \subseteq RecordId /\ Upto(after, r) \subseteq Fresh(after)
    BY DEF Fresh, Upto
  <1>2. IsFiniteSet(Fresh(after))
    BY <1>1, Constants, FS_Subset
  <1>3. IsFiniteSet(Upto(after, r))
    BY <1>1, <1>2, FS_Subset
  <1> QED
    BY <1>2, <1>3, FS_CardinalityType

LEMMA PageIsNotEmpty ==
  ASSUME TypeOK, Ordered(server), NEW after \in Nat, HasMore(after)
  PROVE  Page(after) # {}
  <1> DEFINE C == {server.rows[r].cursor : r \in Fresh(after)}
  <1>1. Fresh(after) # {} /\ Fresh(after) \subseteq RecordId
    BY DEF HasMore, Page, Fresh
  <1>2. C \subseteq Nat /\ C # {}
    BY <1>1, ServerTyped
  <1>3. PICK n \in C : \A m \in C : n <= m
    <2> HIDE DEF C
    <2> QED
      BY <1>2, HasLeast
  <1>4. PICK r \in Fresh(after) : server.rows[r].cursor = n
    BY <1>3
  <1>5. \A q \in Fresh(after) : server.rows[r].cursor <= server.rows[q].cursor
    BY <1>3, <1>4
  <1>6. \A q \in Upto(after, r) : q = r
    <2>1. SUFFICES ASSUME NEW q \in Upto(after, r) PROVE q = r
      OBVIOUS
    <2>2. /\ q \in Fresh(after) /\ server.rows[q].cursor <= server.rows[r].cursor
          /\ q \in RecordId /\ r \in RecordId /\ server.rows[r].cursor > after
      BY <1>1, <1>4, <2>1 DEF Upto, Fresh
    <2>3. server.rows[q].cursor = server.rows[r].cursor /\ server.rows[q].cursor # 0
      BY <1>5, <2>2, ServerTyped
    <2> QED
      BY <2>2, <2>3 DEF Ordered
  <1>7. Upto(after, r) \subseteq {r}
    BY <1>6
  <1>8. Cardinality(Upto(after, r)) <= 1
    <2>1. IsFiniteSet({r}) /\ Cardinality({r}) = 1
      BY FS_Singleton
    <2>2. Cardinality(Upto(after, r)) <= Cardinality({r})
      BY <1>7, <2>1, FS_Subset
    <2> QED
      BY <2>1, <2>2
  <1>9. Cardinality(Upto(after, r)) <= PageLimit
    BY <1>8, UptoFinite, Constants
  <1>10. r \in Page(after)
    BY <1>4, <1>9 DEF Page, Upto
  <1> QED
    BY <1>10

\* A page has every row up to the cursor it returns.
LEMMA PageFacts ==
  ASSUME TypeOK, Ordered(server), NEW after \in Nat, after <= server.cursor
  PROVE  /\ NextCursor(after) \in Nat
         /\ NextCursor(after) <= server.cursor
         /\ after <= NextCursor(after)
         /\ \A r \in RecordId :
              server.rows[r].cursor > after /\ server.rows[r].cursor <= NextCursor(after)
                => r \in Page(after)
  <1>1. Page(after) \subseteq Fresh(after) /\ Fresh(after) \subseteq RecordId
    BY DEF Page, Fresh
  <1>2. CASE ~HasMore(after)
    <2>1. NextCursor(after) = server.cursor /\ Page(after) = Fresh(after)
      BY <1>2 DEF NextCursor, HasMore
    <2> QED
      BY <2>1, ServerTyped DEF Fresh
  <1>3. CASE HasMore(after)
    <2> DEFINE C == {server.rows[r].cursor : r \in Page(after)}
               Last(n) == \A r \in Page(after) : server.rows[r].cursor <= n
               c == CHOOSE n \in C : Last(n)
    <2>1. C \subseteq 0..server.cursor /\ C # {}
      BY <1>1, <1>3, ServerTyped, PageIsNotEmpty DEF Ordered
    <2>2. \E n \in C : Last(n)
      <3>1. PICK n \in C : \A m \in C : m <= n
        <4>1. server.cursor \in Nat
          BY ServerTyped
        <4> HIDE DEF C
        <4> QED
          BY <2>1, <4>1, HasGreatest
      <3> QED
        BY <3>1
    <2>3. c \in C /\ Last(c)
      <3> HIDE DEF Last, C
      <3> QED
        BY <2>2
    <2>4. NextCursor(after) = c
      BY <1>3 DEF NextCursor
    <2> HIDE DEF c
    <2>5. PICK p \in Page(after) : c = server.rows[p].cursor
      BY <2>3
    <2>6. c \in Nat /\ c <= server.cursor /\ after <= c
      <3>1. p \in RecordId /\ server.rows[p].cursor > after
        BY <1>1, <2>5 DEF Fresh
      <3> QED
        BY <2>1, <2>3, <2>5, <3>1, ServerTyped
    <2>7. ASSUME NEW r \in RecordId, server.rows[r].cursor > after,
                 server.rows[r].cursor <= c
          PROVE  r \in Page(after)
      <3>1. r \in Fresh(after)
        BY <2>7 DEF Fresh
      <3>2. p \in Fresh(after) /\ Cardinality(Upto(after, p)) <= PageLimit
        BY <2>5 DEF Page, Upto
      <3>3. Upto(after, r) \subseteq Upto(after, p)
        BY <1>1, <2>5, <2>7, <3>2, ServerTyped DEF Upto, Fresh
      <3>4. Cardinality(Upto(after, r)) <= Cardinality(Upto(after, p))
        BY <3>3, UptoFinite, FS_Subset
      <3>5. Cardinality(Upto(after, r)) <= PageLimit
        BY <3>2, <3>4, UptoFinite, Constants
      <3> QED
        BY <3>1, <3>5 DEF Page, Upto
    <2> QED
      BY <2>4, <2>6, <2>7
  <1> QED
    BY <1>2, <1>3

-----------------------------------------------------------------------------
(* The parts of the state *)

LEMMA Pieces ==
  ASSUME TypeOK, NEW d \in Device
  PROVE  /\ meta[d] = [cursor |-> meta[d].cursor, known |-> meta[d].known,
                       outbox |-> meta[d].outbox, conflicts |-> meta[d].conflicts]
         /\ meta[d].cursor \in Nat /\ meta[d].known \in [RecordId -> Known]
         /\ meta[d].outbox \in Seq(Mutation) /\ meta[d].conflicts \subseteq Conflict
         /\ job[d] = [stage |-> job[d].stage, doc |-> job[d].doc,
                      changed |-> job[d].changed, sealing |-> job[d].sealing,
                      record |-> job[d].record]
         /\ job[d].stage \in Stage /\ job[d].doc \in Document
         /\ job[d].record \in RecordId \cup {None}
         /\ stored[d] \in Document /\ ui[d] \in Document
         /\ made[d] \in 0..MaxMutations /\ made[d] \in Nat
  BY Constants DEF TypeOK, Metadata, Job

\* The same in the state of a device: records of the metadata, mutations, conflicts.
LEMMA Elements ==
  ASSUME TypeOK, NEW d \in Device
  PROVE  /\ \A r \in RecordId : /\ meta[d].known[r] \in Known
                                /\ meta[d].known[r].revision \in Nat
                                /\ meta[d].known[r].local \in Item
         /\ \A i \in DOMAIN meta[d].outbox :
              /\ meta[d].outbox[i] \in Mutation /\ i \in Nat /\ i >= 1
              /\ meta[d].outbox[i].id \in MutationId
              /\ meta[d].outbox[i].record \in RecordId
              /\ meta[d].outbox[i].base \in Nat /\ meta[d].outbox[i].item \in Item
         /\ \A c \in meta[d].conflicts : /\ c \in Conflict /\ c.record \in RecordId
                                         /\ c.revision \in Nat /\ c.item \in Item
         /\ \A r \in RecordId : job[d].doc[r] \in Item /\ ui[d][r] \in Item
  <1>1. /\ meta[d].known \in [RecordId -> Known]
        /\ meta[d].outbox \in Seq(Mutation) /\ meta[d].conflicts \subseteq Conflict
        /\ job[d].doc \in Document /\ ui[d] \in Document
    BY Pieces
  <1>2. \A i \in DOMAIN meta[d].outbox : meta[d].outbox[i] \in Mutation /\ i \in Nat /\ i >= 1
    BY <1>1, LenProperties
  <1> QED
    BY <1>1, <1>2 DEF Known, Mutation, Conflict, Document

\* A job with some fields set.
LEMMA JobWith ==
  ASSUME NEW J \in Job, NEW s \in Stage
  PROVE  /\ [J EXCEPT !.stage = s] \in Job
         /\ [J EXCEPT !.stage = s].stage = s /\ [J EXCEPT !.stage = s].doc = J.doc
  BY DEF Job

\* A user's consent.
LEMMA ConsentTyped ==
  ASSUME TypeOK, NEW r \in RecordId, NEW old \in Item, NEW new \in Item
  PROVE  Replaces(r, old, new) \in [RecordId -> SUBSET (Item \X Item)]
  <1>1. consent \in [RecordId -> SUBSET (Item \X Item)]
    BY DEF TypeOK
  <1> DEFINE W == {w \in consent[r] : w[2] = old}
             N == {<<w[1], new>> : w \in W}
  <1>2. N \subseteq Item \X Item
    BY <1>1
  <1>3. consent[r] \cup {<<old, new>>} \cup N \subseteq Item \X Item
    BY <1>1, <1>2
  <1>4. Replaces(r, old, new) = [consent EXCEPT ![r] = consent[r] \cup {<<old, new>>} \cup N]
    BY <1>1 DEF Replaces
  <1> HIDE DEF N
  <1> QED
    BY <1>1, <1>3, <1>4

\* What a device will be.
LEMMA DeviceIs ==
  ASSUME NEW d \in Device, NEW M, NEW stage, NEW doc, NEW n,
         meta'[d] = M, job'[d].stage = stage, job'[d].doc = doc, made'[d] = n,
         NumbersOwn(d, M, n), AppliedIsAhead(M, stage)', KnownIsTrue(M)',
         ConflictsStay(M, stage, doc), Complete(M)'
  PROVE  DeviceInv(d, meta[d], job[d], made[d])'
  <1>1. NumbersOwn(d, meta[d], made[d])'
    BY DEF NumbersOwn
  <1>2. AppliedIsAhead(meta[d], job[d].stage)'
    BY DEF AppliedIsAhead
  <1>3. KnownIsTrue(meta[d])'
    BY DEF KnownIsTrue
  <1>4. ConflictsStay(meta[d], job[d].stage, job[d].doc)'
    BY DEF ConflictsStay, Conflicting, PendingFor, HasLocalChange
  <1>5. Complete(meta[d])'
    BY DEF Complete
  <1> QED
    BY <1>1, <1>2, <1>3, <1>4, <1>5 DEF DeviceInv

\* A device whose metadata, job and number change, under the same server.
LEMMA DeviceSet ==
  ASSUME NEW d \in Device, NEW M, NEW J, NEW n, DeviceInv(d, M, J, n),
         server' = server, meta'[d] = M, job'[d] = J, made'[d] = n
  PROVE  DeviceInv(d, meta[d], job[d], made[d])'
  <1>1. PICK stage, doc : stage = J.stage /\ doc = J.doc
    OBVIOUS
  <1>2. /\ NumbersOwn(d, M, n) /\ AppliedIsAhead(M, stage) /\ KnownIsTrue(M)
        /\ ConflictsStay(M, stage, doc) /\ Complete(M)
    BY <1>1 DEF DeviceInv
  <1>3. AppliedIsAhead(M, stage)'
    BY <1>2 DEF AppliedIsAhead, OfRow
  <1>4. KnownIsTrue(M)'
    BY <1>2 DEF KnownIsTrue, OfRow
  <1>5. Complete(M)'
    BY <1>2 DEF Complete
  <1> QED
    BY <1>1, <1>2, <1>3, <1>4, <1>5, DeviceIs

\* A device whose metadata, job and number stay, under the same server.
LEMMA DeviceKept ==
  ASSUME NEW e \in Device, DeviceInv(e, meta[e], job[e], made[e]),
         server' = server, meta'[e] = meta[e], job'[e] = job[e], made'[e] = made[e]
  PROVE  DeviceInv(e, meta[e], job[e], made[e])'
  <1>1. PICK M, J, n : M = meta[e] /\ J = job[e] /\ n = made[e]
    OBVIOUS
  <1>2. DeviceInv(e, M, J, n)
    BY <1>1
  <1> QED
    BY <1>1, <1>2, DeviceSet

LEMMA AppliedKept ==
  ASSUME TypeOK, AppliedWereMade, server' = server,
         \A e \in Device : made[e] <= made'[e] /\ made'[e] \in Nat
  PROVE  AppliedWereMade'
  <1>1. ASSUME NEW x \in server.applied PROVE x[2] <= made'[x[1]]
    <2>1. x \in Device \X Nat /\ x[2] <= made[x[1]]
      BY ServerTyped DEF AppliedWereMade, MutationId
    <2>2. made[x[1]] \in Nat
      BY <2>1, Pieces
    <2> QED
      BY <2>1, <2>2
  <1> QED
    BY <1>1 DEF AppliedWereMade

-----------------------------------------------------------------------------
(* A device changes its metadata, its job, its documents *)

LEMMA MetadataStep ==
  ASSUME CInv, NEW d \in Device, NEW M \in Metadata, NEW J \in Job,
         NEW n \in made[d]..MaxMutations,
         JobFits(M, J.stage), NeverBack => DeviceInv(d, M, J, n),
         meta' = [meta EXCEPT ![d] = M], job' = [job EXCEPT ![d] = J],
         made' = [made EXCEPT ![d] = n], UNCHANGED <<server, backup>>,
         NEW s \in Document, stored' \in {stored, [stored EXCEPT ![d] = s]},
         NEW u \in Document, ui' \in {ui, [ui EXCEPT ![d] = u]},
         edits' \in 0..MaxEdits, used' \subseteq RecordId,
         consent' \in [RecordId -> SUBSET (Item \X Item)], torn' \subseteq torn \cup {d}
  PROVE  CInv'
  <1>1. /\ TypeOK /\ made[d] \in Nat /\ MaxMutations \in Nat
        /\ \A e \in Device : made[e] \in Nat
    BY Pieces, Constants DEF CInv
  <1>2. n \in 0..MaxMutations /\ made[d] <= n
    BY <1>1
  <1>3. /\ meta' \in [Device -> Metadata] /\ meta'[d] = M
        /\ job' \in [Device -> Job] /\ job'[d] = J
        /\ made' \in [Device -> 0..MaxMutations] /\ made'[d] = n
        /\ \A e \in Device \ {d} : /\ meta'[e] = meta[e] /\ job'[e] = job[e]
                                   /\ made'[e] = made[e]
    <2> DEFINE N == 0..MaxMutations
    <2>1. n \in N /\ made \in [Device -> N]
      BY <1>1, <1>2 DEF TypeOK
    <2> HIDE DEF N
    <2>2. made' \in [Device -> N] /\ made'[d] = n /\ \A e \in Device \ {d} : made'[e] = made[e]
      BY <2>1
    <2> QED
      BY <1>1, <2>2 DEF TypeOK, N
  <1>4. stored' \in [Device -> Document] /\ ui' \in [Device -> Document]
    BY <1>1 DEF TypeOK
  <1>5. TypeOK'
    BY <1>1, <1>3, <1>4 DEF TypeOK
  <1>6. \A e \in Device : JobFits(meta'[e], job'[e].stage)
    BY <1>3 DEF CInv
  <1>7. ASSUME NeverBack
        PROVE  /\ AppliedWereMade' /\ UnwrittenAreNone'
               /\ \A e \in Device : DeviceInv(e, meta[e], job[e], made[e])'
    <2>1. \A e \in Device : made[e] <= made'[e] /\ made'[e] \in Nat
      BY <1>1, <1>2, <1>3
    <2>2. AppliedWereMade'
      BY <1>1, <1>7, <2>1, AppliedKept DEF CInv
    <2>3. UnwrittenAreNone'
      BY <1>7 DEF CInv, UnwrittenAreNone, OfRow
    <2>4. ASSUME NEW e \in Device PROVE DeviceInv(e, meta[e], job[e], made[e])'
      <3>1. CASE e # d
        BY <1>3, <1>7, <3>1, DeviceKept DEF CInv
      <3>2. CASE e = d
        BY <1>3, <1>7, <3>2, DeviceSet
      <3> QED
        BY <3>1, <3>2
    <2> QED
      BY <2>2, <2>3, <2>4
  <1>8. Ordered(server') /\ Ordered(backup')
    BY DEF CInv
  <1> QED
    BY <1>5, <1>6, <1>7, <1>8 DEF CInv, NeverBack

\* The same with the metadata as they were.
LEMMA LocalStep ==
  ASSUME CInv, NEW d \in Device, NEW J \in Job, job' = [job EXCEPT ![d] = J],
         UNCHANGED <<server, backup, meta, made>>,
         JobFits(meta[d], J.stage), ConflictsStay(meta[d], J.stage, J.doc),
         NeverBack /\ J.stage = "conflict" =>
           \A i \in DOMAIN meta[d].outbox : meta[d].outbox[i].id \notin server.applied,
         NEW s \in Document, stored' \in {stored, [stored EXCEPT ![d] = s]},
         NEW u \in Document, ui' \in {ui, [ui EXCEPT ![d] = u]},
         edits' \in 0..MaxEdits, used' \subseteq RecordId,
         consent' \in [RecordId -> SUBSET (Item \X Item)], torn' \subseteq torn \cup {d}
  PROVE  CInv'
  <1>1. TypeOK /\ meta[d] \in Metadata
    BY DEF CInv, TypeOK
  <1>2. made[d] \in made[d]..MaxMutations /\ made' = [made EXCEPT ![d] = made[d]]
        /\ meta' = [meta EXCEPT ![d] = meta[d]]
    BY <1>1, Pieces, Constants DEF TypeOK
  <1>3. ASSUME NeverBack PROVE DeviceInv(d, meta[d], J, made[d])
    <2>1. DeviceInv(d, meta[d], job[d], made[d])
      BY <1>3 DEF CInv
    <2>2. AppliedIsAhead(meta[d], J.stage)
      BY <1>3, <2>1 DEF DeviceInv, AppliedIsAhead
    <2> QED
      BY <2>1, <2>2 DEF DeviceInv
  <1> QED
    BY <1>1, <1>2, <1>3, MetadataStep

-----------------------------------------------------------------------------
(* The steps that leave the server and the metadata alone *)

LEMMA IdleFits ==
  ASSUME NEW M, NEW stage, stage \in {"idle", "resolve"}, NEW doc
  PROVE  JobFits(M, stage) /\ ConflictsStay(M, stage, doc)
  BY DEF JobFits, ConflictsStay

LEMMA UserKeeps == ASSUME CInv, NEW d \in Device, User(d) PROVE CInv'
  <1>1. PICK r \in RecordId : AddItem(d, r) \/ UpdateItem(d, r) \/ RemoveItem(d, r)
    BY DEF User
  <1>2. PICK old \in Item, new \in Item :
          /\ Persist(d, [ui[d] EXCEPT ![r] = new])
          /\ consent' = Replaces(r, old, new)
          /\ used' \in {used, used \cup {r}}
    <2>1. edits \in 0..MaxEdits /\ ui[d][r] \in Item
      BY Elements DEF CInv, TypeOK
    <2>2. CASE AddItem(d, r)
      <3>1. edits < MaxEdits
        BY <2>2 DEF AddItem, Persist
      <3>2. edits + 1 \in Item
        BY <2>1, <3>1, Constants
      <3> QED
        BY <2>2, <3>2, Constants DEF AddItem
    <2>3. CASE UpdateItem(d, r)
      <3>1. edits < MaxEdits
        BY <2>3 DEF UpdateItem, Persist
      <3>2. edits + 1 \in Item
        BY <2>1, <3>1, Constants
      <3> QED
        BY <2>1, <2>3, <3>2 DEF UpdateItem
    <2>4. CASE RemoveItem(d, r)
      BY <2>1, <2>4, Constants DEF RemoveItem
    <2> QED
      BY <1>1, <2>2, <2>3, <2>4
  <1> DEFINE doc == [ui[d] EXCEPT ![r] = new]
  <1>3. doc \in Document
    BY Pieces DEF CInv, Document
  <1>4. /\ job[d].stage = "idle" /\ edits < MaxEdits /\ edits' = edits + 1
        /\ stored' = [stored EXCEPT ![d] = doc] /\ ui' = [ui EXCEPT ![d] = doc]
        /\ UNCHANGED <<server, backup, meta, job, made, torn>>
    BY <1>2 DEF Persist, IsIdle
  <1> HIDE DEF doc
  <1>5. /\ job[d] \in Job /\ job' = [job EXCEPT ![d] = job[d]]
        /\ edits' \in 0..MaxEdits /\ used' \subseteq RecordId
    BY <1>2, <1>4, Constants DEF CInv, TypeOK
  <1>6. consent' \in [RecordId -> SUBSET (Item \X Item)]
    BY <1>2, ConsentTyped DEF CInv
  <1>7. JobFits(meta[d], job[d].stage) /\ ConflictsStay(meta[d], job[d].stage, job[d].doc)
    BY <1>4, IdleFits
  <1> QED
    BY <1>3, <1>4, <1>5, <1>6, <1>7, LocalStep

LEMMA RestartKeeps == ASSUME CInv, NEW d \in Device, Restart(d) PROVE CInv'
  <1>1. /\ ui' = [ui EXCEPT ![d] = stored[d]] /\ job' = [job EXCEPT ![d] = Idle]
        /\ torn' \subseteq torn \cup {d}
        /\ UNCHANGED <<server, backup, stored, meta, made, edits, used, consent>>
    BY DEF Restart, historyVars
  <1>2. stored[d] \in Document /\ TypeOK
    BY Pieces DEF CInv
  <1>3. /\ edits' \in 0..MaxEdits /\ used' \subseteq RecordId
        /\ consent' \in [RecordId -> SUBSET (Item \X Item)]
    BY <1>1, <1>2 DEF TypeOK
  <1>4. JobFits(meta[d], Idle.stage) /\ ConflictsStay(meta[d], Idle.stage, Idle.doc)
    BY Constants, IdleFits
  <1> QED
    BY <1>1, <1>2, <1>3, <1>4, Constants, LocalStep

LEMMA StartSyncKeeps == ASSUME CInv, NEW d \in Device, StartSync(d) PROVE CInv'
  <1> DEFINE stage == IF meta[d].outbox = <<>> THEN "first" ELSE "replay"
             J == [Idle EXCEPT !.stage = stage, !.doc = ui[d]]
  <1>1. /\ job' = [job EXCEPT ![d] = J] /\ meta[d].conflicts = {}
        /\ UNCHANGED <<server, backup, stored, meta, ui, made, edits, used, consent, torn>>
    BY DEF StartSync, historyVars
  <1>2. ui[d] \in Document /\ TypeOK
    BY Pieces DEF CInv
  <1>3. stage \in Stage /\ stage \in {"first", "replay"}
        /\ (stage = "first" <=> meta[d].outbox = <<>>)
    BY DEF Stage
  <1> HIDE DEF stage
  <1>4. J \in Job /\ J.stage = stage
    BY <1>2, <1>3, Constants DEF Job
  <1> HIDE DEF J
  <1>5. /\ edits' \in 0..MaxEdits /\ used' \subseteq RecordId
        /\ consent' \in [RecordId -> SUBSET (Item \X Item)]
    BY <1>1, <1>2 DEF TypeOK
  <1>6. JobFits(meta[d], J.stage) /\ ConflictsStay(meta[d], J.stage, J.doc)
    BY <1>1, <1>3, <1>4 DEF JobFits, ConflictsStay
  <1> QED
    BY <1>1, <1>2, <1>3, <1>4, <1>5, <1>6, LocalStep

\* Errors and refusals that reach the caller.
LEMMA GivingUpKeeps ==
  ASSUME CInv, NEW d \in Device, GiveUp(d),
         UNCHANGED <<server, backup, stored, meta, ui, made, historyVars>>
  PROVE  CInv'
  <1>1. /\ job' = [job EXCEPT ![d] = Idle] /\ torn' \subseteq torn \cup {d}
        /\ UNCHANGED <<server, backup, stored, meta, ui, made, edits, used, consent>>
    BY DEF GiveUp, historyVars
  <1>2. stored[d] \in Document /\ TypeOK
    BY Pieces DEF CInv
  <1>3. /\ edits' \in 0..MaxEdits /\ used' \subseteq RecordId
        /\ consent' \in [RecordId -> SUBSET (Item \X Item)]
    BY <1>1, <1>2 DEF TypeOK
  <1>4. JobFits(meta[d], Idle.stage) /\ ConflictsStay(meta[d], Idle.stage, Idle.doc)
    BY Constants, IdleFits
  <1> QED
    BY <1>1, <1>2, <1>3, <1>4, Constants, LocalStep

LEMMA DrainConflictKeeps == ASSUME CInv, NEW d \in Device, DrainConflict(d) PROVE CInv'
  <1>1. CASE job[d].stage = "push" /\ GiveUp(d)
    BY <1>1, GivingUpKeeps DEF DrainConflict
  <1>2. CASE /\ job[d].stage = "replay" /\ UNCHANGED torn
             /\ job' = [job EXCEPT ![d].stage = "conflict"]
    <2> DEFINE J == [job[d] EXCEPT !.stage = "conflict"]
    <2>1. /\ job' = [job EXCEPT ![d] = J]
          /\ UNCHANGED <<server, backup, stored, meta, ui, made, edits, used, consent, torn>>
          /\ Head(meta[d].outbox).id \notin server.applied
      BY <1>2 DEF DrainConflict, historyVars, AlreadyApplied, Pending
    <2>2. J \in Job /\ J.stage = "conflict"
      <3>1. job[d] \in Job /\ "conflict" \in Stage
        BY DEF CInv, TypeOK, Stage
      <3> QED
        BY <3>1, JobWith, Zenon
    <2> HIDE DEF J
    <2>3. /\ ui[d] \in Document /\ TypeOK
          /\ edits' \in 0..MaxEdits /\ used' \subseteq RecordId
          /\ consent' \in [RecordId -> SUBSET (Item \X Item)]
      BY <2>1, Pieces DEF CInv, TypeOK
    <2>4. meta[d].conflicts = {} /\ meta[d].outbox # <<>>
      BY <1>2 DEF CInv, JobFits
    <2>5. ASSUME NeverBack, NEW i \in DOMAIN meta[d].outbox
          PROVE  meta[d].outbox[i].id \notin server.applied
      <3>1. Head(meta[d].outbox) = meta[d].outbox[1]
        BY <2>4, Pieces DEF CInv
      <3> QED
        BY <2>1, <2>5, <3>1 DEF CInv, DeviceInv, AppliedIsAhead
    <2>6. JobFits(meta[d], J.stage) /\ ConflictsStay(meta[d], J.stage, J.doc)
      BY <2>2, <2>4 DEF JobFits, ConflictsStay
    <2> QED
      BY <2>1, <2>2, <2>3, <2>5, <2>6, LocalStep
  <1> QED
    BY <1>1, <1>2 DEF DrainConflict

LEMMA ResolvesKeep ==
  ASSUME CInv, NEW d \in Device,
         ResolveFails(d) \/ \E r \in RecordId : UseRemote(d, r)
  PROVE  CInv'
  <1>1. CASE ResolveFails(d)
    <2>1. /\ job' = [job EXCEPT ![d] = Idle]
          /\ stored' \in {stored, [stored EXCEPT ![d] = ui[d]]}
          /\ torn' \subseteq torn \cup {d}
          /\ UNCHANGED <<server, backup, meta, ui, made, edits, used, consent>>
      BY <1>1 DEF ResolveFails, historyVars
    <2>2. ui[d] \in Document /\ TypeOK
      BY Pieces DEF CInv
    <2>3. /\ edits' \in 0..MaxEdits /\ used' \subseteq RecordId
          /\ consent' \in [RecordId -> SUBSET (Item \X Item)]
      BY <2>1, <2>2 DEF TypeOK
    <2>4. JobFits(meta[d], Idle.stage) /\ ConflictsStay(meta[d], Idle.stage, Idle.doc)
      BY Constants, IdleFits
    <2> QED
      BY <2>1, <2>2, <2>3, <2>4, Constants, LocalStep
  <1>2. ASSUME NEW r \in RecordId, UseRemote(d, r) PROVE CInv'
    <2>1. PICK c \in Selected(d, r) :
            LET doc == [ui[d] EXCEPT ![r] = c.item] IN
            /\ stored' = [stored EXCEPT ![d] = doc]
            /\ job' = [job EXCEPT ![d] =
                 [Idle EXCEPT !.stage = "resolve", !.doc = doc, !.record = r]]
            /\ consent' = Replaces(r, ui[d][r], c.item)
      BY <1>2 DEF UseRemote
    <2> DEFINE doc == [ui[d] EXCEPT ![r] = c.item]
               J == [Idle EXCEPT !.stage = "resolve", !.doc = doc, !.record = r]
    <2>2. /\ stored' = [stored EXCEPT ![d] = doc] /\ job' = [job EXCEPT ![d] = J]
          /\ UNCHANGED <<server, backup, meta, ui, made, edits, used, torn>>
      BY <1>2, <2>1 DEF UseRemote
    <2>3. c.item \in Item /\ ui[d][r] \in Item
      BY Elements DEF Selected, CInv
    <2>4. doc \in Document
      BY <2>3, Pieces DEF CInv, Document
    <2> HIDE DEF doc
    <2>5. J \in Job /\ J.stage = "resolve"
      <3>1. "resolve" \in Stage
        BY DEF Stage
      <3> QED
        BY <2>4, <3>1, Constants DEF Job
    <2> HIDE DEF J
    <2>6. consent' \in [RecordId -> SUBSET (Item \X Item)]
      BY <2>1, <2>3, ConsentTyped DEF CInv
    <2>7. edits' \in 0..MaxEdits /\ used' \subseteq RecordId
      BY <2>2 DEF CInv, TypeOK
    <2>8. JobFits(meta[d], J.stage) /\ ConflictsStay(meta[d], J.stage, J.doc)
      BY <2>5, IdleFits
    <2> QED
      BY <2>2, <2>4, <2>5, <2>6, <2>7, <2>8, LocalStep
  <1> QED
    BY <1>1, <1>2

LEMMA SyncFailsKeeps == ASSUME CInv, NEW d \in Device, SyncFails(d) PROVE CInv'
  BY GivingUpKeeps DEF SyncFails

-----------------------------------------------------------------------------
(* A mutation reaches the server *)

LEMMA DrainingFacts ==
  ASSUME CInv, NEW d \in Device, Draining(d)
  PROVE  meta[d].outbox # <<>> /\ meta[d].conflicts = {}
  BY DEF CInv, JobFits, Draining

\* The mutation that is pushed, and the rest of the outbox.
LEMMA PendingFacts ==
  ASSUME CInv, NEW d \in Device, meta[d].outbox # <<>>
  PROVE  /\ 1 \in DOMAIN meta[d].outbox
         /\ Pending(d) = meta[d].outbox[1] /\ Pending(d) \in Mutation
         /\ NeverBack => Pending(d).id[1] = d /\ Pending(d).id[2] \in 1..made[d]
         /\ Pending(d).id \in MutationId /\ Pending(d).record \in RecordId
         /\ Pending(d).base \in Nat /\ Pending(d).item \in Item
         /\ Tail(meta[d].outbox) \in Seq(Mutation)
         /\ \A i \in DOMAIN Tail(meta[d].outbox) :
              /\ i \in Nat /\ i >= 1 /\ i + 1 \in DOMAIN meta[d].outbox
              /\ Tail(meta[d].outbox)[i] = meta[d].outbox[i + 1]
  <1>1. meta[d].outbox \in Seq(Mutation)
    BY Pieces DEF CInv
  <1> DEFINE q == meta[d].outbox
  <1> HIDE DEF q
  <1>2. q \in Seq(Mutation) /\ q # <<>>
    BY <1>1 DEF q
  <1>3. /\ 1 \in DOMAIN q /\ Head(q) = q[1] /\ q[1] \in Mutation
        /\ Tail(q) \in Seq(Mutation)
        /\ \A i \in DOMAIN Tail(q) :
             i \in Nat /\ i >= 1 /\ i + 1 \in DOMAIN q /\ Tail(q)[i] = q[i + 1]
    <2>1. Len(q) \in Nat /\ Len(q) >= 1 /\ DOMAIN q = 1..Len(q)
      BY <1>2, EmptySeq, LenProperties
    <2>2. /\ Tail(q) \in Seq(Mutation) /\ Len(Tail(q)) = Len(q) - 1
          /\ \A i \in 1..Len(Tail(q)) : Tail(q)[i] = q[i + 1]
      BY <1>2, HeadTailProperties
    <2>3. DOMAIN Tail(q) = 1..(Len(q) - 1)
      BY <2>2, LenProperties
    <2> QED
      BY <1>2, <2>1, <2>2, <2>3, HeadTailProperties
  <1>4. NeverBack => NumbersOwn(d, meta[d], made[d])
    BY DEF CInv, DeviceInv
  <1>5. /\ Pending(d) = q[1]
        /\ NeverBack => q[1].id[1] = d /\ q[1].id[2] \in 1..made[d]
    BY <1>3, <1>4 DEF NumbersOwn, Pending, q
  <1> QED
    BY <1>3, <1>5 DEF q, Mutation

\* What the server has then: the mutation is applied, now or earlier.
LEMMA Taking ==
  ASSUME CInv, NEW m, m.id \in MutationId, m.record \in RecordId, m.base \in Nat,
         m.item \in Item, AlreadyApplied(m) \/ Appliable(m), ServerApplies(m)
  PROVE  /\ server' \in Server /\ Ordered(server')
         /\ server'.applied = server.applied \cup {m.id}
         /\ \/ AlreadyApplied(m) /\ server' = server
            \/ /\ ~AlreadyApplied(m) /\ server.rows[m.record].revision = m.base
               /\ server'.cursor = server.cursor + 1
               /\ server'.rows[m.record] =
                    [revision |-> m.base + 1, cursor |-> server.cursor + 1, item |-> m.item]
               /\ \A r \in RecordId \ {m.record} : server'.rows[r] = server.rows[r]
  <1>1. TypeOK /\ server \in Server /\ Ordered(server)
    BY DEF CInv, TypeOK
  <1>2. CASE AlreadyApplied(m)
    <2>1. server' = server
      BY <1>2 DEF ServerApplies
    <2> QED
      BY <1>1, <1>2, <2>1 DEF AlreadyApplied
  <1>3. CASE ~AlreadyApplied(m) /\ Appliable(m)
    <2> DEFINE row == [revision |-> m.base + 1, cursor |-> server.cursor + 1, item |-> m.item]
    <2>1. /\ server' = [cursor |-> server.cursor + 1, applied |-> server.applied \cup {m.id},
                        rows |-> [server.rows EXCEPT ![m.record] = row]]
          /\ server.rows[m.record].revision = m.base
      BY <1>3 DEF ServerApplies, Appliable
    <2>2. row \in [revision : Nat, cursor : Nat, item : Item]
          /\ row.cursor = server.cursor + 1
      BY <1>1, ServerTyped
    <2> HIDE DEF row
    <2>3. /\ server'.cursor = server.cursor + 1 /\ server'.applied = server.applied \cup {m.id}
          /\ server'.rows[m.record] = row
          /\ \A r \in RecordId \ {m.record} : server'.rows[r] = server.rows[r]
      BY <1>1, <2>1, ServerTyped
    <2>4. server' \in Server
      BY <1>1, <2>1, <2>2, ServerTyped DEF Server
    <2>5. Ordered(server')
      <3>1. \A r \in RecordId : server'.rows[r].cursor <= server'.cursor
        BY <1>1, <2>2, <2>3, ServerTyped DEF Ordered
      <3>2. \A r, q \in RecordId :
              server'.rows[r].cursor = server'.rows[q].cursor /\ server'.rows[r].cursor # 0
                => r = q
        BY <1>1, <2>2, <2>3, ServerTyped DEF Ordered
      <3> QED
        BY <3>1, <3>2 DEF Ordered
    <2> QED
      BY <1>3, <2>1, <2>3, <2>4, <2>5 DEF row
  <1> QED
    BY <1>2, <1>3

\* If the server never went back, a device's knowledge of it stays true.
LEMMA Pushed ==
  ASSUME CInv, NeverBack, NEW d \in Device, meta[d].outbox # <<>>, NEW m, m = Pending(d),
         AlreadyApplied(m) \/ Appliable(m), ServerApplies(m), made' = made
  PROVE  /\ server' \in Server /\ AppliedWereMade' /\ UnwrittenAreNone'
         /\ server.cursor <= server'.cursor
         /\ server'.applied = server.applied \cup {m.id}
         /\ OfRow(m.record, m.base + 1, m.item)'
         /\ server'.rows[m.record].cursor > meta[d].cursor
         /\ \A r \in RecordId, n \in Nat, i \in Item : OfRow(r, n, i) => OfRow(r, n, i)'
         /\ \A r \in RecordId : \/ server'.rows[r] = server.rows[r]
                                \/ server'.rows[r].cursor = server.cursor + 1
  <1>1. /\ m.id \in MutationId /\ m.record \in RecordId /\ m.base \in Nat /\ m.item \in Item
        /\ m.id[1] = d /\ m.id[2] \in 1..made[d] /\ m = meta[d].outbox[1]
        /\ 1 \in DOMAIN meta[d].outbox
    BY PendingFacts
  <1>2. TypeOK /\ AppliedWereMade /\ DeviceInv(d, meta[d], job[d], made[d])
    BY DEF CInv
  <1>3. /\ server' \in Server /\ Ordered(server')
        /\ server'.applied = server.applied \cup {m.id}
        /\ \/ AlreadyApplied(m) /\ server' = server
           \/ /\ ~AlreadyApplied(m) /\ server.rows[m.record].revision = m.base
              /\ server'.cursor = server.cursor + 1
              /\ server'.rows[m.record] =
                   [revision |-> m.base + 1, cursor |-> server.cursor + 1, item |-> m.item]
              /\ \A r \in RecordId \ {m.record} : server'.rows[r] = server.rows[r]
    BY <1>1, Taking
  <1>4. AppliedWereMade'
    <2>1. m.id[2] <= made[m.id[1]]
      BY <1>1, <1>2, Pieces
    <2> QED
      BY <1>2, <1>3, <2>1 DEF AppliedWereMade
  <1> DEFINE Repeated == AlreadyApplied(m) /\ server' = server
             Written == /\ server.rows[m.record].revision = m.base
                        /\ server'.cursor = server.cursor + 1
                        /\ server'.rows[m.record].revision = m.base + 1
                        /\ server'.rows[m.record].cursor = server.cursor + 1
                        /\ server'.rows[m.record].item = m.item
                        /\ \A r \in RecordId \ {m.record} : server'.rows[r] = server.rows[r]
  <1>5. Repeated \/ Written
    BY <1>3
  <1>6. /\ server.cursor \in Nat /\ meta[d].cursor \in Nat /\ meta[d].cursor <= server.cursor
        /\ \A r \in RecordId : server.rows[r].revision \in Nat
    BY <1>2, ServerTyped, Pieces DEF DeviceInv, Complete
  <1>7. ASSUME NEW r \in RecordId, NEW n \in Nat, NEW i \in Item, OfRow(r, n, i)
        PROVE  OfRow(r, n, i)'
    <2>1. n <= server.rows[r].revision /\ (n = server.rows[r].revision => i = server.rows[r].item)
      BY <1>7 DEF OfRow
    <2>2. CASE Repeated \/ r # m.record
      <3>1. server'.rows[r] = server.rows[r]
        BY <1>5, <2>2
      <3> QED
        BY <2>1, <3>1 DEF OfRow
    <2>3. CASE Written /\ r = m.record
      <3>1. n <= m.base /\ server'.rows[r].revision = m.base + 1
        BY <2>1, <2>3
      <3>2. n <= m.base + 1 /\ n # m.base + 1
        BY <1>1, <3>1
      <3>3. n <= server'.rows[r].revision /\ n # server'.rows[r].revision
        BY <3>1, <3>2
      <3> QED
        BY <3>3 DEF OfRow
    <2> QED
      BY <1>5, <2>2, <2>3
  <1>8. UnwrittenAreNone'
    BY <1>7, Constants DEF CInv, UnwrittenAreNone
  <1>9. OfRow(m.record, m.base + 1, m.item)' /\ server'.rows[m.record].cursor > meta[d].cursor
    <2>1. CASE Repeated
      <3>1. /\ OfRow(m.record, m.base + 1, m.item)
            /\ server.rows[m.record].cursor > meta[d].cursor
        BY <1>1, <1>2, <2>1 DEF DeviceInv, AppliedIsAhead, AlreadyApplied
      <3> QED
        BY <2>1, <3>1 DEF OfRow
    <2>2. CASE Written
      <3>1. /\ server'.rows[m.record].revision = m.base + 1
            /\ server'.rows[m.record].item = m.item
            /\ server'.rows[m.record].cursor = server.cursor + 1
        BY <2>2
      <3>2. m.base + 1 <= m.base + 1 /\ server.cursor + 1 > meta[d].cursor
        BY <1>1, <1>6
      <3> QED
        BY <3>1, <3>2 DEF OfRow
    <2> QED
      BY <1>5, <2>1, <2>2
  <1>10. \A r \in RecordId : \/ server'.rows[r] = server.rows[r]
                            \/ server'.rows[r].cursor = server.cursor + 1
    BY <1>5
  <1>11. server.cursor <= server'.cursor
    BY <1>5, <1>6
  <1> QED
    BY <1>3, <1>4, <1>7, <1>8, <1>9, <1>10, <1>11

\* Metadata that stay, under a server that applied a mutation.
LEMMA MetadataStay ==
  ASSUME CInv, NeverBack, NEW d \in Device, meta[d].outbox # <<>>, NEW m, m = Pending(d),
         AlreadyApplied(m) \/ Appliable(m), ServerApplies(m), made' = made,
         NEW M \in Metadata, KnownIsTrue(M), Complete(M)
  PROVE  KnownIsTrue(M)' /\ Complete(M)'
  <1>1. TypeOK /\ KnownIsTrue(M) /\ Complete(M)
    BY DEF CInv
  <1>2. \A r \in RecordId : M.known[r].revision \in Nat /\ M.known[r].local \in Item
    <2>1. M.known \in [RecordId -> Known]
      BY DEF Metadata
    <2> QED
      BY <2>1 DEF Known
  <1>3. \A c \in M.conflicts : c.record \in RecordId /\ c.revision \in Nat /\ c.item \in Item
    <2>1. M.conflicts \subseteq Conflict
      BY DEF Metadata
    <2> QED
      BY <2>1 DEF Conflict
  <1>4. KnownIsTrue(M)'
    BY <1>1, <1>2, <1>3, Pushed DEF KnownIsTrue
  <1>5. Complete(M)'
    <2>1. M.cursor \in Nat /\ server.cursor \in Nat /\ M.cursor <= server.cursor
      BY <1>1, ServerTyped DEF Complete, Metadata
    <2>2. server'.cursor \in Nat /\ server.cursor <= server'.cursor
      BY Pushed DEF Server
    <2>3. M.cursor <= server'.cursor
      BY <2>1, <2>2
    <2>4. ASSUME NEW r \in RecordId, server'.rows[r].cursor \in 1..M.cursor
          PROVE  server'.rows[r] = server.rows[r]
      BY <2>1, <2>4, Pushed
    <2> QED
      BY <1>1, <2>3, <2>4 DEF Complete
  <1> QED
    BY <1>4, <1>5

\* The other devices do not notice.
LEMMA OthersStay ==
  ASSUME CInv, NeverBack, NEW d \in Device, meta[d].outbox # <<>>, NEW m, m = Pending(d),
         AlreadyApplied(m) \/ Appliable(m), ServerApplies(m), made' = made,
         NEW e \in Device, e # d, meta'[e] = meta[e], job'[e] = job[e]
  PROVE  DeviceInv(e, meta[e], job[e], made[e])'
  <1>1. PICK M : M = meta[e]
    OBVIOUS
  <1>2. TypeOK /\ DeviceInv(e, M, job[e], made[e])
    BY <1>1 DEF CInv
  <1>3. KnownIsTrue(M)' /\ Complete(M)'
    BY <1>1, <1>2, MetadataStay DEF DeviceInv, TypeOK
  <1>4. AppliedIsAhead(M, job[e].stage)'
    <2> SUFFICES ASSUME NEW i \in DOMAIN M.outbox, M.outbox[i].id \in server'.applied
                 PROVE  /\ i = 1 /\ M.conflicts = {} /\ job'[e].stage # "conflict"
                        /\ OfRow(M.outbox[i].record, M.outbox[i].base + 1, M.outbox[i].item)'
                        /\ server'.rows[M.outbox[i].record].cursor > M.cursor
      BY DEF AppliedIsAhead
    <2>1. M.outbox[i].id # m.id
      BY <1>2, PendingFacts DEF DeviceInv, NumbersOwn
    <2>2. M.outbox[i].id \in server.applied
      BY <2>1, Pushed
    <2>3. /\ i = 1 /\ M.conflicts = {} /\ job[e].stage # "conflict"
          /\ OfRow(M.outbox[i].record, M.outbox[i].base + 1, M.outbox[i].item)
          /\ server.rows[M.outbox[i].record].cursor > M.cursor
      BY <1>2, <2>2 DEF DeviceInv, AppliedIsAhead
    <2>4. /\ M.outbox[i].record \in RecordId /\ M.outbox[i].base + 1 \in Nat
          /\ M.outbox[i].item \in Item
      BY <1>1, <1>2, Elements
    <2>5. OfRow(M.outbox[i].record, M.outbox[i].base + 1, M.outbox[i].item)'
      BY <2>3, <2>4, Pushed
    <2>6. server'.rows[M.outbox[i].record].cursor > M.cursor
      <3>1. M.cursor \in Nat /\ M.cursor <= server.cursor /\ server.cursor \in Nat
        BY <1>1, <1>2, Pieces, ServerTyped DEF DeviceInv, Complete
      <3> QED
        BY <2>3, <2>4, <3>1, Pushed
    <2> QED
      BY <2>3, <2>5, <2>6
  <1>5. PICK stage, doc : stage = job[e].stage /\ doc = job[e].doc
    OBVIOUS
  <1>6. NumbersOwn(e, M, made[e]) /\ ConflictsStay(M, stage, doc)
    BY <1>2, <1>5 DEF DeviceInv
  <1>7. AppliedIsAhead(M, stage)'
    BY <1>4, <1>5 DEF AppliedIsAhead
  <1> QED
    BY <1>1, <1>3, <1>5, <1>6, <1>7, DeviceIs

\* The server has the mutation, and the device, which rests, queues it still.
LEMMA LostKeeps ==
  ASSUME CInv, NEW d \in Device, meta[d].outbox # <<>>, meta[d].conflicts = {},
         Appliable(Pending(d)), ServerApplies(Pending(d)),
         NEW J \in Job, J.stage = "idle", job' = [job EXCEPT ![d] = J],
         torn' \subseteq torn \cup {d},
         UNCHANGED <<backup, stored, meta, ui, made, edits, used, consent>>
  PROVE  CInv'
  <1>1. PICK m : m = Pending(d)
    OBVIOUS
  <1>2. Appliable(m) /\ ServerApplies(m)
    BY <1>1
  <1>3. TypeOK /\ job \in [Device -> Job] /\ meta \in [Device -> Metadata]
    BY DEF CInv, TypeOK
  <1>4. job' \in [Device -> Job] /\ job'[d] = J /\ \A e \in Device \ {d} : job'[e] = job[e]
    BY <1>3
  <1>5. server' \in Server /\ Ordered(server')
    BY <1>1, <1>2, PendingFacts, Taking
  <1>6. TypeOK'
    BY <1>3, <1>4, <1>5 DEF TypeOK
  <1>7. ASSUME NeverBack, NEW e \in Device PROVE DeviceInv(e, meta[e], job[e], made[e])'
    <2>1. CASE e # d
      BY <1>1, <1>2, <1>4, <1>7, <2>1, OthersStay
    <2>2. CASE e = d
      <3>1. PICK M : M = meta[d]
        OBVIOUS
      <3>2. DeviceInv(d, M, job[d], made[d])
        BY <1>7, <3>1 DEF CInv
      <3>3. KnownIsTrue(M)' /\ Complete(M)'
        BY <1>1, <1>2, <1>3, <1>7, <3>1, <3>2, MetadataStay DEF DeviceInv
      <3>4. ConflictsStay(M, "idle", J.doc)
        BY DEF ConflictsStay
      <3>5. NumbersOwn(d, M, made[d])
        BY <3>2 DEF DeviceInv
      <3>6. AppliedIsAhead(M, "idle")'
        <4> SUFFICES ASSUME NEW i \in DOMAIN M.outbox, M.outbox[i].id \in server'.applied
                     PROVE  /\ i = 1 /\ M.conflicts = {}
                            /\ OfRow(M.outbox[i].record, M.outbox[i].base + 1,
                                     M.outbox[i].item)'
                            /\ server'.rows[M.outbox[i].record].cursor > M.cursor
          BY DEF AppliedIsAhead
        <4>1. m = M.outbox[1] /\ 1 \in DOMAIN M.outbox /\ M.conflicts = {}
          BY <1>1, <3>1, PendingFacts
        <4>2. M.outbox[i].id \in server.applied \/ M.outbox[i].id = m.id
          BY <1>1, <1>2, <1>7, Pushed
        <4>3. i = 1
          BY <3>2, <4>1, <4>2 DEF DeviceInv, AppliedIsAhead, NumbersOwn
        <4>4. /\ OfRow(m.record, m.base + 1, m.item)'
              /\ server'.rows[m.record].cursor > meta[d].cursor
          BY <1>1, <1>2, <1>7, Pushed
        <4> QED
          BY <3>1, <4>1, <4>3, <4>4
      <3> QED
        BY <1>4, <2>2, <3>1, <3>3, <3>4, <3>5, <3>6, DeviceIs
    <2> QED
      BY <2>1, <2>2
  <1>8. \A e \in Device : JobFits(meta'[e], job'[e].stage)
    <2>1. JobFits(meta[d], job'[d].stage)
      BY <1>4, IdleFits
    <2> QED
      BY <1>4, <2>1 DEF CInv
  <1>9. NeverBack => AppliedWereMade' /\ UnwrittenAreNone'
    BY <1>1, <1>2, Pushed
  <1>10. Ordered(backup')
    BY DEF CInv
  <1> QED
    BY <1>5, <1>6, <1>7, <1>8, <1>9, <1>10 DEF CInv, NeverBack

LEMMA AnswerLostKeeps == ASSUME CInv, NEW d \in Device, AnswerLost(d) PROVE CInv'
  <1>1. /\ Draining(d) /\ Appliable(Pending(d)) /\ ServerApplies(Pending(d))
        /\ job' = [job EXCEPT ![d] = Idle] /\ torn' \subseteq torn \cup {d}
        /\ UNCHANGED <<backup, stored, meta, ui, made, edits, used, consent>>
    BY DEF AnswerLost, GiveUp, historyVars
  <1>2. meta[d].outbox # <<>> /\ meta[d].conflicts = {}
    BY <1>1, DrainingFacts
  <1> QED
    BY <1>1, <1>2, Constants, LostKeeps

\* The server has the first mutation of a device, which notes it.
Drained(d, m, rest) ==
  /\ m = Pending(d) /\ rest = Tail(meta[d].outbox)
  /\ AlreadyApplied(m) \/ Appliable(m)
  /\ ServerApplies(m)
  /\ meta' = [meta EXCEPT
       ![d].known[m.record] = [revision |-> m.base + 1, local |-> m.item],
       ![d].outbox = rest]

LEMMA DrainedKeeps ==
  ASSUME CInv, NEW d \in Device, meta[d].outbox # <<>>, meta[d].conflicts = {},
         NEW m, NEW rest, Drained(d, m, rest), NEW J \in Job, J.stage # "conflict",
         J.stage \in {"replay", "push"} => rest # <<>>,
         J.stage \in {"first", "enqueue", "second"} => rest = <<>>,
         job' = [job EXCEPT ![d] = J],
         UNCHANGED <<backup, stored, ui, made, edits, used, consent, torn>>
  PROVE  CInv'
  <1>1. PICK known, stage : /\ known = [revision |-> m.base + 1, local |-> m.item]
                            /\ stage = J.stage
    OBVIOUS
  <1> DEFINE M == [meta[d] EXCEPT !.known[m.record] = known, !.outbox = rest]
  <1>2. meta' = [meta EXCEPT ![d] = M]
    BY <1>1 DEF Drained
  <1>3. m = Pending(d) /\ rest = Tail(meta[d].outbox)
    BY DEF Drained
  <1>4. (AlreadyApplied(m) \/ Appliable(m)) /\ ServerApplies(m)
    BY DEF Drained
  <1>5. TypeOK /\ job \in [Device -> Job] /\ meta \in [Device -> Metadata]
    BY DEF CInv, TypeOK
  <1>6. /\ m.id \in MutationId /\ m.record \in RecordId /\ m.base \in Nat /\ m.item \in Item
        /\ m = meta[d].outbox[1] /\ 1 \in DOMAIN meta[d].outbox
        /\ rest \in Seq(Mutation)
        /\ \A i \in DOMAIN rest : /\ i \in Nat /\ i >= 1 /\ i + 1 \in DOMAIN meta[d].outbox
                                  /\ rest[i] = meta[d].outbox[i + 1]
    BY <1>3, PendingFacts
  <1>7. /\ M \in Metadata /\ M.cursor = meta[d].cursor /\ M.outbox = rest
        /\ M.conflicts = {} /\ M.known[m.record] = known
        /\ \A r \in RecordId \ {m.record} : M.known[r] = meta[d].known[r]
    <2>1. known \in Known
      BY <1>1, <1>6 DEF Known
    <2>2. meta[d] \in Metadata
      BY <1>5
    <2> QED
      BY <1>6, <2>1, <2>2 DEF Metadata
  <1> HIDE DEF M
  <1>8. /\ meta' \in [Device -> Metadata] /\ meta'[d] = M
         /\ job' \in [Device -> Job] /\ job'[d] = J
         /\ \A e \in Device \ {d} : job'[e] = job[e] /\ meta'[e] = meta[e]
    BY <1>2, <1>5, <1>7
  <1>9. server' \in Server /\ Ordered(server')
    BY <1>4, <1>6, Taking
  <1>10. TypeOK'
    BY <1>5, <1>8, <1>9 DEF TypeOK
  <1>11. ASSUME NeverBack, NEW e \in Device PROVE DeviceInv(e, meta[e], job[e], made[e])'
    <2>1. CASE e # d
      BY <1>3, <1>4, <1>8, <1>11, <2>1, OthersStay
    <2>2. CASE e = d
      <3>1. PICK O, N, s, doc : O = meta[d] /\ N = M /\ s = stage /\ doc = J.doc
        OBVIOUS
      <3>2. DeviceInv(d, O, job[d], made[d])
        BY <1>11, <3>1 DEF CInv
      <3>3. KnownIsTrue(O)' /\ Complete(O)'
        BY <1>3, <1>4, <1>5, <1>11, <3>1, <3>2, MetadataStay DEF DeviceInv
      <3>4. /\ OfRow(m.record, m.base + 1, m.item)'
            /\ server'.rows[m.record].cursor > O.cursor
            /\ server'.applied = server.applied \cup {m.id}
        BY <1>3, <1>4, <1>11, <3>1, Pushed
      <3>5. /\ N.cursor = O.cursor /\ N.outbox = rest /\ N.conflicts = {}
            /\ O.conflicts = {} /\ N.known[m.record] = known
            /\ \A r \in RecordId \ {m.record} : N.known[r] = O.known[r]
            /\ m = O.outbox[1] /\ 1 \in DOMAIN O.outbox
            /\ \A i \in DOMAIN rest : /\ i \in Nat /\ i >= 1 /\ i + 1 \in DOMAIN O.outbox
                                      /\ rest[i] = O.outbox[i + 1]
        BY <1>6, <1>7, <3>1
      <3>6. KnownIsTrue(N)'
        BY <1>1, <1>6, <3>3, <3>4, <3>5 DEF KnownIsTrue
      <3>7. Complete(N)'
        <4>1. O.cursor \in Nat /\ server'.rows[m.record].cursor \in Nat
          BY <1>5, <1>6, <1>9, <3>1, Pieces DEF Server
        <4>2. ~(server'.rows[m.record].cursor \in 1..O.cursor)
          BY <3>4, <4>1
        <4> QED
          BY <3>3, <3>5, <4>2 DEF Complete
      <3>8. NumbersOwn(d, N, made[d])
        <4>1. NumbersOwn(d, O, made[d])
          BY <3>2 DEF DeviceInv
        <4>2. \A i \in DOMAIN rest : rest[i].id[1] = d /\ rest[i].id[2] \in 1..made[d]
          BY <3>5, <4>1 DEF NumbersOwn
        <4>3. \A i, j \in DOMAIN rest : rest[i].id = rest[j].id => i = j
          BY <3>5, <4>1 DEF NumbersOwn
        <4> QED
          BY <3>5, <4>2, <4>3 DEF NumbersOwn
      <3>9. ASSUME NEW i \in DOMAIN rest PROVE rest[i].id \notin server'.applied
        <4>1. i + 1 # 1 /\ i + 1 \in DOMAIN O.outbox /\ rest[i] = O.outbox[i + 1]
          BY <3>5
        <4>2. rest[i].id \notin server.applied /\ rest[i].id # m.id
          BY <3>2, <3>5, <4>1 DEF DeviceInv, AppliedIsAhead, NumbersOwn
        <4> QED
          BY <3>4, <4>2
      <3>10. AppliedIsAhead(N, s)'
        BY <3>5, <3>9 DEF AppliedIsAhead
      <3>11. ConflictsStay(N, s, doc)
        BY <3>5 DEF ConflictsStay
      <3>12. meta'[d] = N /\ job'[d].stage = s /\ job'[d].doc = doc
        BY <1>1, <1>8, <3>1
      <3> QED
        BY <2>2, <3>6, <3>7, <3>8, <3>10, <3>11, <3>12, DeviceIs
    <2> QED
      BY <2>1, <2>2
  <1>12. \A e \in Device : JobFits(meta'[e], job'[e].stage)
    <2>1. JobFits(M, J.stage)
      BY <1>7 DEF JobFits
    <2> QED
      BY <1>8, <2>1 DEF CInv
  <1>13. NeverBack => AppliedWereMade' /\ UnwrittenAreNone'
    BY <1>3, <1>4, Pushed
  <1>14. Ordered(backup')
    BY DEF CInv
  <1> QED
    BY <1>9, <1>10, <1>11, <1>12, <1>13, <1>14 DEF CInv, NeverBack

LEMMA DrainOneKeeps == ASSUME CInv, NEW d \in Device, DrainOne(d) PROVE CInv'
  <1>1. PICK m, rest : m = Pending(d) /\ rest = Tail(meta[d].outbox)
    OBVIOUS
  <1> DEFINE stage == IF rest # <<>> THEN job[d].stage
                      ELSE IF job[d].stage = "replay" THEN "first" ELSE "second"
             J == [job[d] EXCEPT !.stage = stage]
  <1>2. /\ Draining(d) /\ job' = [job EXCEPT ![d] = J]
        /\ UNCHANGED <<backup, stored, ui, made, edits, used, consent, torn>>
    BY <1>1 DEF DrainOne, historyVars
  <1>3. Drained(d, m, rest)
    BY <1>1 DEF DrainOne, Drained
  <1>4. stage \in Stage /\ (stage \in {"replay", "push"} => rest # <<>>)
        /\ (stage \in {"first", "enqueue", "second"} => rest = <<>>) /\ stage # "conflict"
    BY <1>2 DEF Draining, Stage
  <1> HIDE DEF stage
  <1>5. J \in Job /\ J.stage = stage
    BY <1>4, JobWith DEF CInv, TypeOK
  <1> HIDE DEF J
  <1>6. meta[d].outbox # <<>> /\ meta[d].conflicts = {}
    BY <1>2, DrainingFacts
  <1> QED
    BY <1>2, <1>3, <1>4, <1>5, <1>6, DrainedKeeps

-----------------------------------------------------------------------------
(* The pull *)

\* What a page leads to, whatever becomes of the job.
LEMMA PageFits ==
  ASSUME CInv, NeverBack, NEW d \in Device, Pulling(d), meta[d].cursor <= server.cursor,
         NEW M \in Metadata, NEW doc \in Document,
         M.cursor = NextCursor(meta[d].cursor),
         M.conflicts = meta[d].conflicts \cup NewConflicts(d),
         M.outbox = meta[d].outbox,
         \A r \in RecordId : M.known[r] =
           IF r \in Taken(d)
           THEN [revision |-> server.rows[r].revision, local |-> server.rows[r].item]
           ELSE meta[d].known[r],
         \A r \in RecordId : doc[r] = IF r \in Taken(d) THEN server.rows[r].item
                                      ELSE job[d].doc[r]
  PROVE  /\ NumbersOwn(d, M, made[d])
         /\ \A i \in DOMAIN M.outbox : M.outbox[i].id \notin server.applied
         /\ KnownIsTrue(M) /\ Complete(M)
         /\ \A stage : ConflictsStay(M, stage, doc)
  <1>1. TypeOK /\ Ordered(server) /\ DeviceInv(d, meta[d], job[d], made[d])
        /\ job[d].stage \in {"first", "second", "conflict"}
    BY DEF CInv, Pulling
  <1> DEFINE after == meta[d].cursor
             New == {r \in Page(after) \ Taken(d) :
                       ~\E c \in meta[d].conflicts :
                          c.record = r /\ c.revision = server.rows[r].revision}
             Version(r) == [record |-> r, revision |-> server.rows[r].revision,
                            item |-> server.rows[r].item]
  <1>2. NewConflicts(d) = {Version(r) : r \in New}
    BY DEF NewConflicts
  <1>3. Page(after) \subseteq RecordId /\ \A r \in Page(after) : server.rows[r].cursor > after
    BY DEF Page, Fresh
  <1>4. after \in Nat /\ server.cursor \in Nat
    BY <1>1, Pieces, ServerTyped
  <1>5. /\ NextCursor(after) \in Nat /\ NextCursor(after) <= server.cursor
        /\ after <= NextCursor(after)
        /\ \A r \in RecordId :
             server.rows[r].cursor > after /\ server.rows[r].cursor <= NextCursor(after)
               => r \in Page(after)
    BY <1>1, <1>4, PageFacts
  <1>6. \A r \in RecordId : r \in Taken(d) <=>
          r \in Page(after) /\ ~Conflicting(job[d].doc, meta[d], r)
    BY DEF Taken
  <1> HIDE DEF after
  <1>7. NumbersOwn(d, M, made[d])
    BY <1>1 DEF DeviceInv, NumbersOwn
  <1>8. \A i \in DOMAIN M.outbox : M.outbox[i].id \notin server.applied
    <2>1. CASE job[d].stage = "conflict"
      BY <1>1, <2>1 DEF DeviceInv, AppliedIsAhead
    <2>2. CASE job[d].stage \in {"first", "second"}
      <3>1. meta[d].outbox = <<>>
        BY <2>2 DEF CInv, JobFits
      <3> QED
        BY <3>1
    <2> QED
      BY <1>1, <2>1, <2>2
  <1>9. \A c \in meta[d].conflicts : c.record \in RecordId /\ c.record \notin Taken(d)
    BY <1>1, <1>6, Elements DEF DeviceInv, ConflictsStay
  <1>10. KnownIsTrue(M)
    <2>1. ASSUME NEW r \in RecordId PROVE OfRow(r, M.known[r].revision, M.known[r].local)
      <3>1. CASE r \in Taken(d)
        <4> DEFINE row == [revision |-> server.rows[r].revision,
                           local |-> server.rows[r].item]
        <4>3. M.known[r] = row
          BY <3>1
        <4>1. /\ M.known[r].revision = server.rows[r].revision
              /\ M.known[r].local = server.rows[r].item
          BY <4>3
        <4>2. server.rows[r].revision \in Nat
          BY <1>1, ServerTyped
        <4> QED
          BY <4>1, <4>2 DEF OfRow
      <3>2. CASE r \notin Taken(d)
        BY <1>1, <3>2 DEF DeviceInv, KnownIsTrue
      <3> QED
        BY <3>1, <3>2
    <2>2. ASSUME NEW c \in M.conflicts
          PROVE  OfRow(c.record, c.revision, c.item) /\ M.known[c.record].revision <= c.revision
      <3>1. CASE c \in meta[d].conflicts
        BY <1>1, <1>9, <3>1 DEF DeviceInv, KnownIsTrue
      <3>2. CASE c \in NewConflicts(d)
        <4>1. PICK r \in New : c = Version(r)
          BY <1>2, <3>2
        <4>2. r \in RecordId /\ r \notin Taken(d)
          BY <1>3 DEF after
        <4>3. M.known[r] = meta[d].known[r] /\ OfRow(r, M.known[r].revision, M.known[r].local)
          BY <1>1, <4>2 DEF DeviceInv, KnownIsTrue
        <4> QED
          BY <1>1, <4>1, <4>2, <4>3, ServerTyped DEF OfRow
      <3> QED
        BY <3>1, <3>2
    <2> QED
      BY <2>1, <2>2 DEF KnownIsTrue
  <1>11. Complete(M)
    <2>1. M.cursor <= server.cursor
      BY <1>5 DEF after
    <2>2. ASSUME NEW r \in RecordId, server.rows[r].cursor \in 1..M.cursor
          PROVE  \/ M.known[r] = [revision |-> server.rows[r].revision,
                                  local |-> server.rows[r].item]
                 \/ \E c \in M.conflicts : c = Version(r)
      <3>1. CASE server.rows[r].cursor <= after
        <4>1. server.rows[r].cursor \in 1..after /\ r \notin Page(after)
          BY <1>1, <1>3, <1>4, <2>2, <3>1, ServerTyped
        <4>2. r \notin Taken(d)
          BY <1>6, <4>1
        <4> QED
          BY <1>1, <4>1, <4>2 DEF DeviceInv, Complete, after
      <3>2. CASE server.rows[r].cursor > after
        <4>1. r \in Page(after)
          BY <1>4, <1>5, <2>2, <3>2 DEF after
        <4>2. CASE r \in Taken(d)
          BY <4>2
        <4>3. CASE r \in New
          <5>1. Version(r) \in M.conflicts
            BY <1>2, <4>3
          <5> QED
            BY <5>1
        <4>4. CASE r \notin Taken(d) /\ r \notin New
          <5>1. PICK c \in meta[d].conflicts :
                  c.record = r /\ c.revision = server.rows[r].revision
            BY <4>1, <4>4 DEF after
          <5>2. c \in Conflict /\ OfRow(c.record, c.revision, c.item)
            BY <1>1, <5>1, Elements DEF DeviceInv, KnownIsTrue
          <5>3. c.item = server.rows[r].item
            BY <5>1, <5>2 DEF OfRow
          <5>4. c = Version(r)
            BY <5>1, <5>2, <5>3 DEF Conflict
          <5> QED
            BY <5>1, <5>4
        <4> QED
          BY <4>2, <4>3, <4>4
      <3> QED
        BY <1>1, <1>4, <3>1, <3>2, ServerTyped
    <2> QED
      BY <2>1, <2>2 DEF Complete
  <1>12. ASSUME NEW stage PROVE ConflictsStay(M, stage, doc)
    <2>1. ASSUME NEW c \in M.conflicts
          PROVE  /\ c.record \in RecordId /\ c.record \notin Taken(d)
                 /\ Conflicting(job[d].doc, meta[d], c.record)
      <3>1. CASE c \in meta[d].conflicts
        BY <1>1, <1>9, <3>1 DEF DeviceInv, ConflictsStay
      <3>2. CASE c \in NewConflicts(d)
        <4>1. PICK r \in New : c = Version(r)
          BY <1>2, <3>2
        <4>2. r \in RecordId /\ r \in Page(after) /\ r \notin Taken(d) /\ c.record = r
          BY <1>3, <4>1 DEF after
        <4> QED
          BY <1>6, <4>2
      <3> QED
        BY <3>1, <3>2
    <2>2. ASSUME NEW c \in M.conflicts PROVE Conflicting(doc, M, c.record)
      BY <2>1, <2>2 DEF Conflicting, PendingFor, HasLocalChange
    <2> QED
      BY <2>2 DEF ConflictsStay
  <1> QED
    BY <1>7, <1>8, <1>10, <1>11, <1>12

\* Where a finished pull goes.
LEMMA AfterPullFits ==
  ASSUME CInv, NEW d \in Device, NEW doc \in Document, NEW M,
         AfterPull(d, doc, M.conflicts), job[d].stage = "first" => M.outbox = <<>>
  PROVE  \E J \in Job, u \in Document :
           /\ job' = [job EXCEPT ![d] = J] /\ ui' \in {ui, [ui EXCEPT ![d] = u]}
           /\ J.stage \in {"idle", "enqueue"} /\ JobFits(M, J.stage)
           /\ ConflictsStay(M, J.stage, J.doc)
  <1>1. CASE job[d].stage = "first" /\ M.conflicts = {}
    <2> DEFINE J == [Idle EXCEPT !.stage = "enqueue", !.doc = doc]
    <2>1. job' = [job EXCEPT ![d] = J] /\ ui' = ui
      BY <1>1 DEF AfterPull
    <2>2. "enqueue" \in Stage
      BY DEF Stage
    <2>3. J \in Job /\ J.stage = "enqueue"
      BY <2>2, Constants DEF Job
    <2> HIDE DEF J
    <2>4. JobFits(M, J.stage) /\ ConflictsStay(M, J.stage, J.doc)
      BY <1>1, <2>3 DEF JobFits, ConflictsStay
    <2> QED
      BY <2>1, <2>3, <2>4
  <1>2. CASE ~(job[d].stage = "first" /\ M.conflicts = {})
    <2>1. job' = [job EXCEPT ![d] = Idle] /\ ui' = [ui EXCEPT ![d] = doc]
      BY <1>2 DEF AfterPull
    <2>2. JobFits(M, Idle.stage) /\ ConflictsStay(M, Idle.stage, Idle.doc)
      BY Constants, IdleFits
    <2> QED
      BY <2>1, <2>2, Constants
  <1> QED
    BY <1>1, <1>2

LEMMA PullPageKeeps == ASSUME CInv, NEW d \in Device, PullPage(d) PROVE CInv'
  <1> DEFINE doc == [r \in RecordId |->
                       IF r \in Taken(d) THEN server.rows[r].item ELSE job[d].doc[r]]
             conflicts == meta[d].conflicts \cup NewConflicts(d)
             known == [r \in RecordId |->
                IF r \in Taken(d)
                THEN [revision |-> server.rows[r].revision, local |-> server.rows[r].item]
                ELSE meta[d].known[r]]
             changed == job[d].changed \/ Taken(d) # {}
             more == HasMore(meta[d].cursor)
             M == [meta[d] EXCEPT !.cursor = NextCursor(meta[d].cursor),
                                  !.conflicts = conflicts, !.known = known]
             K == [job[d] EXCEPT !.doc = doc, !.changed = changed, !.sealing = ~more]
  <1>1. /\ Pulling(d) /\ meta[d].cursor <= server.cursor
        /\ meta' = [meta EXCEPT ![d] = M]
        /\ \/ job' = [job EXCEPT ![d] = K] /\ ui' = ui
           \/ AfterPull(d, doc, conflicts)
        /\ UNCHANGED <<server, backup, stored, made, edits, used, consent, torn>>
    BY DEF PullPage, historyVars
  <1>2. TypeOK /\ Ordered(server)
    BY DEF CInv
  <1>3. doc \in Document /\ known \in [RecordId -> Known]
    BY <1>2, ServerTyped, Elements DEF Document, Known
  <1>4. NewConflicts(d) \subseteq Conflict
    <2>1. Page(meta[d].cursor) \subseteq RecordId
      BY DEF Page, Fresh
    <2> QED
      BY <1>2, <2>1, ServerTyped DEF NewConflicts, Conflict
  <1>5. conflicts \subseteq Conflict
    BY <1>2, <1>4, Pieces
  <1>6. NextCursor(meta[d].cursor) \in Nat
    BY <1>1, <1>2, Pieces, PageFacts
  <1>7. \A r \in RecordId : doc[r] = IF r \in Taken(d) THEN server.rows[r].item
                                     ELSE job[d].doc[r]
    OBVIOUS
  <1>8. \A r \in RecordId : known[r] =
          IF r \in Taken(d)
          THEN [revision |-> server.rows[r].revision, local |-> server.rows[r].item]
          ELSE meta[d].known[r]
    OBVIOUS
  <1>9. changed \in BOOLEAN /\ (~more) \in BOOLEAN
    <2>1. job[d].changed \in BOOLEAN
      BY <1>2 DEF TypeOK, Job
    <2>2. changed \in BOOLEAN
      BY <2>1
    <2>3. (~more) \in BOOLEAN
      OBVIOUS
    <2> QED
      BY <2>2, <2>3
  <1> HIDE DEF doc, known, changed, more
  <1>10. /\ M \in Metadata /\ M.cursor = NextCursor(meta[d].cursor)
         /\ M.conflicts = conflicts /\ M.outbox = meta[d].outbox /\ M.known = known
    <2>1. meta[d] \in Metadata
      BY <1>2 DEF TypeOK
    <2> HIDE DEF conflicts
    <2> QED
      BY <1>3, <1>5, <1>6, <2>1 DEF Metadata
  <1>11. K \in Job /\ K.stage = job[d].stage /\ K.doc = doc
    <2>1. job[d] \in Job
      BY <1>2 DEF TypeOK
    <2> QED
      BY <1>3, <1>9, <2>1 DEF Job
  <1> HIDE DEF M, K
  <1>12. NeverBack =>
           /\ NumbersOwn(d, M, made[d])
           /\ \A i \in DOMAIN M.outbox : M.outbox[i].id \notin server.applied
           /\ KnownIsTrue(M) /\ Complete(M)
           /\ \A stage : ConflictsStay(M, stage, doc)
    BY <1>1, <1>3, <1>7, <1>8, <1>10, PageFits
  <1>13. job[d].stage \in {"first", "second", "conflict"}
         /\ JobFits(meta[d], job[d].stage)
    BY <1>1 DEF Pulling, CInv
  <1>14. PICK J \in Job, u \in Document :
           /\ job' = [job EXCEPT ![d] = J] /\ ui' \in {ui, [ui EXCEPT ![d] = u]}
           /\ JobFits(M, J.stage) /\ (NeverBack => ConflictsStay(M, J.stage, J.doc))
    <2>1. CASE job' = [job EXCEPT ![d] = K] /\ ui' = ui
      <3>1. JobFits(M, K.stage) /\ (NeverBack => ConflictsStay(M, K.stage, K.doc))
        BY <1>10, <1>11, <1>12, <1>13 DEF JobFits
      <3> QED
        BY <1>3, <1>11, <2>1, <3>1
    <2>2. CASE AfterPull(d, doc, conflicts)
      <3>1. job[d].stage = "first" => M.outbox = <<>>
        BY <1>10, <1>13 DEF JobFits
      <3>2. AfterPull(d, doc, M.conflicts)
        <4> HIDE DEF conflicts
        <4> QED
          BY <1>10, <2>2
      <3> QED
        BY <1>3, <3>1, <3>2, AfterPullFits
    <2> QED
      BY <1>1, <2>1, <2>2
  <1>15. NeverBack => DeviceInv(d, M, J, made[d])
    BY <1>12, <1>14 DEF DeviceInv, AppliedIsAhead
  <1>16. /\ made[d] \in made[d]..MaxMutations /\ made' = [made EXCEPT ![d] = made[d]]
         /\ stored[d] \in Document
         /\ edits' \in 0..MaxEdits /\ used' \subseteq RecordId
         /\ consent' \in [RecordId -> SUBSET (Item \X Item)]
    BY <1>1, <1>2, Pieces, Constants DEF TypeOK
  <1> QED
    BY <1>1, <1>10, <1>14, <1>15, <1>16, MetadataStep

LEMMA SealPulledKeeps == ASSUME CInv, NEW d \in Device, SealPulled(d) PROVE CInv'
  <1>1. /\ stored' = [stored EXCEPT ![d] = job[d].doc]
        /\ AfterPull(d, job[d].doc, meta[d].conflicts)
        /\ UNCHANGED <<server, backup, meta, made, edits, used, consent, torn>>
    BY DEF SealPulled, historyVars
  <1>2. TypeOK /\ job[d].doc \in Document
    BY Pieces DEF CInv
  <1>3. job[d].stage = "first" => meta[d].outbox = <<>>
    BY DEF CInv, JobFits
  <1>4. PICK J \in Job, u \in Document :
          /\ job' = [job EXCEPT ![d] = J] /\ ui' \in {ui, [ui EXCEPT ![d] = u]}
          /\ J.stage \in {"idle", "enqueue"} /\ JobFits(meta[d], J.stage)
          /\ ConflictsStay(meta[d], J.stage, J.doc)
    BY <1>1, <1>2, <1>3, AfterPullFits
  <1>5. /\ edits' \in 0..MaxEdits /\ used' \subseteq RecordId
        /\ consent' \in [RecordId -> SUBSET (Item \X Item)]
    BY <1>1, <1>2 DEF TypeOK
  <1> QED
    BY <1>1, <1>2, <1>4, <1>5, LocalStep

\* A server that never went back is not behind a device.
LEMMA ResetCursorKeeps == ASSUME CInv, NEW d \in Device, ResetCursor(d) PROVE CInv'
  <1> DEFINE M == [meta[d] EXCEPT !.cursor = 0]
  <1>1. /\ meta' = [meta EXCEPT ![d] = M] /\ meta[d].cursor > server.cursor
        /\ UNCHANGED <<server, backup, stored, ui, job, made, edits, used, consent, torn>>
    BY DEF ResetCursor, historyVars
  <1>2. TypeOK /\ meta[d] \in Metadata /\ job[d] \in Job
    BY DEF CInv, TypeOK
  <1>3. ASSUME NeverBack PROVE FALSE
    <2>1. meta[d].cursor \in Nat /\ server.cursor \in Nat /\ meta[d].cursor <= server.cursor
      BY <1>2, <1>3, Pieces, ServerTyped DEF CInv, DeviceInv, Complete
    <2> QED
      BY <1>1, <2>1
  <1>4. M \in Metadata /\ M.outbox = meta[d].outbox /\ M.conflicts = meta[d].conflicts
    BY <1>2 DEF Metadata
  <1> HIDE DEF M
  <1>5. JobFits(M, job[d].stage)
    BY <1>4 DEF CInv, JobFits
  <1>6. /\ made[d] \in made[d]..MaxMutations /\ made' = [made EXCEPT ![d] = made[d]]
        /\ job' = [job EXCEPT ![d] = job[d]]
        /\ stored[d] \in Document /\ ui[d] \in Document
        /\ edits' \in 0..MaxEdits /\ used' \subseteq RecordId
        /\ consent' \in [RecordId -> SUBSET (Item \X Item)]
    BY <1>1, <1>2, Pieces, Constants DEF TypeOK
  <1> QED
    BY <1>1, <1>2, <1>3, <1>4, <1>5, <1>6, MetadataStep

-----------------------------------------------------------------------------
(* Local changes are queued *)

\* A sequence of different elements.
LEMMA OrderFacts ==
  ASSUME NEW S, IsFiniteSet(S), NEW o \in Orders(S)
  PROVE  /\ Cardinality(S) \in Nat /\ o \in [1..Cardinality(S) -> S]
         /\ \A i, j \in DOMAIN o : o[i] = o[j] => i = j
         /\ \A x \in S : \E i \in DOMAIN o : o[i] = x
  <1>1. Cardinality(S) \in Nat
    BY FS_CardinalityType
  <1>2. o \in [1..Cardinality(S) -> S] /\ \A i, j \in DOMAIN o : o[i] = o[j] => i = j
    BY DEF Orders
  <1> DEFINE I == 1..Cardinality(S)
  <1>3. IsFiniteSet(I) /\ Cardinality(I) = Cardinality(S)
    BY <1>1, FS_Interval
  <1> HIDE DEF I
  <1>4. o \in Injection(I, S)
    BY <1>2 DEF Injection, IsInjective, I
  <1>5. o \in Surjection(I, S)
    BY <1>3, <1>4, FS_Injection
  <1>6. \A x \in S : \E i \in I : o[i] = x
    BY <1>5 DEF Surjection
  <1>7. DOMAIN o = I
    BY <1>2 DEF I
  <1> QED
    BY <1>1, <1>2, <1>6, <1>7

LEMMA EnqueueKeeps == ASSUME CInv, NEW d \in Device, Enqueue(d) PROVE CInv'
  <1> DEFINE S == Changed(d)
             c == Cardinality(S)
             n == made[d] + c
             stage == IF S = {} THEN "second" ELSE "push"
             J == [job[d] EXCEPT !.stage = stage]
  <1>1. /\ TypeOK
        /\ NeverBack => DeviceInv(d, meta[d], job[d], made[d]) /\ AppliedWereMade
    BY DEF CInv
  <1>2. IsFiniteSet(S) /\ S \subseteq RecordId /\ c \in Nat
    <2>1. S \subseteq RecordId
      BY DEF Changed
    <2> QED
      BY <2>1, Constants, FS_Subset, FS_CardinalityType
  <1>3. PICK order \in Orders(S) :
          meta' = [meta EXCEPT ![d].outbox = [i \in DOMAIN order |->
            [id |-> <<d, made[d] + i>>, record |-> order[i], base |-> Base(d, order[i]),
             item |-> job[d].doc[order[i]]]]]
    BY DEF Enqueue
  <1> DEFINE Queued(i) == [id |-> <<d, made[d] + i>>, record |-> order[i],
                           base |-> Base(d, order[i]), item |-> job[d].doc[order[i]]]
             outbox == [i \in DOMAIN order |-> Queued(i)]
             M == [meta[d] EXCEPT !.outbox = outbox]
  <1>4. /\ job[d].stage = "enqueue" /\ n <= MaxMutations
        /\ meta' = [meta EXCEPT ![d] = M] /\ job' = [job EXCEPT ![d] = J]
        /\ made' = [made EXCEPT ![d] = n]
        /\ UNCHANGED <<server, backup, stored, ui, edits, used, consent, torn>>
    BY <1>3 DEF Enqueue, historyVars
  <1>5. /\ order \in [1..c -> S] /\ (S = {} <=> c = 0)
    BY <1>2, OrderFacts, FS_EmptySet
  <1>6. made[d] \in Nat /\ n \in made[d]..MaxMutations
    <2>1. made[d] \in Nat /\ n <= MaxMutations /\ MaxMutations \in Nat
      BY <1>1, <1>4, Pieces, Constants
    <2> HIDE DEF c
    <2> QED
      BY <1>2, <2>1
  <1>7. \A i \in 1..c : made[d] + i \in Nat /\ made[d] + i \in 1..n
    BY <1>2, <1>6
  <1>8. ASSUME NEW i \in 1..c PROVE Queued(i) \in Mutation
    <2>1. order[i] \in RecordId
      BY <1>2, <1>5
    <2>2. Base(d, order[i]) \in Nat /\ job[d].doc[order[i]] \in Item
      BY <1>1, <2>1, Elements DEF Base
    <2>3. <<d, made[d] + i>> \in MutationId
      BY <1>7 DEF MutationId
    <2> QED
      BY <2>1, <2>2, <2>3 DEF Mutation
  <1>9. /\ DOMAIN outbox = 1..c /\ outbox \in Seq(Mutation) /\ Len(outbox) = c
        /\ \A i \in 1..c : outbox[i].id = <<d, made[d] + i>>
    <2>1. outbox \in [1..c -> Mutation] /\ \A i \in 1..c : outbox[i] = Queued(i)
      BY <1>5, <1>8
    <2>2. \A i \in 1..c : Queued(i).id = <<d, made[d] + i>>
      OBVIOUS
    <2> HIDE DEF outbox, Queued, c
    <2>3. outbox \in Seq(Mutation) /\ DOMAIN outbox = 1..c
      BY <1>2, <2>1 DEF c
    <2>4. Len(outbox) = c
      BY <1>2, <2>1, <2>3, LenProperties DEF c
    <2> QED
      BY <2>1, <2>2, <2>3, <2>4
  <1> HIDE DEF outbox, Queued
  <1>10. M \in Metadata /\ M.outbox = outbox /\ M.cursor = meta[d].cursor
         /\ M.known = meta[d].known /\ M.conflicts = meta[d].conflicts
    <2>1. meta[d] \in Metadata
      BY <1>1 DEF TypeOK
    <2> QED
      BY <1>9, <2>1 DEF Metadata
  <1>11. stage \in Stage /\ stage \in {"push", "second"}
         /\ (stage = "second" => c = 0) /\ (stage = "push" => c # 0)
    BY <1>5 DEF Stage
  <1> HIDE DEF stage
  <1>12. J \in Job /\ J.stage = stage
    BY <1>1, <1>11, JobWith DEF TypeOK
  <1> HIDE DEF J, M
  <1>13. meta[d].conflicts = {}
    BY <1>4 DEF CInv, JobFits
  <1>14. JobFits(M, J.stage)
    <2>1. c = 0 <=> outbox = <<>>
      BY <1>9, EmptySeq
    <2> QED
      BY <1>10, <1>11, <1>12, <1>13, <2>1 DEF JobFits
  <1>15. NumbersOwn(d, M, n)
    <2>1. \A i \in 1..c : outbox[i].id[1] = d /\ outbox[i].id[2] = made[d] + i
      BY <1>9
    <2>2. \A i, j \in 1..c : made[d] + i = made[d] + j => i = j
      BY <1>2, <1>6
    <2> HIDE DEF n, c
    <2>3. \A i \in DOMAIN M.outbox : M.outbox[i].id[1] = d /\ M.outbox[i].id[2] \in 1..n
      BY <1>7, <1>9, <1>10, <2>1
    <2>4. \A i, j \in DOMAIN M.outbox : M.outbox[i].id = M.outbox[j].id => i = j
      BY <1>9, <1>10, <2>1, <2>2
    <2> QED
      BY <2>3, <2>4 DEF NumbersOwn
  <1>16. ASSUME NeverBack PROVE AppliedIsAhead(M, J.stage)
    <2>1. ASSUME NEW i \in 1..c PROVE outbox[i].id \notin server.applied
      <3>1. made[d] + i > made[d]
        BY <1>6
      <3> QED
        BY <1>1, <1>6, <1>9, <1>16, <3>1 DEF AppliedWereMade
    <2> QED
      BY <1>9, <1>10, <2>1 DEF AppliedIsAhead
  <1>17. ASSUME NeverBack
         PROVE  KnownIsTrue(M) /\ Complete(M) /\ ConflictsStay(M, J.stage, J.doc)
    BY <1>17, <1>1, <1>10, <1>13 DEF DeviceInv, KnownIsTrue, Complete, ConflictsStay
  <1>18. NeverBack => DeviceInv(d, M, J, n)
    BY <1>15, <1>16, <1>17 DEF DeviceInv
  <1>19. /\ stored[d] \in Document /\ ui[d] \in Document
         /\ edits' \in 0..MaxEdits /\ used' \subseteq RecordId
         /\ consent' \in [RecordId -> SUBSET (Item \X Item)]
    BY <1>1, <1>4, Pieces DEF TypeOK
  <1> HIDE DEF n
  <1> QED
    BY <1>4, <1>6, <1>10, <1>12, <1>14, <1>18, <1>19, MetadataStep

-----------------------------------------------------------------------------
(* A conflict is resolved *)

\* The mutations of the other records, each once.
LEMMA WithoutFacts ==
  ASSUME TypeOK, NEW d \in Device, NEW r, NEW rest \in Without(meta[d].outbox, r)
  PROVE  /\ rest \in Seq(Mutation)
         /\ \A i \in DOMAIN rest : \E k \in DOMAIN meta[d].outbox :
              rest[i] = meta[d].outbox[k]
         /\ \A k \in DOMAIN meta[d].outbox : meta[d].outbox[k].record # r =>
              \E i \in DOMAIN rest : rest[i] = meta[d].outbox[k]
         /\ (\A i, j \in DOMAIN meta[d].outbox :
               meta[d].outbox[i].id = meta[d].outbox[j].id => i = j)
            => \A i, j \in DOMAIN rest : rest[i].id = rest[j].id => i = j
  <1> DEFINE q == meta[d].outbox
             S == {i \in DOMAIN q : q[i].record # r}
  <1>1. q \in Seq(Mutation) /\ Len(q) \in Nat /\ DOMAIN q = 1..Len(q)
    BY Pieces, LenProperties
  <1>2. IsFiniteSet(S)
    <2>1. IsFiniteSet(1..Len(q))
      <3> HIDE DEF q
      <3> QED
        BY <1>1, FS_Interval
    <2> QED
      BY <1>1, <2>1, FS_Subset
  <1>3. PICK o \in Ascending(S) : rest = [i \in DOMAIN o |-> q[o[i]]]
    BY DEF Without
  <1>4. /\ Cardinality(S) \in Nat /\ o \in [1..Cardinality(S) -> S]
        /\ \A i, j \in DOMAIN o : o[i] = o[j] => i = j
        /\ \A x \in S : \E i \in DOMAIN o : o[i] = x
    <2>1. o \in Orders(S)
      BY <1>3 DEF Ascending
    <2> HIDE DEF S
    <2> QED
      BY <1>2, <2>1, OrderFacts
  <1> DEFINE n == Cardinality(S)
  <1>5. /\ DOMAIN o = 1..n /\ DOMAIN rest = 1..n
        /\ \A i \in 1..n : rest[i] = q[o[i]] /\ o[i] \in S /\ o[i] \in DOMAIN q
    BY <1>3, <1>4
  <1>6. \A i \in 1..n : q[o[i]] \in Mutation
    BY <1>1, <1>5, LenProperties
  <1>7. rest \in Seq(Mutation)
    <2>1. rest \in [1..n -> Mutation]
      BY <1>3, <1>5, <1>6
    <2> HIDE DEF n
    <2> QED
      BY <1>4, <2>1 DEF n
  <1>8. \A k \in DOMAIN q : q[k].record # r => \E i \in 1..n : rest[i] = q[k]
    <2> SUFFICES ASSUME NEW k \in DOMAIN q, q[k].record # r
                 PROVE  \E i \in 1..n : rest[i] = q[k]
      OBVIOUS
    <2>1. k \in S
      OBVIOUS
    <2>2. PICK i \in DOMAIN o : o[i] = k
      <3> HIDE DEF S
      <3> QED
        BY <1>4, <2>1
    <2>3. i \in 1..n /\ rest[i] = q[k]
      <3> HIDE DEF n, S, q
      <3> QED
        BY <1>5, <2>2
    <2> QED
      BY <2>3
  <1>9. ASSUME \A i, j \in DOMAIN q : q[i].id = q[j].id => i = j
        PROVE  \A i, j \in 1..n : rest[i].id = rest[j].id => i = j
    <2> HIDE DEF n, S, q
    <2> QED
      BY <1>4, <1>5, <1>9
  <1> QED
    BY <1>5, <1>7, <1>8, <1>9

\* The metadata after the newest version of a conflict is settled.
LEMMA SettledTyped ==
  ASSUME TypeOK, NEW d \in Device, NEW r, NEW c \in Selected(d, r),
         NEW outbox \in Seq(Mutation), NEW M, M = Settled(d, c, outbox)
  PROVE  /\ M \in Metadata /\ M.cursor = meta[d].cursor /\ M.outbox = outbox
         /\ M.conflicts = {b \in meta[d].conflicts : b.record # r}
         /\ M.known[r] = [revision |-> c.revision, local |-> c.item]
         /\ \A s \in RecordId \ {r} : M.known[s] = meta[d].known[s]
         /\ c \in meta[d].conflicts /\ c.record = r /\ r \in RecordId
         /\ c.revision \in Nat /\ c.item \in Item
  <1> DEFINE O == meta[d]
             known == [revision |-> c.revision, local |-> c.item]
             left == {b \in O.conflicts : b.record # c.record}
  <1>1. /\ c \in O.conflicts /\ c.record = r /\ c.record \in RecordId
        /\ c.revision \in Nat /\ c.item \in Item
    BY Elements DEF Selected
  <1>2. M = [O EXCEPT !.conflicts = left, !.outbox = outbox, !.known[c.record] = known]
    BY DEF Settled
  <1>3. known \in Known /\ left \subseteq Conflict /\ O \in Metadata
    BY <1>1, Pieces DEF Known, TypeOK
  <1>4. left = {b \in O.conflicts : b.record # r}
    BY <1>1
  <1> HIDE DEF known, left, O
  <1>5. /\ M \in Metadata /\ M.cursor = O.cursor /\ M.outbox = outbox /\ M.conflicts = left
        /\ M.known[r] = known /\ \A s \in RecordId \ {r} : M.known[s] = O.known[s]
    <2> DEFINE k == [O.known EXCEPT ![c.record] = known]
    <2>3. k \in [RecordId -> Known] /\ M = [O EXCEPT !.conflicts = left, !.outbox = outbox, !.known = k]
      BY <1>1, <1>2, <1>3 DEF Metadata
    <2> HIDE DEF k
    <2>1. M \in Metadata /\ M.outbox = outbox /\ M.conflicts = left /\ M.cursor = O.cursor
      BY <1>3, <2>3 DEF Metadata
    <2>2. M.known = [O.known EXCEPT ![r] = known]
      BY <1>1, <1>2, <1>3 DEF Metadata
    <2> QED
      BY <1>1, <1>3, <2>1, <2>2 DEF Metadata
  <1> QED
    BY <1>1, <1>4, <1>5 DEF O, known

\* The outbox then holds nothing the server has applied.
LEMMA SettledFits ==
  ASSUME CInv, NeverBack, NEW d \in Device, NEW r, NEW c \in Selected(d, r),
         NEW outbox \in Seq(Mutation),
         \A i \in DOMAIN outbox : outbox[i].id \notin server.applied,
         NEW n, \A i \in DOMAIN outbox : outbox[i].id[1] = d /\ outbox[i].id[2] \in 1..n,
         \A i, j \in DOMAIN outbox : outbox[i].id = outbox[j].id => i = j,
         NEW J, J.stage = "idle", NEW M, M = Settled(d, c, outbox)
  PROVE  DeviceInv(d, M, J, n)
  <1> DEFINE O == meta[d]
             known == [revision |-> c.revision, local |-> c.item]
             left == {b \in O.conflicts : b.record # r}
  <1>1. TypeOK /\ DeviceInv(d, O, job[d], made[d])
    BY DEF CInv
  <1>2. \A b \in O.conflicts : b.record = r => b.revision <= c.revision
    BY DEF Selected
  <1>3. /\ M.cursor = O.cursor /\ M.outbox = outbox /\ M.conflicts = left
        /\ M.known[r] = known /\ \A s \in RecordId \ {r} : M.known[s] = O.known[s]
        /\ c \in O.conflicts /\ c.record = r /\ r \in RecordId
        /\ c.revision \in Nat /\ c.item \in Item
    BY <1>1, SettledTyped
  <1>4. OfRow(r, c.revision, c.item) /\ OfRow(r, O.known[r].revision, O.known[r].local)
        /\ O.known[r].revision <= c.revision
    BY <1>1, <1>3 DEF DeviceInv, KnownIsTrue
  <1>5. KnownIsTrue(M)
    <2>1. ASSUME NEW s \in RecordId PROVE OfRow(s, M.known[s].revision, M.known[s].local)
      <3>1. CASE s = r
        <4>1. M.known[s].revision = c.revision /\ M.known[s].local = c.item
          BY <1>3, <3>1
        <4> QED
          BY <1>4, <3>1, <4>1
      <3>2. CASE s # r
        BY <1>1, <1>3, <3>2 DEF DeviceInv, KnownIsTrue
      <3> QED
        BY <3>1, <3>2
    <2>2. ASSUME NEW b \in M.conflicts
          PROVE  OfRow(b.record, b.revision, b.item) /\ M.known[b.record].revision <= b.revision
      <3>1. b \in O.conflicts /\ b.record \in RecordId \ {r}
        BY <1>1, <1>3, Elements
      <3> QED
        BY <1>1, <1>3, <3>1 DEF DeviceInv, KnownIsTrue
    <2> QED
      BY <2>1, <2>2 DEF KnownIsTrue
  <1>6. Complete(M)
    <2>1. M.cursor <= server.cursor
      BY <1>1, <1>3 DEF DeviceInv, Complete
    <2>2. ASSUME NEW s \in RecordId, server.rows[s].cursor \in 1..M.cursor
          PROVE  \/ M.known[s] = [revision |-> server.rows[s].revision,
                                  local |-> server.rows[s].item]
                 \/ \E b \in M.conflicts :
                      b = [record |-> s, revision |-> server.rows[s].revision,
                           item |-> server.rows[s].item]
      <3>1. \/ O.known[s] = [revision |-> server.rows[s].revision,
                             local |-> server.rows[s].item]
            \/ \E b \in O.conflicts :
                 b = [record |-> s, revision |-> server.rows[s].revision,
                      item |-> server.rows[s].item]
        BY <1>1, <1>3, <2>2 DEF DeviceInv, Complete
      <3>2. CASE s # r
        <4>1. \A b \in O.conflicts : b.record = s => b \in M.conflicts
          BY <1>3, <3>2
        <4> QED
          BY <1>3, <3>1, <3>2, <4>1
      <3>3. CASE s = r
        <4>1. O.known[r].revision = server.rows[r].revision
              \/ \E b \in O.conflicts : b.record = r /\ b.revision = server.rows[r].revision
          BY <3>1, <3>3
        <4>2. server.rows[r].revision <= c.revision
          <5>1. CASE O.known[r].revision = server.rows[r].revision
            BY <1>4, <5>1
          <5>2. CASE \E b \in O.conflicts :
                       b.record = r /\ b.revision = server.rows[r].revision
            BY <1>2, <5>2
          <5> QED
            BY <4>1, <5>1, <5>2
        <4>3. c.revision = server.rows[r].revision
          BY <1>1, <1>3, <1>4, <4>2, ServerTyped DEF OfRow
        <4>4. c.item = server.rows[r].item
          BY <1>4, <4>3 DEF OfRow
        <4> QED
          BY <1>3, <3>3, <4>3, <4>4
      <3> QED
        BY <3>2, <3>3
    <2> QED
      BY <2>1, <2>2 DEF Complete
  <1>7. NumbersOwn(d, M, n) /\ AppliedIsAhead(M, J.stage)
    BY <1>3 DEF NumbersOwn, AppliedIsAhead
  <1>8. ConflictsStay(M, J.stage, J.doc)
    BY IdleFits
  <1> QED
    BY <1>5, <1>6, <1>7, <1>8 DEF DeviceInv

\* What is queued of the other records.
LEMMA RestFacts ==
  ASSUME CInv, NeverBack, NEW d \in Device, NEW r, Selected(d, r) # {},
         NEW rest \in Without(meta[d].outbox, r)
  PROVE  /\ \A i \in DOMAIN rest : rest[i].id \notin server.applied
         /\ \A i \in DOMAIN rest : rest[i].id[1] = d /\ rest[i].id[2] \in 1..made[d]
         /\ \A i, j \in DOMAIN rest : rest[i].id = rest[j].id => i = j
  <1>1. TypeOK /\ DeviceInv(d, meta[d], job[d], made[d])
    BY DEF CInv
  <1>2. meta[d].conflicts # {}
    BY DEF Selected
  <1>3. \A k \in DOMAIN meta[d].outbox :
          /\ meta[d].outbox[k].id \notin server.applied
          /\ meta[d].outbox[k].id[1] = d /\ meta[d].outbox[k].id[2] \in 1..made[d]
    BY <1>1, <1>2 DEF DeviceInv, AppliedIsAhead, NumbersOwn
  <1>4. \A i, j \in DOMAIN meta[d].outbox :
          meta[d].outbox[i].id = meta[d].outbox[j].id => i = j
    BY <1>1 DEF DeviceInv, NumbersOwn
  <1>5. /\ \A i \in DOMAIN rest : \E k \in DOMAIN meta[d].outbox :
             rest[i] = meta[d].outbox[k]
        /\ \A i, j \in DOMAIN rest : rest[i].id = rest[j].id => i = j
    BY <1>1, <1>4, WithoutFacts
  <1> QED
    BY <1>3, <1>5

LEMMA KeepLocalKeeps ==
  ASSUME CInv, NEW d \in Device, NEW r \in RecordId, KeepLocal(d, r)
  PROVE  CInv'
  <1> DEFINE n == made[d] + 1
  <1>1. PICK c \in Selected(d, r), rest \in Without(meta[d].outbox, r) :
          /\ meta' = [meta EXCEPT ![d] = Settled(d, c, Append(rest,
               [id |-> <<d, n>>, record |-> r, base |-> c.revision, item |-> ui[d][r]]))]
          /\ consent' = Replaces(r, c.item, ui[d][r])
    BY DEF KeepLocal
  <1> DEFINE m == [id |-> <<d, n>>, record |-> r, base |-> c.revision, item |-> ui[d][r]]
             outbox == Append(rest, m)
             M == Settled(d, c, outbox)
  <1>2. /\ job[d].stage = "idle" /\ made[d] < MaxMutations
        /\ meta' = [meta EXCEPT ![d] = M] /\ made' = [made EXCEPT ![d] = n]
        /\ UNCHANGED <<server, backup, stored, ui, job, edits, used, torn>>
    BY <1>1 DEF KeepLocal, IsIdle
  <1>3. TypeOK /\ (NeverBack => AppliedWereMade)
    BY DEF CInv
  <1>4. made[d] \in Nat /\ n \in Nat /\ n \in made[d]..MaxMutations
    <2>1. made[d] \in Nat /\ made[d] < MaxMutations /\ MaxMutations \in Nat
      BY <1>2, <1>3, Pieces, Constants
    <2> QED
      BY <2>1
  <1>5. c.revision \in Nat /\ c.item \in Item /\ ui[d][r] \in Item
    BY <1>3, Elements DEF Selected
  <1>6. m \in Mutation /\ m.id = <<d, n>>
    <2>1. <<d, n>> \in MutationId
      BY <1>4 DEF MutationId
    <2> QED
      BY <1>5, <2>1 DEF Mutation
  <1> HIDE DEF m
  <1>7. NeverBack => m.id \notin server.applied
    BY <1>3, <1>4, <1>6 DEF AppliedWereMade
  <1>8. /\ rest \in Seq(Mutation)
        /\ NeverBack =>
             /\ \A i \in DOMAIN rest : rest[i].id \notin server.applied
             /\ \A i \in DOMAIN rest : rest[i].id[1] = d /\ rest[i].id[2] \in 1..made[d]
             /\ \A i, j \in DOMAIN rest : rest[i].id = rest[j].id => i = j
    BY <1>3, WithoutFacts, RestFacts
  <1>9. /\ outbox \in Seq(Mutation) /\ DOMAIN outbox = 1..(Len(rest) + 1)
        /\ DOMAIN rest = 1..Len(rest) /\ Len(rest) \in Nat
        /\ outbox[Len(rest) + 1] = m /\ \A i \in 1..Len(rest) : outbox[i] = rest[i]
    BY <1>6, <1>8, AppendProperties, LenProperties
  <1> HIDE DEF outbox
  <1>10. ASSUME NEW i \in DOMAIN outbox
         PROVE  \/ i = Len(rest) + 1 /\ outbox[i] = m
                \/ i \in DOMAIN rest /\ outbox[i] = rest[i]
    BY <1>9
  <1>11. ASSUME NeverBack
         PROVE  \A i \in DOMAIN outbox : outbox[i].id \notin server.applied
    BY <1>11, <1>7, <1>8, <1>10
  <1>12. ASSUME NeverBack
         PROVE  \A i \in DOMAIN outbox : outbox[i].id[1] = d /\ outbox[i].id[2] \in 1..n
    <2>1. \A k \in 1..made[d] : k \in 1..n /\ k # n
      BY <1>4
    <2>2. n \in 1..n
      BY <1>4
    <2> HIDE DEF n
    <2>3. m.id[1] = d /\ m.id[2] = n
      BY <1>6
    <2> QED
      BY <1>8, <1>10, <1>12, <2>1, <2>2, <2>3
  <1>13. ASSUME NeverBack
         PROVE  \A i, j \in DOMAIN outbox : outbox[i].id = outbox[j].id => i = j
    <2>1. \A i \in DOMAIN rest : rest[i].id # m.id
      <3>1. \A k \in 1..made[d] : k # n
        BY <1>4
      <3> HIDE DEF n
      <3> QED
        BY <1>6, <1>8, <1>13, <3>1
    <2> QED
      BY <1>8, <1>10, <1>13, <2>1
  <1>14. M \in Metadata /\ JobFits(M, job[d].stage)
         /\ (NeverBack => DeviceInv(d, M, job[d], n))
    <2> HIDE DEF n, M
    <2>1. M = Settled(d, c, outbox)
      BY DEF M
    <2>2. M \in Metadata
      BY <1>3, <1>9, <2>1, SettledTyped
    <2>3. JobFits(M, job[d].stage)
      BY <1>2, IdleFits
    <2> QED
      BY <1>2, <1>9, <1>11, <1>12, <1>13, <2>1, <2>2, <2>3, SettledFits
  <1>15. /\ job[d] \in Job /\ job' = [job EXCEPT ![d] = job[d]]
         /\ stored[d] \in Document /\ ui[d] \in Document
         /\ edits' \in 0..MaxEdits /\ used' \subseteq RecordId
         /\ consent' \in [RecordId -> SUBSET (Item \X Item)]
    BY <1>1, <1>2, <1>3, <1>5, Pieces, ConsentTyped DEF TypeOK
  <1> HIDE DEF n, M
  <1> QED
    BY <1>2, <1>4, <1>14, <1>15, MetadataStep

LEMMA SaveResolvedKeeps == ASSUME CInv, NEW d \in Device, SaveResolved(d) PROVE CInv'
  <1> DEFINE r == job[d].record
  <1>1. PICK c \in Selected(d, r), rest \in Without(meta[d].outbox, r) :
          meta' = [meta EXCEPT ![d] = Settled(d, c, rest)]
    BY DEF SaveResolved
  <1> DEFINE M == Settled(d, c, rest)
  <1>2. /\ meta' = [meta EXCEPT ![d] = M] /\ ui' = [ui EXCEPT ![d] = job[d].doc]
        /\ job' = [job EXCEPT ![d] = Idle]
        /\ UNCHANGED <<server, backup, stored, made, edits, used, consent, torn>>
    BY <1>1 DEF SaveResolved, historyVars
  <1>3. TypeOK
    BY DEF CInv
  <1>4. /\ rest \in Seq(Mutation)
        /\ NeverBack =>
             /\ \A i \in DOMAIN rest : rest[i].id \notin server.applied
             /\ \A i \in DOMAIN rest : rest[i].id[1] = d /\ rest[i].id[2] \in 1..made[d]
             /\ \A i, j \in DOMAIN rest : rest[i].id = rest[j].id => i = j
    <2>1. Selected(d, r) # {}
      OBVIOUS
    <2> HIDE DEF r
    <2>2. rest \in Seq(Mutation)
      BY <1>3, WithoutFacts
    <2> QED
      BY <2>1, <2>2, RestFacts
  <1>5. M \in Metadata /\ JobFits(M, Idle.stage) /\ (NeverBack => DeviceInv(d, M, Idle, made[d]))
    <2> HIDE DEF M, r
    <2>1. M = Settled(d, c, rest)
      BY DEF M
    <2>2. M \in Metadata
      BY <1>3, <1>4, <2>1, SettledTyped
    <2>3. JobFits(M, Idle.stage)
      BY Constants, IdleFits
    <2> QED
      BY <1>4, <2>1, <2>2, <2>3, Constants, SettledFits
  <1>6. /\ made[d] \in made[d]..MaxMutations /\ made' = [made EXCEPT ![d] = made[d]]
        /\ stored[d] \in Document /\ job[d].doc \in Document
        /\ edits' \in 0..MaxEdits /\ used' \subseteq RecordId
        /\ consent' \in [RecordId -> SUBSET (Item \X Item)]
    BY <1>2, <1>3, Pieces, Constants DEF TypeOK
  <1> HIDE DEF M
  <1> QED
    BY <1>2, <1>5, <1>6, Constants, MetadataStep

-----------------------------------------------------------------------------
(* Invariance *)

LEMMA StepKeeps == ASSUME CInv, NEW d \in Device, DeviceStep(d) PROVE CInv'
  <1>1. CASE User(d)
    BY <1>1, UserKeeps
  <1>2. CASE Restart(d) \/ StartSync(d)
    BY <1>2, RestartKeeps, StartSyncKeeps
  <1>3. CASE Sync(d)
    BY <1>3, DrainOneKeeps, DrainConflictKeeps, PullPageKeeps, ResetCursorKeeps, SealPulledKeeps,
       EnqueueKeeps DEF Sync
  <1>4. CASE Resolve(d)
    BY <1>4, KeepLocalKeeps, SaveResolvedKeeps, ResolvesKeep DEF Resolve
  <1>5. CASE Fault(d)
    BY <1>5, SyncFailsKeeps, AnswerLostKeeps, ResolvesKeep DEF Fault
  <1> QED
    BY <1>1, <1>2, <1>3, <1>4, <1>5 DEF DeviceStep

LEMMA Initially == Init => CInv
  <1> SUFFICES ASSUME Init PROVE CInv
    OBVIOUS
  <1> DEFINE row == [revision |-> 0, cursor |-> 0, item |-> None]
             state == [revision |-> 0, local |-> None]
             known == [r \in RecordId |-> state]
             M == [cursor |-> 0, outbox |-> <<>>, conflicts |-> {}, known |-> known]
  <1>1. /\ server = [cursor |-> 0, applied |-> {}, rows |-> [r \in RecordId |-> row]]
        /\ backup = server /\ \A d \in Device : meta[d] = M /\ job[d] = Idle /\ made[d] = 0
        /\ meta = [d \in Device |-> M] /\ job = [d \in Device |-> Idle]
    BY DEF Init, NewServer
  <1>2. row \in [revision : Nat, cursor : Nat, item : Item] /\ known \in [RecordId -> Known]
    BY Constants DEF Known
  <1>3. M \in Metadata
    BY <1>2 DEF Metadata
  <1>4. server \in Server /\ server.cursor = 0 /\ server.applied = {}
        /\ \A r \in RecordId : server.rows[r] = row
    BY <1>1, <1>2 DEF Server
  <1> HIDE DEF M
  <1>5. TypeOK
    <2>1. /\ stored \in [Device -> Document] /\ ui \in [Device -> Document]
          /\ consent \in [RecordId -> SUBSET (Item \X Item)] /\ torn \in SUBSET Device
          /\ used \in SUBSET RecordId
      BY Constants DEF Init
    <2>2. made \in [Device -> 0..MaxMutations] /\ edits \in 0..MaxEdits
      BY Constants DEF Init
    <2> QED
      BY <1>1, <1>3, <1>4, <2>1, <2>2, Constants DEF TypeOK
  <1>6. Ordered(server) /\ Ordered(backup) /\ AppliedWereMade /\ UnwrittenAreNone
    BY <1>1, <1>4 DEF Ordered, AppliedWereMade, UnwrittenAreNone, OfRow
  <1>7. ASSUME NEW e \in Device PROVE JobFits(meta[e], job[e].stage) /\ DeviceInv(e, meta[e], job[e], made[e])
    <2>1. /\ M.cursor = 0 /\ M.outbox = <<>> /\ M.conflicts = {}
          /\ \A r \in RecordId : M.known[r].revision = 0 /\ M.known[r].local = None
      BY DEF M
    <2>2. meta[e] = M /\ job[e].stage = "idle" /\ made[e] = 0
      BY <1>1, Constants
    <2>3. DOMAIN M.outbox = {}
      BY <2>1
    <2>4. JobFits(M, "idle") /\ NumbersOwn(e, M, 0) /\ AppliedIsAhead(M, "idle")
      BY <2>3 DEF JobFits, NumbersOwn, AppliedIsAhead
    <2>5. KnownIsTrue(M) /\ Complete(M)
      BY <1>4, <2>1 DEF KnownIsTrue, Complete, OfRow
    <2> QED
      BY <2>2, <2>4, <2>5, IdleFits DEF DeviceInv
  <1> QED
    BY <1>5, <1>6, <1>7 DEF CInv

LEMMA Stutters == ASSUME CInv, UNCHANGED vars PROVE CInv'
  <1>1. UNCHANGED <<server, backup, stored, meta, ui, job, made, edits, used, consent, torn>>
    BY DEF vars, deviceVars, historyVars
  <1>2. TypeOK'
    BY <1>1 DEF CInv, TypeOK
  <1>3. /\ Ordered(server') /\ Ordered(backup')
        /\ \A e \in Device : JobFits(meta'[e], job'[e].stage)
    BY <1>1 DEF CInv
  <1>4. NeverBack => AppliedWereMade' /\ UnwrittenAreNone'
    BY <1>1 DEF CInv, AppliedWereMade, UnwrittenAreNone, OfRow
  <1>5. NeverBack => \A e \in Device : DeviceInv(e, meta[e], job[e], made[e])'
    BY <1>1, DeviceKept DEF CInv
  <1> QED
    BY <1>1, <1>2, <1>3, <1>4, <1>5 DEF CInv, NeverBack

LEMMA OperatorKeeps == ASSUME CInv, Backup \/ Restore PROVE CInv'
  <1>1. UNCHANGED <<deviceVars, historyVars, torn>>
    BY DEF Backup, Restore
  <1>2. /\ server' \in Server /\ backup' \in Server /\ Ordered(server') /\ Ordered(backup')
        /\ backup' # NewServer
    BY DEF Backup, Restore, CInv, TypeOK
  <1>3. TypeOK' /\ \A e \in Device : JobFits(meta'[e], job'[e].stage)
    BY <1>1, <1>2 DEF CInv, TypeOK, deviceVars, historyVars
  <1> QED
    BY <1>2, <1>3 DEF CInv, NeverBack

\* Devices do not touch what the operator saved.
LEMMA BackupStays == ASSUME NEW d \in Device, DeviceStep(d) PROVE backup' = backup
  <1>1. CASE User(d) \/ Restart(d) \/ StartSync(d)
    BY <1>1 DEF User, AddItem, UpdateItem, RemoveItem, Persist, Restart, StartSync
  <1>2. CASE Sync(d)
    BY <1>2 DEF Sync, DrainOne, DrainConflict, PullPage, ResetCursor, SealPulled, Enqueue
  <1>3. CASE Resolve(d)
    BY <1>3 DEF Resolve, KeepLocal, UseRemote, SaveResolved
  <1>4. CASE Fault(d)
    BY <1>4 DEF Fault, SyncFails, AnswerLost, ResolveFails
  <1> QED
    BY <1>1, <1>2, <1>3, <1>4 DEF DeviceStep

LEMMA Invariance == Spec => []CInv
  <1>1. CInv /\ [Next]_vars => CInv'
    <2>1. Next => Backup \/ Restore \/ \E d \in Device : DeviceStep(d)
      BY DEF Next, DeviceStep
    <2> QED
      BY <2>1, StepKeeps, OperatorKeeps, Stutters
  <1> QED
    BY <1>1, Initially, PTL DEF Spec

-----------------------------------------------------------------------------
(* The theorems *)

\* Server, metadata, documents and jobs have their types, also after a restore.
THEOREM StateTyped == Spec => []TypeOK
  <1>1. CInv => TypeOK
    BY DEF CInv
  <1> QED
    BY <1>1, Invariance, PTL

\* "pullRemote" and "resolveSyncConflict" never leave a gap behind the cursor of
\* the metadata they save, in whatever order devices push and pull, whatever fails
\* and wherever a page is closed, on a server that keeps its state.
THEOREM MetadataIsComplete == ASSUME "restore" \notin Faults PROVE Spec => []MetadataComplete
  <1>1. Init => NeverBack
    BY DEF Init, NeverBack
  <1>2. NeverBack /\ [Next]_vars => NeverBack'
    <2> SUFFICES ASSUME NeverBack, [Next]_vars PROVE backup' = backup
      BY DEF NeverBack
    <2>1. ~Backup /\ ~Restore
      BY DEF Backup, Restore, Broken
    <2> QED
      BY <2>1, BackupStays DEF Next, DeviceStep, vars
  <1>3. CInv /\ NeverBack => MetadataComplete
    BY DEF CInv, DeviceInv, Complete, MetadataComplete
  <1> QED
    BY <1>1, <1>2, <1>3, Invariance, PTL DEF Spec

\* A mutation m of device e is still queued, applied, or settled by its user.
Remains(e, m) ==
  \/ \E j \in DOMAIN meta'[e].outbox : meta'[e].outbox[j] = m
  \/ m.id \in server'.applied
  \/ /\ \E c \in meta[e].conflicts : c.record = m.record
     /\ ~\E c \in meta'[e].conflicts : c.record = m.record

LEMMA OutboxStays ==
  ASSUME NEW e \in Device, meta'[e].outbox = meta[e].outbox, NEW i \in DOMAIN meta[e].outbox
  PROVE  Remains(e, meta[e].outbox[i])
  BY DEF Remains

LEMMA DrainedRemains ==
  ASSUME CInv, NEW d \in Device, DrainOne(d), NEW i \in DOMAIN meta[d].outbox
  PROVE  Remains(d, meta[d].outbox[i])
  <1> DEFINE q == meta[d].outbox
  <1>1. /\ Draining(d) /\ TypeOK /\ q \in Seq(Mutation)
    BY Pieces DEF DrainOne, CInv
  <1>2. /\ q # <<>> /\ Pending(d) = q[1] /\ Pending(d).id \in MutationId
        /\ Pending(d).record \in RecordId /\ Pending(d).base \in Nat /\ Pending(d).item \in Item
    BY <1>1, DrainingFacts, PendingFacts
  <1>3. PICK m, rest, known : /\ m = Pending(d) /\ rest = Tail(q)
                              /\ known = [revision |-> m.base + 1, local |-> m.item]
    OBVIOUS
  <1>4. /\ AlreadyApplied(m) \/ Appliable(m)
        /\ ServerApplies(m)
        /\ meta' = [meta EXCEPT ![d].known[m.record] = known, ![d].outbox = rest]
    BY <1>3 DEF DrainOne
  <1>5. server'.applied = server.applied \cup {m.id}
    BY <1>2, <1>3, <1>4, Taking
  <1>6. CASE i = 1
    BY <1>2, <1>3, <1>5, <1>6 DEF Remains
  <1>7. CASE i # 1
    <2>1. meta'[d].outbox = rest
      <3>1. meta \in [Device -> Metadata]
        BY <1>1 DEF TypeOK
      <3> QED
        BY <1>4, <3>1 DEF Metadata
    <2> HIDE DEF q
    <2>2. i \in 1..Len(q) /\ Len(q) \in Nat
      BY <1>1, LenProperties DEF q
    <2>3. i - 1 \in 1..(Len(q) - 1) /\ (i - 1) + 1 = i
      BY <1>7, <2>2
    <2>4. i - 1 \in DOMAIN rest /\ rest[i - 1] = q[i]
      <3>1. /\ rest \in Seq(Mutation) /\ Len(rest) = Len(q) - 1
            /\ \A k \in 1..Len(rest) : rest[k] = q[k + 1]
        BY <1>1, <1>2, <1>3, HeadTailProperties
      <3>2. DOMAIN rest = 1..(Len(q) - 1)
        BY <3>1, LenProperties
      <3> QED
        BY <2>3, <3>1, <3>2
    <2> QED
      BY <2>1, <2>4 DEF Remains, q
  <1> QED
    BY <1>6, <1>7

LEMMA SettledRemains ==
  ASSUME TypeOK, NEW d \in Device, NEW r, NEW c \in Selected(d, r),
         NEW rest \in Without(meta[d].outbox, r), NEW outbox \in Seq(Mutation),
         \A k \in DOMAIN rest : \E j \in DOMAIN outbox : outbox[j] = rest[k],
         meta' = [meta EXCEPT ![d] = Settled(d, c, outbox)],
         NEW i \in DOMAIN meta[d].outbox
  PROVE  Remains(d, meta[d].outbox[i])
  <1>1. PICK M : M = Settled(d, c, outbox)
    OBVIOUS
  <1>2. M.outbox = outbox /\ M.conflicts = {b \in meta[d].conflicts : b.record # r}
        /\ c \in meta[d].conflicts /\ c.record = r
    <2>1. /\ M \in Metadata /\ M.cursor = meta[d].cursor /\ M.outbox = outbox
          /\ M.conflicts = {b \in meta[d].conflicts : b.record # r}
          /\ M.known[r] = [revision |-> c.revision, local |-> c.item]
          /\ \A s \in RecordId \ {r} : M.known[s] = meta[d].known[s]
          /\ c \in meta[d].conflicts /\ c.record = r /\ r \in RecordId
          /\ c.revision \in Nat /\ c.item \in Item
      BY <1>1, SettledTyped
    <2> QED
      BY <2>1
  <1>3. meta'[d] = M
    <2>1. meta \in [Device -> Metadata] /\ meta' = [meta EXCEPT ![d] = M]
      BY <1>1 DEF TypeOK
    <2> QED
      BY <2>1
  <1>4. CASE meta[d].outbox[i].record = r
    BY <1>2, <1>3, <1>4 DEF Remains
  <1>5. CASE meta[d].outbox[i].record # r
    <2>1. /\ rest \in Seq(Mutation)
          /\ \A k \in DOMAIN rest : \E j \in DOMAIN meta[d].outbox :
               rest[k] = meta[d].outbox[j]
          /\ \A k \in DOMAIN meta[d].outbox : meta[d].outbox[k].record # r =>
               \E j \in DOMAIN rest : rest[j] = meta[d].outbox[k]
          /\ (\A k, j \in DOMAIN meta[d].outbox :
                meta[d].outbox[k].id = meta[d].outbox[j].id => k = j)
             => \A k, j \in DOMAIN rest : rest[k].id = rest[j].id => k = j
      BY WithoutFacts
    <2>2. \E k \in DOMAIN rest : rest[k] = meta[d].outbox[i]
      BY <1>5, <2>1
    <2> QED
      BY <1>2, <1>3, <2>2 DEF Remains
  <1> QED
    BY <1>4, <1>5

LEMMA ResolvedRemains ==
  ASSUME CInv, NEW d \in Device, SaveResolved(d) \/ \E r \in RecordId : KeepLocal(d, r),
         NEW i \in DOMAIN meta[d].outbox
  PROVE  Remains(d, meta[d].outbox[i])
  <1>1. TypeOK
    BY DEF CInv
  <1>2. CASE SaveResolved(d)
    <2>1. PICK r : r = job[d].record
      OBVIOUS
    <2>2. PICK c \in Selected(d, r), rest \in Without(meta[d].outbox, r) :
            meta' = [meta EXCEPT ![d] = Settled(d, c, rest)]
      BY <1>2, <2>1 DEF SaveResolved
    <2>3. rest \in Seq(Mutation)
      BY <1>1, WithoutFacts
    <2> QED
      BY <1>1, <2>2, <2>3, SettledRemains
  <1>3. ASSUME NEW r \in RecordId, KeepLocal(d, r) PROVE Remains(d, meta[d].outbox[i])
    <2>1. PICK c \in Selected(d, r), rest \in Without(meta[d].outbox, r) :
            meta' = [meta EXCEPT ![d] = Settled(d, c, Append(rest,
              [id |-> <<d, made[d] + 1>>, record |-> r, base |-> c.revision,
               item |-> ui[d][r]]))]
      BY <1>3 DEF KeepLocal
    <2>2. PICK m, outbox :
            /\ m = [id |-> <<d, made[d] + 1>>, record |-> r, base |-> c.revision,
                    item |-> ui[d][r]]
            /\ outbox = Append(rest, m)
      OBVIOUS
    <2>3. m \in Mutation
      <3>1. c.revision \in Nat /\ ui[d][r] \in Item
        BY <1>1, Elements DEF Selected
      <3>2. made[d] \in Nat
        BY <1>1, Pieces
      <3>3. <<d, made[d] + 1>> \in MutationId
        BY <3>2 DEF MutationId
      <3> QED
        BY <2>2, <3>1, <3>3 DEF Mutation
    <2>4. rest \in Seq(Mutation)
      BY <1>1, WithoutFacts
    <2>5. /\ outbox \in Seq(Mutation)
          /\ \A k \in DOMAIN rest : k \in DOMAIN outbox /\ outbox[k] = rest[k]
      <3>1. /\ Len(outbox) = Len(rest) + 1 /\ outbox \in Seq(Mutation)
            /\ \A k \in 1..Len(rest) : outbox[k] = rest[k]
        BY <2>2, <2>3, <2>4, AppendProperties
      <3>2. DOMAIN rest = 1..Len(rest) /\ Len(rest) \in Nat /\ DOMAIN outbox = 1..Len(outbox)
        BY <2>4, <3>1, LenProperties
      <3> QED
        BY <3>1, <3>2
    <2>6. meta' = [meta EXCEPT ![d] = Settled(d, c, outbox)]
      BY <2>1, <2>2
    <2>7. \A k \in DOMAIN rest : \E j \in DOMAIN outbox : outbox[j] = rest[k]
      BY <2>5
    <2>8. outbox \in Seq(Mutation)
      BY <2>5
    <2> QED
      BY <1>1, <2>6, <2>7, <2>8, SettledRemains, Zenon
  <1> QED
    BY <1>2, <1>3

\* No mutation leaves an outbox before the server has it, unless the user settled
\* a conflict about its record: not by a lost answer, a retry, a failed save, a
\* closed page or a restored server.
THEOREM QueuedAreKept == Spec => PendingKept
  <1>1. ASSUME CInv, [Next]_vars, NEW e \in Device, NEW i \in DOMAIN meta[e].outbox
        PROVE  Remains(e, meta[e].outbox[i])
    <2>1. CASE meta'[e].outbox = meta[e].outbox
      BY <2>1, OutboxStays
    <2>2. TypeOK /\ meta \in [Device -> Metadata]
      BY <1>1 DEF CInv, TypeOK
    <2>3. ASSUME NEW d \in Device, NEW M, meta' = [meta EXCEPT ![d] = M],
                 M.outbox = meta[d].outbox
          PROVE  meta'[e].outbox = meta[e].outbox
      BY <2>2, <2>3
    <2>4. CASE meta' = meta
      BY <2>1, <2>4
    <2>5. ASSUME NEW d \in Device, DeviceStep(d) PROVE Remains(e, meta[e].outbox[i])
      <3>1. CASE User(d) \/ Restart(d) \/ StartSync(d) \/ Fault(d)
        BY <2>4, <3>1
           DEF User, AddItem, UpdateItem, RemoveItem, Persist, Restart, StartSync, Fault,
               SyncFails, AnswerLost, ResolveFails
      <3>2. CASE DrainConflict(d) \/ SealPulled(d) \/ \E r \in RecordId : UseRemote(d, r)
        BY <2>4, <3>2 DEF DrainConflict, SealPulled, UseRemote
      <3>3. CASE e # d /\ meta'[e] = meta[e]
        BY <2>1, <3>3
      <3>4. CASE DrainOne(d)
        <4>1. e # d => meta'[e] = meta[e]
          BY <2>2, <3>4 DEF DrainOne
        <4> QED
          BY <1>1, <3>3, <3>4, <4>1, DrainedRemains
      <3>5. CASE PullPage(d)
        <4>1. \E cursor, conflicts, known :
                meta' = [meta EXCEPT ![d].cursor = cursor, ![d].conflicts = conflicts,
                                     ![d].known = known]
          BY <3>5 DEF PullPage
        <4>2. meta'[e].outbox = meta[e].outbox
          BY <2>2, <4>1 DEF Metadata
        <4> QED
          BY <2>1, <4>2
      <3>6. CASE ResetCursor(d)
        <4>1. meta'[e].outbox = meta[e].outbox
          BY <2>2, <3>6 DEF ResetCursor, Metadata
        <4> QED
          BY <2>1, <4>1
      <3>7. CASE Enqueue(d)
        <4>1. meta[d].outbox = <<>>
          BY <1>1, <3>7 DEF Enqueue, CInv, JobFits
        <4>2. e # d
          BY <1>1, <4>1
        <4>3. meta'[e] = meta[e]
          BY <2>2, <3>7, <4>2 DEF Enqueue
        <4> QED
          BY <3>3, <4>2, <4>3
      <3>8. CASE SaveResolved(d) \/ \E r \in RecordId : KeepLocal(d, r)
        <4>1. e # d => meta'[e] = meta[e]
          BY <2>2, <3>8 DEF SaveResolved, KeepLocal
        <4> QED
          BY <1>1, <3>3, <3>8, <4>1, ResolvedRemains
      <3> QED
        BY <2>5, <3>1, <3>2, <3>4, <3>5, <3>6, <3>7, <3>8 DEF DeviceStep, Sync, Resolve
    <2>6. CASE Backup \/ Restore \/ UNCHANGED vars
      BY <2>4, <2>6 DEF Backup, Restore, vars, deviceVars
    <2> QED
      BY <1>1, <2>5, <2>6 DEF Next, DeviceStep
  <1>2. ASSUME CInv, [Next]_vars
        PROVE  [\A d \in Device : \A i \in DOMAIN meta[d].outbox :
                  LET m == meta[d].outbox[i] IN
                    \/ \E j \in DOMAIN meta'[d].outbox : meta'[d].outbox[j] = m
                    \/ m.id \in server'.applied
                    \/ /\ \E c \in meta[d].conflicts : c.record = m.record
                       /\ ~\E c \in meta'[d].conflicts : c.record = m.record]_vars
    BY <1>1, <1>2 DEF Remains
  <1> QED
    BY <1>2, Invariance, PTL DEF Spec, PendingKept
=============================================================================
