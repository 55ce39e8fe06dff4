----------------------------- MODULE JournalStore -----------------------------
(***************************************************************************)
(* The encrypted journal of the mobile app: a directory with one file per  *)
(* snapshot of the vault, numbered upwards and never replaced.             *)
(*                                                                         *)
(* A write puts the envelope into a file "N.pending" and moves it to "N"   *)
(* without overwriting; the journal loads the file with the highest        *)
(* number.  Writes wait for each other in a queue.  The process may be     *)
(* killed at any time: a move that was under way then has happened or not, *)
(* and pending files stay behind.                                          *)
(*                                                                         *)
(* Envelopes are opaque here except for the vault they belong to.          *)
(***************************************************************************)
EXTENDS Integers, Sequences, FiniteSets

CONSTANTS
  Envelope,      \* records with a field "vault"
  MaxEntries,    \* files in the directory, published or pending, for a write
  MaxSequence    \* the last number of a snapshot

ASSUME JournalAssumption ==
  /\ MaxEntries \in Nat
  /\ MaxSequence \in Nat

VARIABLES
  files,         \* the published snapshots, by number
  pending,       \* the numbers with a pending file
  sequence,      \* the last number taken by this process
  published,     \* publishedSequence
  vaultId,       \* the vault of the journal, NoId before the first snapshot
  initialized,
  queue,         \* envelopes whose write has not begun
  moving         \* the write whose move is under way, as a sequence of at most one

directory == <<files, pending>>
process == <<sequence, published, vaultId, initialized, queue, moving>>
journal == <<directory, process>>

NoId == 0

\* The highest number of a snapshot, 0 when there is none.
LatestOf(f) ==
  IF DOMAIN f = {} THEN 0
  ELSE CHOOSE n \in DOMAIN f : \A m \in DOMAIN f : m <= n

Latest == LatestOf(files)

Move == [number : 1..MaxSequence, envelope : Envelope]

JournalTypeOK ==
  /\ DOMAIN files \subseteq 1..MaxSequence
  /\ \A n \in DOMAIN files : files[n] \in Envelope
  /\ pending \subseteq 1..MaxSequence
  /\ sequence \in 0..MaxSequence /\ published \in 0..MaxSequence
  /\ vaultId \in {NoId} \cup {e.vault : e \in Envelope}
  /\ initialized \in BOOLEAN
  /\ queue \in Seq(Envelope)
  /\ moving \in Seq(Move) /\ Len(moving) <= 1

\* A new process has read nothing.
NewProcess ==
  /\ sequence' = 0 /\ published' = 0 /\ vaultId' = NoId /\ initialized' = FALSE
  /\ queue' = <<>> /\ moving' = <<>>

JournalInit ==
  /\ files = <<>> /\ pending = {}
  /\ sequence = 0 /\ published = 0 /\ vaultId = NoId /\ initialized = FALSE
  /\ queue = <<>> /\ moving = <<>>

-----------------------------------------------------------------------------
(* load *)

Quiet == queue = <<>> /\ moving = <<>>

Load ==
  /\ Quiet
  /\ sequence' = Latest /\ published' = Latest
  /\ vaultId' = IF Latest = 0 THEN NoId ELSE files[Latest].vault
  /\ initialized' = TRUE
  /\ UNCHANGED <<directory, queue, moving>>

\* The latest snapshot is unreadable, oversized or corrupt: no older one is
\* tried.
LoadFails ==
  /\ Quiet
  /\ sequence' = Latest /\ published' = Latest
  /\ UNCHANGED <<directory, vaultId, initialized, queue, moving>>

-----------------------------------------------------------------------------
(* write *)

Enqueue(e) ==
  /\ queue' = Append(queue, e)
  /\ UNCHANGED <<directory, sequence, published, vaultId, initialized, moving>>

\* Variant: what others published since the journal was loaded is not looked at.
MayTakeOver(e) ==
  /\ initialized
  /\ Cardinality(DOMAIN files) + Cardinality(pending) < MaxEntries
  /\ vaultId \in {NoId, e.vault}
  /\ sequence < MaxSequence

\* Variant: the sequence is not bounded.
MayExhaust(e) ==
  /\ initialized
  /\ Cardinality(DOMAIN files) + Cardinality(pending) < MaxEntries
  /\ Latest = published
  /\ vaultId \in {NoId, e.vault}

\* What write asks for before it takes a number: the journal was loaded, has
\* room, nobody else published to it, and the vault is the one it holds.
MayWrite(e) ==
  /\ initialized
  /\ Cardinality(DOMAIN files) + Cardinality(pending) < MaxEntries
  /\ Latest = published
  /\ vaultId \in {NoId, e.vault}
  /\ sequence < MaxSequence

\* The pending file is created, and its move begins.
WriteBegins ==
  /\ queue # <<>> /\ moving = <<>>
  /\ MayWrite(Head(queue))
  /\ sequence + 1 \notin pending
  /\ sequence' = sequence + 1
  /\ pending' = pending \cup {sequence + 1}
  /\ moving' = <<[number |-> sequence + 1, envelope |-> Head(queue)]>>
  /\ queue' = Tail(queue)
  /\ UNCHANGED <<files, published, vaultId, initialized>>

\* The write is refused, or its pending file cannot be created or filled: then
\* its number is used up.
WriteRefused ==
  /\ queue # <<>> /\ moving = <<>>
  /\ \/ ~MayWrite(Head(queue)) /\ UNCHANGED <<sequence, pending>>
     \/ /\ MayWrite(Head(queue))
        /\ sequence' = sequence + 1
        /\ pending' \in {pending, pending \cup {sequence + 1}}
  /\ queue' = Tail(queue)
  /\ UNCHANGED <<files, published, vaultId, initialized, moving>>

\* The pending file of m becomes the snapshot of its number.
Moved(m) ==
  /\ m.number \notin DOMAIN files
  /\ files' = [n \in DOMAIN files \cup {m.number} |->
                IF n = m.number THEN m.envelope ELSE files[n]]
  /\ pending' = pending \ {m.number}

Publish ==
  /\ moving # <<>>
  /\ Moved(moving[1])
  /\ published' = moving[1].number
  /\ vaultId' = moving[1].envelope.vault
  /\ moving' = <<>>
  /\ UNCHANGED <<sequence, initialized, queue>>

\* The number was published by somebody else, or the move fails.
PublishFails ==
  /\ moving # <<>>
  /\ moving' = <<>>
  /\ UNCHANGED <<directory, sequence, published, vaultId, initialized, queue>>

\* The end of a write that did not publish.
WriteFails == WriteRefused \/ PublishFails

-----------------------------------------------------------------------------
(* The world around the process *)

Crash ==
  /\ NewProcess
  /\ \/ UNCHANGED directory
     \/ moving # <<>> /\ Moved(moving[1])

\* Somebody else publishes the next snapshot.
External(e) ==
  /\ Latest < MaxSequence
  /\ files' = [n \in DOMAIN files \cup {Latest + 1} |->
                IF n = Latest + 1 THEN e ELSE files[n]]
  /\ UNCHANGED <<pending, process>>
=============================================================================
