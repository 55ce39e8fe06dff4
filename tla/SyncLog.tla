------------------------------- MODULE SyncLog -------------------------------
(***************************************************************************)
(* What the sync server promises about one vault, without tables, locks or *)
(* transactions: an append-only log of mutations in which every mutation   *)
(* id occurs once and every mutation names the revision it replaces, and   *)
(* readers that move forward through it and never skip the newest version  *)
(* of a record.  SyncStore implements this specification.                  *)
(***************************************************************************)
EXTENDS Integers, Sequences, FiniteSets

CONSTANTS
  RecordId,  \* records of the vault
  Reader,    \* devices that pull
  Batches    \* the batches a device may push: sequences of mutation requests

VARIABLES
  log,       \* the applied mutations in cursor order
  seen       \* per reader: its cursor and, per record, the log position held

vars == <<log, seen>>

\* The positions at which a log writes a record; the last one is the version
\* a pull returns (0 when there is none).
Writes(s, r) == {i \in DOMAIN s : s[i].recordId = r}

Latest(s, r) ==
  IF Writes(s, r) = {} THEN 0
  ELSE CHOOSE i \in Writes(s, r) : \A j \in Writes(s, r) : j <= i

\* A log a single-copy store could have produced: no mutation id twice, and
\* each mutation based on the revision its record had just before it.
Legal(s) ==
  \A i \in DOMAIN s :
    /\ \A j \in 1..(i - 1) : s[j].mutationId # s[i].mutationId
    /\ s[i].baseRevision =
         Cardinality({j \in 1..(i - 1) : s[j].recordId = s[i].recordId})

Members(s) == {s[i] : i \in DOMAIN s}

Init ==
  /\ log = <<>>
  /\ seen = [k \in Reader |->
               [cursor |-> 0, held |-> [r \in RecordId |-> 0]]]

\* A push takes effect at once and as a whole: the log grows by mutations of
\* one batch, and afterwards holds every mutation of that batch.
Apply(batch) ==
  /\ Len(log') > Len(log)
  /\ SubSeq(log', 1, Len(log)) = log
  /\ Legal(log')
  /\ {log'[i] : i \in (Len(log) + 1)..Len(log')} \subseteq Members(batch)
  /\ Members(batch) \subseteq Members(log')
  /\ UNCHANGED seen

\* A page moves the reader to some later position n of the log and leaves it
\* with the newest version of every record last written at or before n.
Read(k) ==
  /\ \E n \in seen[k].cursor..Len(log) :
       seen' = [seen EXCEPT ![k] =
                  [cursor |-> n,
                   held |-> [r \in RecordId |->
                               IF Latest(log, r) \in 1..n THEN Latest(log, r)
                               ELSE seen[k].held[r]]]]
  /\ UNCHANGED log

Next ==
  \/ \E batch \in Batches : Apply(batch)
  \/ \E k \in Reader : Read(k)

Spec == Init /\ [][Next]_vars
=============================================================================
