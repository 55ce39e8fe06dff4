---------------------------- MODULE VaultClipboard ----------------------------
(***************************************************************************)
(* What an open vault page copies to the clipboard, on top of              *)
(* VaultSession: a copy belongs to the session it was asked in, is erased  *)
(* after 30 seconds or by the next lock, and is erased again when it comes *)
(* too late.  Every access to the clipboard takes time and may be denied;  *)
(* they end in any order.  Copies are numbered and hold different values;  *)
(* what other programs put on the clipboard is left out.                   *)
(***************************************************************************)
EXTENDS VaultSession

CONSTANTS MaxCopies   \* bound: copies

ASSUME ClipboardAssumption == MaxCopies \in Nat

VARIABLES
  clipboard,  \* the copy that is on the clipboard, 0 for none
  copies,     \* copyForLiveSession under way
  entry,      \* clipboardEntryRef, 0 for null
  clears,     \* clearClipboardEntry under way
  owner       \* history: the session of each copy

clip == <<clipboard, copies, entry, clears, owner>>
pageVars == <<vars, clip>>

Copy == 1..MaxCopies

ClipboardTypeOK ==
  /\ clipboard \in 0..MaxCopies /\ entry \in 0..MaxCopies
  /\ copies \subseteq [copy : Copy, session : DOMAIN session, ticket : 0..MaxLocks,
                       stage : {"writing", "reading", "erasing"}]
  /\ clears \subseteq [copy : Copy, stage : {"reading", "erasing"},
                       awaited : BOOLEAN]
  /\ owner \in Seq(DOMAIN session) /\ Len(owner) <= MaxCopies

ClipboardInit ==
  /\ clipboard = 0 /\ copies = {} /\ entry = 0 /\ clears = {}
  /\ owner = <<>>

-----------------------------------------------------------------------------
(* copy, copyForLiveSession *)

StartCopy ==
  /\ status = "unlocked" /\ ~lock.on /\ Len(owner) < MaxCopies
  /\ owner' = Append(owner, current)
  /\ copies' = copies \cup {[copy |-> Len(owner) + 1, session |-> current,
                             ticket |-> epoch, stage |-> "writing"]}
  /\ UNCHANGED <<clipboard, entry, clears>>

\* Variant: a copy is live as soon as it was asked for.
LiveOnce(c) == c.copy \in Copy

\* isLive: the page is still open, in the same session, and no lock was requested.
Live(c) == ~lock.on /\ current = c.session /\ c.ticket = epoch

\* The value is on the clipboard: it is registered in place of the one before,
\* or has to go.
CopyWritten(c) ==
  /\ c.stage = "writing"
  /\ clipboard' = c.copy
  /\ \/ Live(c) /\ entry' = c.copy /\ copies' = copies \ {c}
     \/ /\ ~Live(c) /\ UNCHANGED entry
        /\ copies' = (copies \ {c}) \cup {[c EXCEPT !.stage = "reading"]}
  /\ UNCHANGED <<clears, owner>>

CopyRead(c) ==
  /\ c.stage = "reading"
  /\ copies' = (copies \ {c}) \cup
       (IF clipboard = c.copy THEN {[c EXCEPT !.stage = "erasing"]} ELSE {})
  /\ UNCHANGED <<clipboard, entry, clears, owner>>

CopyErased(c) ==
  /\ c.stage = "erasing"
  /\ clipboard' = 0 /\ copies' = copies \ {c}
  /\ UNCHANGED <<entry, clears, owner>>

\* The browser or the system denies the access: a value that cannot be erased is
\* given up, and no longer counts as a copy.
GivenUp(n) == clipboard' = IF clipboard = n THEN 0 ELSE clipboard

CopyDenied(c) ==
  /\ copies' = copies \ {c} /\ GivenUp(c.copy)
  /\ UNCHANGED <<entry, clears, owner>>

-----------------------------------------------------------------------------
(* clearClipboardEntry *)

Clear(awaited) == [copy |-> entry, stage |-> "reading", awaited |-> awaited]

\* The timer of the entry: cancelled by whatever clears the entry.
EntryTimer ==
  /\ entry # 0 /\ \A k \in clears : k.copy # entry
  /\ clears' = clears \cup {Clear(FALSE)}
  /\ UNCHANGED <<clipboard, copies, entry, owner>>

Forgotten(k) == IF entry = k.copy THEN 0 ELSE entry

ClearRead(k) ==
  /\ k.stage = "reading"
  /\ \/ /\ entry = k.copy /\ clipboard = k.copy
        /\ clears' = (clears \ {k}) \cup {[k EXCEPT !.stage = "erasing"]}
        /\ UNCHANGED entry
     \/ /\ ~(entry = k.copy /\ clipboard = k.copy)
        /\ clears' = clears \ {k} /\ entry' = Forgotten(k)
  /\ UNCHANGED <<clipboard, copies, owner>>

ClearErased(k) ==
  /\ k.stage = "erasing"
  /\ clipboard' = 0 /\ clears' = clears \ {k} /\ entry' = Forgotten(k)
  /\ UNCHANGED <<copies, owner>>

ClearDenied(k) ==
  /\ clears' = clears \ {k} /\ entry' = Forgotten(k)
  /\ GivenUp(k.copy)
  /\ UNCHANGED <<copies, owner>>

\* What ends by itself.
Access ==
  \/ \E c \in copies :
       CopyWritten(c) \/ CopyRead(c) \/ CopyErased(c) \/ CopyDenied(c)
  \/ \E k \in clears : ClearRead(k) \/ ClearErased(k) \/ ClearDenied(k)

ClipboardStep == StartCopy \/ EntryTimer \/ Access

-----------------------------------------------------------------------------
(* The lock erases what is registered, and waits for that *)

ClipboardLock ==
  /\ RequestLock
  /\ clears' = IF lock.on \/ entry = 0 THEN clears ELSE clears \cup {Clear(TRUE)}
  /\ UNCHANGED <<clipboard, copies, entry, owner>>

ClipboardLockDone ==
  /\ LockDone
  /\ \A k \in clears : ~k.awaited
  /\ UNCHANGED clip

-----------------------------------------------------------------------------
(* Properties *)

\* "Browser clipboard access remains best-effort and tied to the issuing
\* unlock": a copied value that is still on the clipboard is being erased, or
\* is registered by the session it was copied in, which is open.  (In the
\* browser, an import behind the page leaves it to the timer.)
UnderErasure(n) ==
  \/ \E c \in copies : c.copy = n
  \/ \E k \in clears : k.copy = n
ClipboardRevoked ==
  clipboard # 0 =>
    \/ UnderErasure(clipboard)
    \/ /\ entry = clipboard
       /\ current = owner[clipboard] \/ (~Desktop /\ history.imported # 0)
=============================================================================
