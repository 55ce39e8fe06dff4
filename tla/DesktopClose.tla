----------------------------- MODULE DesktopClose -----------------------------
(***************************************************************************)
(* The desktop window around VaultClipboard: how a request to close it locks *)
(* the vault first, and how that meets the native backup dialogs.          *)
(*                                                                         *)
(* The native side holds two atomic flags: CloseState (a close request     *)
(* waits for its acknowledgement) and BackupState (a dialog or an          *)
(* acknowledgement runs).  It tells the page of a close or a lost focus by *)
(* an event; the page locks and, if that succeeded, acknowledges the close *)
(* with the command desktop_close_ready.  Events and commands take time.   *)
(***************************************************************************)
EXTENDS VaultClipboard

CONSTANTS MaxCloses   \* bound: close requests

ASSUME CloseAssumption == MaxCloses \in Nat /\ Desktop

VARIABLES
  window,     \* "open" or "destroyed"
  closing,    \* CloseState
  busy,       \* BackupState
  notices,    \* close events the page has not handled yet
  waiting,    \* a close event waits for the lock under way
  answering,  \* completingClose: desktop_close_ready is called
  dialog,     \* the command whose native dialog is open
  closes,     \* close requests so far
  opened,     \* history: sessions there were when the handshake began
  lost        \* history: the lock that a close waited for lost a save of theirs

native == <<window, closing, busy, notices, waiting, answering, dialog, closes,
            opened, lost>>
allVars == <<pageVars, native>>

DesktopTypeOK ==
  /\ TypeOK /\ ClipboardTypeOK
  /\ window \in {"open", "destroyed"}
  /\ closing \in BOOLEAN /\ busy \in BOOLEAN
  /\ waiting \in BOOLEAN /\ answering \in BOOLEAN
  /\ notices \in 0..MaxCloses /\ closes \in 0..MaxCloses
  /\ dialog \in {"none", "export", "import"}
  /\ opened \in Nat /\ lost \in BOOLEAN

DesktopInit ==
  /\ Init /\ ClipboardInit
  /\ window = "open"
  /\ closing = FALSE /\ busy = FALSE /\ waiting = FALSE /\ answering = FALSE
  /\ notices = 0 /\ closes = 0 /\ dialog = "none" /\ opened = 0 /\ lost = FALSE

-----------------------------------------------------------------------------
(* The close handshake *)

\* A close event is on its way, waits for a lock or is being acknowledged.
UnderWay == notices > 0 \/ waiting \/ answering

\* CloseRequested, or Quit while there is a window: note it and tell the page.
RequestClose ==
  /\ closes < MaxCloses
  /\ closes' = closes + 1
  /\ closing' = TRUE
  /\ notices' = notices + 1
  /\ opened' = IF UnderWay THEN opened ELSE Len(session)
  /\ UNCHANGED <<pageVars, window, busy, waiting, answering, dialog, lost>>

\* The window loses focus or is hidden: the page locks.  (Bound: the locks of
\* close events are kept back.)
LoseFocus ==
  /\ epoch + (MaxCloses - closes) + notices < MaxLocks
  /\ ClipboardLock
  /\ UNCHANGED native

\* The page handles a close event: it locks and waits for the lock.
HandleClose ==
  /\ notices > 0
  /\ notices' = notices - 1
  /\ ClipboardLock
  /\ waiting' = TRUE
  /\ UNCHANGED <<window, closing, busy, answering, dialog, closes, opened, lost>>

\* Variant: the close is acknowledged whatever the lock says.
AnswerAnyway == waiting

\* The close is acknowledged after a lock that saved everything, once.
Answers == waiting /\ ~lock.failed

\* The lock ends; a close event that waited for it is acknowledged, or the page
\* reports that the window stays open.
LockEnded ==
  /\ ClipboardLockDone
  /\ waiting' = FALSE
  /\ answering' = (answering \/ Answers)
  /\ lost' = IF waiting
             THEN lock.session \in 1..opened /\ stored.vault = history.wanted.vault
                    /\ stored.edit < history.wanted.edit
             ELSE lost
  /\ UNCHANGED <<window, closing, busy, notices, dialog, closes, opened>>

\* desktop_close_ready: refused while a backup command runs or when no close is
\* requested (the page may acknowledge again later) ...
CloseRefused ==
  /\ answering
  /\ busy \/ ~closing
  /\ answering' = FALSE
  /\ UNCHANGED <<pageVars, window, closing, busy, notices, waiting, dialog, closes,
                 opened, lost>>

\* ... the window cannot be destroyed: the request stays open ...
DestroyFails ==
  /\ answering /\ ~busy /\ closing
  /\ answering' = FALSE
  /\ UNCHANGED <<pageVars, window, closing, busy, notices, waiting, dialog, closes,
                 opened, lost>>

\* ... or the window is destroyed.
Destroy ==
  /\ answering /\ ~busy /\ closing
  /\ window' = "destroyed"
  /\ closing' = FALSE
  /\ UNCHANGED <<pageVars, busy, notices, waiting, answering, dialog, closes, opened,
                 lost>>

-----------------------------------------------------------------------------
(* The native backup commands *)

\* begin: one command at a time, and none while a close is requested.
MayBegin == ~busy /\ ~closing

\* The user exports the stored vault from the locked screen.
BeginExport ==
  /\ AuthShown /\ ~auth.on /\ import.stage = "none" /\ stored # NoVault
  /\ MayBegin
  /\ busy' = TRUE /\ dialog' = "export"
  /\ UNCHANGED <<pageVars, window, closing, notices, waiting, answering, closes, opened,
                 lost>>

BeginImport ==
  /\ dialog = "none"
  /\ ChooseBackup /\ UNCHANGED clip
  /\ MayBegin
  /\ busy' = TRUE /\ dialog' = "import"
  /\ UNCHANGED <<window, closing, notices, waiting, answering, closes, opened,
                 lost>>

EndCommand ==
  /\ busy' = FALSE /\ dialog' = "none"
  /\ UNCHANGED <<window, closing, notices, waiting, answering, closes, opened,
                 lost>>

\* The dialog is left with a file name, which is written unless a close was
\* requested, or cancelled.
EndExport ==
  /\ dialog = "export"
  /\ EndCommand
  /\ UNCHANGED pageVars

\* The file was read: it is imported or asked about, unless a close was
\* requested.  The page that asked may have gone (import is "none").
EndImport ==
  /\ dialog = "import"
  /\ EndCommand
  /\ UNCHANGED clip
  /\ \/ ~closing /\ (AskToReplace \/ (import.stage = "reading" /\ ImportBackup))
     \/ import.stage = "reading" /\ DropImport
     \/ import.stage # "reading" /\ UNCHANGED vars

\* The steps of the page that involve no native command.
PageStep ==
  \/ Authenticate
  \/ AuthenticateDone
  \/ AuthenticateFails
  \/ Persist
  \/ \E s \in DOMAIN session : SealDone(s) \/ SealFails(s)
  \/ import.stage = "confirm" /\ (DropImport \/ ImportBackup)
  \/ ImportDone

DesktopNext ==
  /\ window = "open"
  /\ \/ RequestClose
     \/ LoseFocus
     \/ HandleClose
     \/ LockEnded
     \/ CloseRefused
     \/ DestroyFails
     \/ Destroy
     \/ BeginExport
     \/ BeginImport
     \/ EndExport
     \/ EndImport
     \/ PageStep /\ UNCHANGED <<clip, native>>
     \/ ClipboardStep /\ UNCHANGED <<vars, native>>

DesktopSpec == DesktopInit /\ [][DesktopNext]_allVars

\* Promises settle, events and commands arrive, dialogs are left.
FairDesktopSpec ==
  /\ DesktopSpec
  /\ WF_allVars(window = "open" /\ UNCHANGED <<clip, native>>
                /\ (AuthenticateDone \/ AuthenticateFails))
  /\ WF_allVars(window = "open" /\ UNCHANGED <<clip, native>>
                /\ \E s \in DOMAIN session : SealDone(s) \/ SealFails(s))
  /\ WF_allVars(window = "open" /\ UNCHANGED <<clip, native>> /\ ImportDone)
  /\ WF_allVars(window = "open" /\ UNCHANGED <<vars, native>> /\ Access)
  /\ WF_allVars(window = "open" /\ HandleClose)
  /\ WF_allVars(window = "open" /\ LockEnded)
  /\ WF_allVars(window = "open" /\ (CloseRefused \/ DestroyFails \/ Destroy))
  /\ WF_allVars(window = "open" /\ (EndExport \/ EndImport))

-----------------------------------------------------------------------------
(* Properties *)

\* The window goes only after the sessions that were open when the close was
\* requested have sealed what they had to and destroyed their keys, with every
\* save of theirs stored, and with no backup command under way.
ClosedSafely ==
  window = "destroyed" =>
    /\ ~busy /\ ~lost
    /\ \A s \in 1..opened :
         session[s].state = "destroyed" /\ session[s].writes = <<>>

\* Every close request is answered: the window goes, or the handshake ends and
\* the window stays.
CloseAnswered ==
  UnderWay ~> window = "destroyed" \/ ~UnderWay
=============================================================================
