---------------------------- MODULE FillCapability ----------------------------
(***************************************************************************)
(* What the extension promises about the matches it lists: each list comes *)
(* with one permission, for one document and one vault session, which is   *)
(* used up by the first request that names it and ends in at most one      *)
(* credential, in that document.  Until the credential is sent that        *)
(* session must be open; a session that was closed never opens again.      *)
(* No messages, handlers, ports or tabs.                                   *)
(***************************************************************************)
EXTENDS Naturals

CONSTANTS Token, Doc, Session

VARIABLES
  open,     \* the session that is open, if one is
  status,   \* of each permission
  target,   \* the document and session it was issued for, if it was
  given     \* those of the credential it ended in, if it did

vars == <<open, status, target, given>>

Init ==
  /\ open = {}
  /\ status = [t \in Token |-> "unissued"]
  /\ target = [t \in Token |-> {}]
  /\ given = [t \in Token |-> {}]

\* A session replaces what was open; no permission is of it yet.
Open(s) ==
  /\ \A t \in Token : target[t] \cap (Doc \X {s}) = {}
  /\ open' = {s}
  /\ UNCHANGED <<status, target, given>>

Issue(t) ==
  /\ status[t] = "unissued"
  /\ status' = [status EXCEPT ![t] = "held"]
  /\ \E x \in Doc \X open : target' = [target EXCEPT ![t] = {x}]
  /\ UNCHANGED <<open, given>>

\* The permission goes on while its session is open.
Proceed(t, from, to) ==
  /\ status[t] = from
  /\ target[t] \subseteq Doc \X open
  /\ status' = [status EXCEPT ![t] = to]
  /\ UNCHANGED <<open, target, given>>

Use(t) == Proceed(t, "held", "used")
Send(t) == Proceed(t, "used", "sent")

Give(t) ==
  /\ status[t] = "sent"
  /\ status' = [status EXCEPT ![t] = "spent"]
  /\ given' = [given EXCEPT ![t] = target[t]]
  /\ UNCHANGED <<open, target>>

\* Permissions are revoked and the session is closed at any time.
Revoke ==
  /\ \E revoked \in SUBSET Token :
       /\ \A t \in revoked : status[t] \in {"held", "used", "sent"}
       /\ status' = [t \in Token |-> IF t \in revoked THEN "spent" ELSE status[t]]
  /\ open' \in SUBSET open
  /\ UNCHANGED <<target, given>>

Next ==
  \/ Revoke
  \/ \E s \in Session : Open(s)
  \/ \E t \in Token : Issue(t) \/ Use(t) \/ Send(t) \/ Give(t)

Spec == Init /\ [][Next]_vars
=============================================================================
