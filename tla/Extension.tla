------------------------------- MODULE Extension -------------------------------
(***************************************************************************)
(* The browser extension: its background worker, its content script in the *)
(* documents of one tab, and the companion in the vault page it is paired  *)
(* with.                                                                   *)
(*                                                                         *)
(* The worker and every page run on threads of their own and are           *)
(* connected by ports, each a FIFO queue per direction.  A handler of the  *)
(* popup runs up to its next await, so several handlers, port events, tab  *)
(* events and timers interleave.  Requests are numbered as they begin; a   *)
(* list request also names the content script it injects, the forms that   *)
(* script finds for it and the grant it issues, a watch request its token. *)
(*                                                                         *)
(* A deadline is in force, then lapsed; its timer fires some time later.   *)
(* All tabs but one for logins and one per pairing are left out, and so is *)
(* a content script that leaves before the worker saw its port.            *)
(***************************************************************************)
EXTENDS Naturals, Sequences, FiniteSets

CONSTANTS
  Doc,          \* documents the tab may show, each at most once
  OriginOf,     \* the origin of a document
  Plan,         \* bound: the kinds the popup's first, second, ... request may be
  MaxActive,    \* bound: those under way at once
  MaxPairings,  \* bound: pairings started
  MaxEvents     \* bound: what users, the page and the session's clock do to it

\* A page without a login origin, or no tab.
NoDoc == "no document"
NoOrigin == "no origin"
MaxRequests == Len(Plan)
Request == 1..MaxRequests
Kinds == {"list", "fill", "watch", "review"}
Pairing == 1..MaxPairings

ASSUME ConstantsAssumption ==
  /\ Plan \in Seq(SUBSET Kinds) /\ MaxActive \in Nat /\ MaxPairings \in Nat /\ MaxEvents \in Nat
  /\ NoDoc \notin Doc

VARIABLES
  \* the worker
  session,    \* the pairing whose port is the session, 0 for null
  pairing,    \* the pairing a page may complete, 0 for null
  opening,    \* pairings whose tab is being created
  documents,  \* the content script registered for a document, 0 for none
  waiting,    \* registrations: the request that waits for one
  grants,     \* grants issued and not consumed
  capture,    \* the armed watch, 0 for null
  candidate,  \* the watch whose submission was captured, 0 for null
  pending,    \* requests the vault has not answered
  req,        \* the popup's requests
  \* the tab
  shown,      \* its document
  script,     \* per document: content script, form handle and watch
  conn,       \* state of the port of a content script
  posted,     \* submissions on their way: <<watch, content script>>
  \* the vault pages
  page,       \* state of the companion
  unlocked,   \* pages whose vault is unlocked
  up, down,   \* messages to and from the worker
  cut,        \* ports the worker has closed
  \* time, and what happened
  lapsed,     \* deadlines that have passed
  filled,     \* credentials filled in
  events      \* how many of the bounded events there were

link == <<session, pairing, opening>>
registry == <<documents, waiting>>
captured == <<capture, candidate>>
worker == <<link, registry, grants, captured, pending>>
tab == <<shown, script, posted>>
ports == <<page, unlocked, up, down, cut>>
history == <<lapsed, filled>>
past == <<history, events>>
vars == <<worker, req, conn, tab, ports, past>>

-----------------------------------------------------------------------------
NoRequest == [kind |-> "none", pc |-> "none", uses |-> 0, session |-> 0,
              origin |-> NoOrigin, doc |-> NoDoc, reg |-> 0, mail |-> "none"]
NoScript == [port |-> 0, form |-> 0, watch |-> 0]
Number == 0..MaxRequests
Over == {"none", "done", "failed"}
PopupRequest ==
  [kind : {"none"} \cup Kinds,
   pc : Over \cup {"target", "inject", "register", "waiting", "discovering", "found", "asked",
                   "answered", "issue", "check", "use", "send", "acking", "acked",
                   "refused", "activate", "activating", "propose"},
   uses : Number, session : 0..MaxPairings,
   origin : {NoOrigin} \cup {OriginOf[d] : d \in Doc},
   doc : Doc \cup {NoDoc}, reg : Number,
   mail : {"none", "discover", "fill", "watch"}]
Message == [type : {"connect", "hello", "paired", "locked", "gone", "answer"}
                     \cup Kinds,
            about : Number, ok : BOOLEAN]
Plain(type) == [type |-> type, about |-> 0, ok |-> TRUE]
About(type, r, ok) == [type |-> type, about |-> r, ok |-> ok]

TypeOK ==
  /\ session \in 0..MaxPairings /\ pairing \in 0..MaxPairings
  /\ opening \subseteq Pairing
  /\ documents \in [Doc -> Number] /\ waiting \in [Doc -> Number]
  /\ grants \subseteq Request /\ pending \subseteq Request
  /\ capture \in Number /\ candidate \in Number
  /\ req \in [Request -> PopupRequest]
  /\ shown \in Doc \cup {NoDoc} /\ events \in 0..MaxEvents
  /\ script \in [Doc -> [port : Number, form : Number, watch : Number]]
  /\ conn \in [Request -> {"none", "connecting", "open", "cut", "left"}]
  /\ posted \subseteq Request \X Request
  /\ page \in [Pairing -> {"none", "tab", "connecting", "paired", "closed"}]
  /\ unlocked \subseteq Pairing /\ cut \subseteq Pairing
  /\ up \in [Pairing -> Seq(Message)] /\ down \in [Pairing -> Seq(Message)]
  /\ lapsed \subseteq ({"session"} \X Pairing)
       \cup ({"grant", "capture", "candidate"} \X Request)
  /\ filled \subseteq [token : Request, doc : Doc, session : Pairing]

Init ==
  /\ session = 0 /\ pairing = 0 /\ opening = {}
  /\ documents = [d \in Doc |-> 0] /\ waiting = [d \in Doc |-> 0]
  /\ grants = {} /\ pending = {} /\ capture = 0 /\ candidate = 0
  /\ req = [r \in Request |-> NoRequest]
  /\ shown \in Doc /\ events = 0
  /\ script = [d \in Doc |-> NoScript] /\ posted = {}
  /\ conn = [r \in Request |-> "none"]
  /\ page = [p \in Pairing |-> "none"] /\ unlocked = Pairing
  /\ up = [p \in Pairing |-> <<>>] /\ down = [p \in Pairing |-> <<>>]
  /\ cut = {} /\ lapsed = {} /\ filled = {}

-----------------------------------------------------------------------------
(* What a request is about: the list request it goes back to names the     *)
(* session, the origin, the document and the registration it is bound to.  *)

ListOf(r) ==
  CASE req[r].kind \in {"fill", "watch"} -> req[r].uses
    [] req[r].kind = "review" -> req[req[r].uses].uses
    [] OTHER -> r
Bound(r) == req[ListOf(r)]

Passed(what, x) == <<what, x>> \in lapsed
SessionLive == session # 0 /\ ~Passed("session", session)

\* requireDocument: the registration a request is bound to is the current one.
Registered(r) == documents[Bound(r).doc] = Bound(r).reg

\* assertTarget: the tab still shows a page of the origin.
OnTarget(r) == shown # NoDoc /\ OriginOf[shown] = Bound(r).origin

Happens == events < MaxEvents /\ events' = events + 1

At(r, pc) == req[r].pc = pc
Moved(rs, r, pc) == [rs EXCEPT ![r].pc = pc]

\* A registration closed by the worker, and one whose script leaves.
CutOff(state) == IF state \in {"open", "connecting"} THEN "cut" ELSE "none"
LeftBy(state) == IF state = "open" THEN "left" ELSE "none"

\* A request that ends without a result keeps nothing; a watch still on its way
\* to the page stays there.
Ended(rs, r) ==
  [rs EXCEPT ![r].pc = "failed", ![r].session = 0, ![r].origin = NoOrigin,
             ![r].reg = 0,
             ![r].mail = IF @ = "watch" THEN @ ELSE "none"]

\* lock(), with rs and ups for what its caller makes of the requests and of the
\* messages of the pages.
Lock(rs, ups) ==
  /\ session' = 0 /\ pairing' = 0 /\ grants' = {}
  /\ capture' = 0 /\ candidate' = 0 /\ pending' = {}
  /\ documents' = [d \in Doc |-> 0] /\ waiting' = [d \in Doc |-> 0]
  /\ conn' = [q \in Request |-> IF \E d \in Doc : documents[d] = q
                                THEN CutOff(conn[q]) ELSE conn[q]]
  /\ req' = [r \in Request |->
               IF r \in pending \/ \E d \in Doc : waiting[d] = r
               THEN Ended(rs, r)[r] ELSE rs[r]]
  /\ cut' = cut \cup ({session} \ {0})
  /\ up' = [p \in Pairing |-> IF p = session THEN <<>> ELSE ups[p]]
  /\ down' = [p \in Pairing |->
                IF p = session /\ page[p] \in {"connecting", "paired"}
                THEN Append(down[p], Plain("gone")) ELSE down[p]]
\* What lock() leaves alone.
LockFrame == UNCHANGED <<opening, tab, page, unlocked, past>>

\* Variant: the captured submission of a closed registration stays.
OnlyArmedGoesWith(regs) ==
  /\ capture' = IF capture # 0 /\ Bound(capture).reg \in regs THEN 0 ELSE capture
  /\ UNCHANGED candidate

\* The registrations in regs are closed; a capture of theirs goes with them.
CaptureGoesWith(regs) ==
  LET gone == \/ capture # 0 /\ Bound(capture).reg \in regs
              \/ candidate # 0 /\ Bound(candidate).reg \in regs
  IN  /\ capture' = IF gone THEN 0 ELSE capture
      /\ candidate' = IF gone THEN 0 ELSE candidate

-----------------------------------------------------------------------------
(* list *)

\* The next request begins.
Begins(r, kind) ==
  /\ kind \in Plan[r]
  /\ req[r].kind = "none"
  /\ \A q \in 1..(r - 1) : req[q].kind # "none"
  /\ Cardinality({q \in Request : req[q].pc \notin Over}) < MaxActive

Begun(r, kind, uses, pc) ==
  [req EXCEPT ![r].kind = kind, ![r].uses = uses, ![r].pc = pc]

\* The handler up to activeTarget.
StartList(r) ==
  /\ Begins(r, "list")
  /\ SessionLive
  /\ capture' = 0 /\ candidate' = 0 /\ grants' = {}
  /\ req' = [Begun(r, "list", 0, "target") EXCEPT ![r].session = session]
  /\ UNCHANGED <<link, registry, pending, conn, tab, ports, past>>

\* A handler throws: a watch disarms itself, a review drops its candidate.
Fails(r) ==
  /\ req' = Ended(req, r)
  /\ capture' = IF capture = r THEN 0 ELSE capture
  /\ candidate' = IF \/ candidate = r
                     \/ req[r].kind = "review" /\ candidate = req[r].uses
                  THEN 0 ELSE candidate
  /\ UNCHANGED <<link, registry, grants, pending, conn, tab, ports, past>>

Goes(r, pc) ==
  /\ req' = Moved(req, r, pc)
  /\ UNCHANGED <<worker, conn, tab, ports, past>>

\* activeTarget tells the origin of the tab; executeScript is called.
Target(r) ==
  /\ At(r, "target")
  /\ \/ shown = NoDoc /\ Fails(r)
     \/ /\ shown # NoDoc
        /\ req' = [Moved(req, r, "inject") EXCEPT ![r].origin = OriginOf[shown]]
        /\ UNCHANGED <<worker, conn, tab, ports, past>>

\* executeScript: content.js replaces its predecessor in whatever is shown.
Inject(r) ==
  /\ At(r, "inject")
  /\ \/ shown = NoDoc /\ Fails(r)
     \/ /\ shown # NoDoc
        /\ LET old == script[shown].port
           IN  conn' = [q \in Request |-> CASE q = r -> "connecting"
                                            [] q = old -> LeftBy(conn[q])
                                            [] OTHER -> conn[q]]
        /\ script' = [script EXCEPT ![shown] = [NoScript EXCEPT !.port = r]]
        /\ req' = [Moved(req, r, "register") EXCEPT ![r].doc = shown]
        /\ UNCHANGED <<worker, shown, posted, ports, past>>

\* assertTarget: the browser answers, and the handler resumes later.  Another
\* tab may be in front.
Check(r) ==
  /\ req[r].pc \in {"check", "answered"}
  /\ \/ /\ OnTarget(r)
        /\ Goes(r, CASE req[r].kind = "list" -> "issue"
                     [] req[r].kind = "review" -> "activate"
                     [] req[r].kind = "fill" /\ At(r, "answered") -> "send"
                     [] OTHER -> "use")
     \/ Fails(r)

\* The request with the registration of its document, or refused for another
\* origin's.
Discovering(r, reg) ==
  IF OriginOf[req[r].doc] = req[r].origin
  THEN [req EXCEPT ![r].reg = reg, ![r].mail = "discover",
                   ![r].pc = "discovering"]
  ELSE Ended(req, r)

\* The script is injected and the target still the same: registeredDocument, up
\* to its await.
Register(r) ==
  /\ At(r, "register")
  /\ LET d == req[r].doc
     IN  \/ /\ OnTarget(r) /\ documents[d] # 0
            /\ req' = Discovering(r, documents[d])
            /\ UNCHANGED <<worker, conn, tab, ports, past>>
         \/ /\ OnTarget(r) /\ documents[d] = 0 /\ waiting[d] = 0
            /\ waiting' = [waiting EXCEPT ![d] = r]
            /\ req' = Moved(req, r, "waiting")
            /\ UNCHANGED <<link, documents, grants, captured, pending, conn,
                           tab, ports, past>>
         \/ Fails(r)

\* requestVault
Ask(r) ==
  /\ pending' = pending \cup {r}
  /\ req' = Moved(req, r, "asked")
  /\ down' = [down EXCEPT ![session] = Append(@, About(req[r].kind, r, TRUE))]
  /\ UNCHANGED <<link, registry, grants, captured, conn, tab, page, unlocked,
                 up, cut, past>>

\* The forms are known.
AskMatches(r) ==
  /\ At(r, "found")
  /\ \/ Registered(r) /\ SessionLive /\ Ask(r)
     \/ ~Registered(r) /\ Fails(r)

\* The matches are there and the target was looked at again.
IssueGrant(r) ==
  /\ At(r, "issue") /\ SessionLive
  /\ LET ok == session = req[r].session /\ Registered(r)
     IN  \/ /\ ok
            /\ grants' = grants \cup {r}
            /\ req' = Moved(req, r, "done")
            /\ UNCHANGED <<link, registry, captured, pending, conn, tab, ports,
                           past>>
         \/ ~ok /\ Fails(r)

-----------------------------------------------------------------------------
(* fill and watch *)

\* The popup shows the matches of a list request.
ListShown(t) == req[t].kind = "list" /\ At(t, "done")

\* Variant: a grant stays until it lapses.
GrantsReused(t) == grants

\* Capabilities.consume: a grant is used once.
GrantsAfter(t) == grants \ {t}

\* The user presses Fill, or Watch next submission, for a list shown.
StartUse(r, t) ==
  /\ \E kind \in {"fill", "watch"} :
       /\ Begins(r, kind)
       /\ ListShown(t)
       /\ t \in grants => SessionLive
       /\ req' = Begun(r, kind, t, IF t \in grants /\ session = req[t].session
                                   THEN "check" ELSE "failed")
  /\ grants' = GrantsAfter(t)
  /\ UNCHANGED <<link, registry, captured, pending, conn, tab, ports, past>>

AskCredential(r) ==
  /\ At(r, "use") /\ req[r].kind = "fill"
  /\ \/ Registered(r) /\ SessionLive /\ Ask(r)
     \/ ~Registered(r) /\ Fails(r)

\* Whether the session and the registration of a request are still the same.
SameSession(r) == session = Bound(r).session
GrantLive(r) == ~Passed("grant", ListOf(r))

\* Variant: whichever session is open will do.
MaySendInAny(r) == Registered(r) /\ GrantLive(r)

\* What is looked at between the answer of the vault and the message.
MaySend(r) == SameSession(r) /\ Registered(r) /\ GrantLive(r)

SendCredential(r) ==
  /\ At(r, "send") /\ SessionLive
  /\ \/ /\ MaySend(r)
        /\ req' = [Moved(req, r, "acking") EXCEPT ![r].mail = "fill"]
        /\ UNCHANGED <<worker, conn, tab, ports, past>>
     \/ ~MaySend(r) /\ Fails(r)

ArmCapture(r) ==
  /\ At(r, "use") /\ req[r].kind = "watch"
  /\ LET live == Registered(r) /\ GrantLive(r)
     IN  \/ /\ live /\ SessionLive /\ SameSession(r)
            /\ capture' = r /\ candidate' = 0
            /\ req' = [Moved(req, r, "acking") EXCEPT ![r].mail = "watch"]
            /\ UNCHANGED <<link, registry, grants, pending, conn, tab, ports,
                           past>>
         \/ ~(live /\ (SessionLive => SameSession(r))) /\ Fails(r)

\* The page acknowledged; a watch is ready only in the session it began in.
Acknowledged(r) ==
  /\ At(r, "acked")
  /\ LET ok == GrantLive(r) /\ (req[r].kind = "watch" =>
                                  SameSession(r) /\ Registered(r))
     IN  (ok /\ Goes(r, "done")) \/ (~ok /\ Fails(r))

Refused(r) == At(r, "refused") /\ Fails(r)

-----------------------------------------------------------------------------
(* review *)

\* The popup shows the submission of a watch.
WatchReady(w) == req[w].kind = "watch" /\ At(w, "done")

\* The candidate's token is blanked by the review that takes it.
Reviewable(w) ==
  \A r \in Request : ~(req[r].kind = "review" /\ req[r].uses = w)

StartReview(r, w) ==
  /\ Begins(r, "review")
  /\ WatchReady(w)
  /\ req' = Begun(r, "review", w, IF candidate = w /\ Reviewable(w) THEN "check"
                                  ELSE "failed")
  /\ UNCHANGED <<worker, conn, tab, ports, past>>

\* What is looked at before and after the vault's tab is brought to the front.
CandidateKept(r) == candidate = req[r].uses

ActivateVault(r) ==
  /\ At(r, "activate")
  /\ LET ok == SessionLive => SameSession(r) /\ Registered(r)
     IN  \/ CandidateKept(r) /\ SessionLive /\ ok /\ Goes(r, "activating")
         \/ ~(CandidateKept(r) /\ ok) /\ Fails(r)

VaultActivated(r) ==
  /\ At(r, "activating")
  /\ Goes(r, "propose")

Propose(r) ==
  /\ At(r, "propose")
  /\ LET ok == SessionLive => SameSession(r) /\ Registered(r)
     IN  \/ /\ CandidateKept(r) /\ SessionLive /\ ok
            /\ candidate' = 0
            /\ req' = Moved(req, r, "done")
            /\ down' = [down EXCEPT ![session] =
                          Append(@, About("review", req[r].uses, TRUE))]
            /\ UNCHANGED <<link, registry, grants, capture, pending, conn, tab,
                           page, unlocked, up, cut, past>>
         \/ ~(CandidateKept(r) /\ ok) /\ Fails(r)

-----------------------------------------------------------------------------
(* The end of a session, and time *)

\* requireSession without a session: the handler locks and throws.
SessionMissing(r) ==
  /\ ~SessionLive
  /\ \/ /\ Begins(r, "list")
        /\ Lock(Begun(r, "list", 0, "failed"), up)
     \/ \E t \in grants, kind \in {"fill", "watch"} :
          Begins(r, kind) /\ Lock(Begun(r, kind, t, "failed"), up)
     \/ /\ \/ req[r].pc \in {"issue", "send"}
           \/ At(r, "found") /\ Registered(r)
           \/ At(r, "use") /\ Registered(r) /\ (req[r].kind = "watch" => GrantLive(r))
           \/ req[r].pc \in {"activate", "propose"} /\ CandidateKept(r)
        /\ Lock(Ended(req, r), up)
  /\ LockFrame

\* The user disconnects.
Disconnect ==
  /\ Happens
  /\ session # 0 \/ pairing # 0
  /\ Lock(req, up)
  /\ UNCHANGED <<opening, tab, page, unlocked, history>>

\* The session's timer fires, or the status of the popup finds it over.
SessionTimer ==
  /\ session # 0 /\ Passed("session", session)
  /\ Lock(req, up) /\ LockFrame

\* Variant: nothing bounds the wait for a registration.
BoundedButRegistration == {"asked", "discovering"}

\* Where a handler waits for a registration, a page or the vault.
BoundedWaits == {"asked", "waiting", "discovering"}

\* The timers of these waits, and those of the acknowledgements of the page.
WaitTimer(r) ==
  /\ req[r].pc \in BoundedWaits
  /\ pending' = pending \ {r}
  /\ waiting' = [d \in Doc |-> IF waiting[d] = r THEN 0 ELSE waiting[d]]
  /\ req' = Ended(req, r)
  /\ UNCHANGED <<link, documents, grants, captured, conn, tab, ports, past>>
AcknowledgementTimer(r) ==
  /\ \/ At(r, "acking") /\ ~GrantLive(r)
     \/ At(r, "activating") /\ ~CandidateKept(r)
  /\ Fails(r)

\* The 30 seconds of a watch or of its captured submission are over.
CaptureTimer(what, w) ==
  /\ \/ what = "capture" /\ capture = w /\ capture' = 0 /\ UNCHANGED candidate
     \/ what = "candidate" /\ candidate = w /\ capture' = 0 /\ candidate' = 0
     \/ /\ what = "candidate" /\ UNCHANGED <<captured>>
        /\ \E p \in Pairing : \E i \in DOMAIN down[p] :
             down[p][i] = About("review", w, TRUE)
  /\ lapsed' = lapsed \cup {<<what, w>>}
  /\ UNCHANGED <<link, registry, grants, pending, req, conn, tab, ports, filled,
                 events>>

\* A grant lapses: unused, it is as good as gone.
GrantLapses(t) ==
  /\ \/ t \in grants /\ grants' = grants \ {t} /\ UNCHANGED lapsed
     \/ /\ \E r \in Request : req[r].uses = t /\ req[r].pc \notin Over
        /\ lapsed' = lapsed \cup {<<"grant", t>>} /\ UNCHANGED grants
  /\ UNCHANGED <<link, registry, captured, pending, req, conn, tab, ports,
                 filled, events>>

\* The five minutes of a session are over, for both ends of its port.
SessionLapses(p) ==
  /\ Happens
  /\ session = p \/ page[p] = "paired"
  /\ lapsed' = lapsed \cup {<<"session", p>>}
  /\ UNCHANGED <<worker, req, conn, tab, ports, filled>>

-----------------------------------------------------------------------------
(* The worker and its tabs *)

\* Whether a content script that connects is registered.
Registers == SessionLive

Connected(q) ==
  /\ conn[q] = "connecting"
  /\ LET d == req[q].doc
         old == documents[d]
         r == waiting[d]
     IN  \/ /\ Registers
            /\ documents' = [documents EXCEPT ![d] = q]
            /\ waiting' = [waiting EXCEPT ![d] = 0]
            /\ conn' = [x \in Request |-> CASE x = q -> "open"
                                            [] x = old -> CutOff(conn[x])
                                            [] OTHER -> conn[x]]
            /\ CaptureGoesWith({old} \ {0})
            /\ req' = IF r = 0 THEN req ELSE Discovering(r, q)
            /\ UNCHANGED <<link, grants, pending, tab, ports, past>>
         \/ /\ ~Registers
            /\ conn' = [conn EXCEPT ![q] = "cut"]
            /\ UNCHANGED <<worker, req, tab, ports, past>>

\* forget: the script left, by navigation or reinjection.
ScriptGone(q) ==
  /\ conn[q] = "left"
  /\ \A m \in posted : m[2] # q
  /\ conn' = [conn EXCEPT ![q] = "none"]
  /\ LET current == {d \in Doc : documents[d] = q}
     IN  /\ documents' = [d \in Doc |-> IF d \in current THEN 0 ELSE documents[d]]
         /\ grants' = IF current = {} THEN grants ELSE {}
  /\ CaptureGoesWith({q})
  /\ UNCHANGED <<link, waiting, pending, req, tab, ports, past>>

\* A registration closes itself as its time is over.  The session it was made in
\* began before it and went the same way, or was replaced by another: which of
\* them it was made in is not kept, and any session replaced may have been.
RegistrationTimer(q) ==
  /\ \E p \in Pairing \ {session} : Passed("session", p)
  /\ \E d \in Doc : documents[d] = q
  /\ documents' = [d \in Doc |-> IF documents[d] = q THEN 0 ELSE documents[d]]
  /\ grants' = {}
  /\ conn' = [conn EXCEPT ![q] = CutOff(@)]
  /\ CaptureGoesWith({q})
  /\ UNCHANGED <<link, waiting, pending, req, tab, ports, past>>

\* onUpdated: any change of a tab drops the grants, one of the URL (or the
\* removal of the tab) closes the registrations of its documents as well.
TabUpdated(url) ==
  /\ Happens
  /\ grants # {} \/ (url /\ \E d \in Doc : documents[d] # 0)
  /\ grants' = {}
  /\ LET regs == {documents[d] : d \in Doc} \ {0}
     IN  \/ /\ url
            /\ documents' = [d \in Doc |-> 0]
            /\ conn' = [q \in Request |-> IF q \in regs THEN CutOff(conn[q])
                                          ELSE conn[q]]
            /\ CaptureGoesWith(regs)
         \/ ~url /\ UNCHANGED <<documents, conn, captured>>
  /\ UNCHANGED <<link, waiting, pending, req, tab, ports, history>>

\* The armed watch's submission arrives on the port it was armed for.
Submitted(w, q) ==
  /\ <<w, q>> \in posted
  /\ posted' = posted \ {<<w, q>>}
  /\ LET accepted == /\ capture = w
                     /\ Bound(w).reg = q /\ Registered(w)
                     /\ SessionLive /\ SameSession(w)
                     /\ conn[q] \in {"open", "left"}
     IN  \/ accepted /\ capture' = 0 /\ candidate' = w
         \/ ~accepted /\ UNCHANGED <<captured>>
  /\ UNCHANGED <<link, registry, grants, pending, req, conn, shown, script,
                 ports, past>>

-----------------------------------------------------------------------------
(* The tab: its user, its documents and the content script *)

Navigate(d) ==
  /\ Happens
  /\ shown # d
  /\ d # NoDoc => \A r \in Request : req[r].doc # d
  /\ shown' = d
  /\ \/ /\ shown # NoDoc
        /\ conn' = [q \in Request |-> IF q = script[shown].port
                                      THEN LeftBy(conn[q]) ELSE conn[q]]
        /\ script' = [script EXCEPT ![shown] = NoScript]
     \/ shown = NoDoc /\ UNCHANGED <<conn, script>>
  /\ UNCHANGED <<worker, req, posted, ports, history>>

\* The content script learns that its port is closed and forgets everything.
ScriptCut(d) ==
  /\ script[d].port # 0 /\ conn[script[d].port] = "cut"
  /\ conn' = [conn EXCEPT ![script[d].port] = "none"]
  /\ script' = [script EXCEPT ![d] = NoScript]
  /\ UNCHANGED <<worker, req, shown, posted, ports, past>>

Replied(r, ok) ==
  IF req[r].pc \notin {"discovering", "acking"}
  THEN [req EXCEPT ![r].mail = "none"]
  ELSE IF ok
  THEN [req EXCEPT ![r].mail = "none",
                   ![r].pc = IF @ = "acking" THEN "acked" ELSE "found"]
  ELSE [req EXCEPT ![r].mail = "none", ![r].pc = "refused"]

\* Whatever a live message asks for, the forms found before and a watch end.
FormsAfter(s, r, ok) ==
  [s EXCEPT !.form = IF req[r].mail = "discover" THEN r ELSE 0,
            !.watch = IF ok /\ req[r].mail = "watch" THEN r ELSE 0]

\* A message of the worker reaches its document: live when its deadline has not
\* passed there.
ContentMessage(r) ==
  LET d == Bound(r).doc
      mail == req[r].mail
      live == /\ shown = d /\ script[d].port # 0
              /\ mail = "fill" => GrantLive(r)
              /\ mail = "watch" => ~Passed("capture", r)
      ok == live /\ (mail # "discover" => script[d].form = ListOf(r))
  IN  /\ mail # "none"
      /\ req' = Replied(r, ok)
      /\ script' = IF live THEN [script EXCEPT ![d] = FormsAfter(@, r, ok)]
                   ELSE script
      /\ filled' = IF ok /\ mail = "fill"
                   THEN filled \cup {[token |-> req[r].uses, doc |-> d,
                                      session |-> req[r].session]}
                   ELSE filled
      /\ UNCHANGED <<worker, conn, shown, posted, ports, lapsed,
                     events>>

\* The forms found lapse, or the page changes them.
FormGone(d) ==
  /\ Happens
  /\ script[d].form # 0
  /\ script' = [script EXCEPT ![d].form = 0]
  /\ UNCHANGED <<worker, req, conn, shown, posted, ports, history>>

\* The watched form is submitted; a form that changed gives nothing away.
Submit(d) ==
  LET w == script[d].watch
      q == script[d].port
  IN  /\ w # 0
      /\ script' = [script EXCEPT ![d].watch = 0]
      /\ posted' \in {posted, posted \cup {<<w, q>>}}
      /\ UNCHANGED <<worker, req, conn, shown, ports, past>>

-----------------------------------------------------------------------------
(* Pairing *)

StartPair(p) ==
  /\ page[p] = "none" /\ \A q \in 1..(p - 1) : page[q] # "none"
  /\ Lock(req, up)
  /\ opening' = opening \cup {p}
  /\ page' = [page EXCEPT ![p] = "tab"]
  /\ UNCHANGED <<tab, unlocked, past>>

\* tabs.create returned; the tab may have loaded before.
PairOpened(p) ==
  /\ p \in opening
  /\ opening' = opening \ {p} /\ pairing' = p
  /\ UNCHANGED <<session, registry, grants, captured, pending, req, conn, tab,
                 ports, past>>

PairingTimer ==
  /\ pairing # 0 /\ pairing' = 0
  /\ UNCHANGED <<session, opening, registry, grants, captured, pending, req,
                 conn, tab, ports, past>>

\* The next message of the page with pairing p, and of the worker to it.
FromPage(p, m) == p \notin cut /\ up[p] # <<>> /\ Head(up[p]) = m
FromWorker(p, m) ==
  page[p] \in {"connecting", "paired"} /\ down[p] # <<>> /\ Head(down[p]) = m

Refuse(p) ==
  /\ cut' = cut \cup {p}
  /\ down' = [down EXCEPT ![p] = Append(@, Plain("gone"))]
  /\ UNCHANGED <<worker, req>>

PortConnected(p) ==
  /\ FromPage(p, Plain("connect"))
  /\ up' = [up EXCEPT ![p] = Tail(@)]
  /\ \/ pairing = p /\ UNCHANGED <<worker, req, cut, down>>
     \/ pairing # p /\ Refuse(p)
  /\ UNCHANGED <<conn, tab, page, unlocked, past>>

Hello(p) ==
  /\ FromPage(p, Plain("hello"))
  /\ up' = [up EXCEPT ![p] = Tail(@)]
  /\ \/ /\ pairing = p
        /\ pairing' = 0 /\ session' = p
        /\ down' = [down EXCEPT ![p] = Append(@, Plain("paired"))]
        /\ UNCHANGED <<opening, registry, grants, captured, pending, req, cut>>
     \/ pairing # p /\ Refuse(p)
  /\ UNCHANGED <<conn, tab, page, unlocked, past>>

\* A list keeps the session it began in; a credential is of the one that answers.
Answered(r, p) ==
  [Moved(req, r, "answered") EXCEPT
     ![r].session = IF req[r].kind = "fill" THEN p ELSE @]

\* An answer of the vault; an unexpected one ends the session.
Answer(p, r, ok) ==
  /\ FromPage(p, About("answer", r, ok))
  /\ LET rest == [up EXCEPT ![p] = Tail(@)]
         expected == session = p /\ SessionLive /\ r \in pending
     IN  \/ ~expected /\ Lock(req, rest)
         \/ /\ expected
            /\ up' = rest
            /\ pending' = pending \ {r}
            /\ req' = IF ok THEN Answered(r, p) ELSE Ended(req, r)
            /\ UNCHANGED <<session, pairing, registry, grants, captured, conn,
                           cut, down>>
  /\ LockFrame

\* The vault says it is locked, from whichever page.
PageLocked(p) ==
  /\ FromPage(p, Plain("locked"))
  /\ Lock(req, [up EXCEPT ![p] = Tail(@)])
  /\ LockFrame

\* Its port goes.
PageGone(p) ==
  /\ FromPage(p, Plain("gone"))
  /\ LET rest == [up EXCEPT ![p] = Tail(@)]
     IN  \/ session = p /\ Lock(req, rest)
         \/ /\ session # p /\ up' = rest
            /\ UNCHANGED <<session, pairing, registry, grants, captured,
                           pending, req, conn, cut, down>>
  /\ LockFrame

-----------------------------------------------------------------------------
(* The companion *)

\* The user approves the pairing in the unlocked vault.
Connect(p) ==
  /\ page[p] = "tab" /\ p \in unlocked
  /\ page' = [page EXCEPT ![p] = "connecting"]
  /\ up' = [up EXCEPT ![p] = <<Plain("connect"), Plain("hello")>>]
  /\ UNCHANGED <<worker, req, conn, tab, unlocked, down, cut, past>>

\* Variant: stop() only closes the companion.
SilentStop == <<>>

\* What stop() tells the worker.
LastWords == <<Plain("locked"), Plain("gone")>>

\* stop(): says so and disconnects; what is on its way is not received.
Stop(p) ==
  /\ page' = [page EXCEPT ![p] = "closed"]
  /\ up' = [up EXCEPT ![p] = IF p \in cut THEN <<>> ELSE @ \o LastWords]
  /\ down' = [down EXCEPT ![p] = <<>>]
  /\ UNCHANGED <<worker, req, conn, tab, unlocked, cut, history>>

\* The vault is locked for good, the connection is over, or does not come about.
StopDue(p) ==
  page[p] \in {"connecting", "paired"}
    /\ (page[p] = "connecting" \/ p \notin unlocked \/ Passed("session", p))
StopWhenDue(p) == StopDue(p) /\ Stop(p) /\ UNCHANGED events

\* The user dismisses the companion or leaves the vault.
Dismiss(p) == page[p] = "paired" /\ Happens /\ Stop(p)

LockVault(p) ==
  /\ Happens
  /\ p \in unlocked /\ page[p] \in {"tab", "connecting", "paired"}
  /\ unlocked' = unlocked \ {p}
  /\ UNCHANGED <<worker, req, conn, tab, page, up, down, cut, history>>

\* The vault's tab is removed, or shows something else.
VaultTabGone(p) ==
  /\ Happens
  /\ page[p] \in {"tab", "connecting", "paired"}
  /\ page' = [page EXCEPT ![p] = "closed"]
  /\ LET rest == [up EXCEPT ![p] = IF page[p] = "tab" THEN @
                                   ELSE Append(@, Plain("gone"))]
     IN  \/ p \in {session, pairing} /\ Lock(req, rest)
         \/ /\ p \notin {session, pairing} /\ up' = rest
            /\ UNCHANGED <<session, pairing, registry, grants, captured,
                           pending, req, conn, cut, down>>
  /\ UNCHANGED <<opening, tab, unlocked, history>>

ReceivePaired(p) ==
  /\ FromWorker(p, Plain("paired"))
  /\ \/ Passed("session", p) /\ Stop(p) /\ UNCHANGED events
     \/ /\ ~Passed("session", p)
        /\ page' = [page EXCEPT ![p] = "paired"]
        /\ down' = [down EXCEPT ![p] = Tail(@)]
        /\ UNCHANGED <<worker, req, conn, tab, unlocked, up, cut, past>>

\* The deadline a message of the worker carries has passed.
MessageLate(kind, r) ==
  IF kind = "review" THEN Passed("candidate", r) ELSE ~At(r, "asked")

\* A request is answered from the open vault; a proposal is offered for review.
\* Whatever came too late is answered with an error.
Receive(p, kind, r) ==
  /\ FromWorker(p, About(kind, r, TRUE))
  /\ LET connected == page[p] = "paired" /\ ~Passed("session", p)
         late == MessageLate(kind, r)
         Reply(ok) == up' = [up EXCEPT ![p] = Append(@, About("answer", r, ok))]
     IN  \/ ~(connected /\ (late \/ p \in unlocked)) /\ Stop(p)
            /\ UNCHANGED events
         \/ /\ connected /\ (late \/ p \in unlocked)
            /\ \/ late /\ Reply(FALSE)
               \/ ~late /\ kind = "review" /\ UNCHANGED up
               \/ /\ ~late /\ kind # "review"
                  /\ \E ok \in {TRUE, kind = "list"} : Reply(ok)
            /\ down' = [down EXCEPT ![p] = Tail(@)]
            /\ UNCHANGED <<worker, req, conn, tab, page, unlocked, cut, lapsed,
                           filled, events>>

ReceiveGone(p) == FromWorker(p, Plain("gone")) /\ Stop(p) /\ UNCHANGED events

-----------------------------------------------------------------------------
\* Steps of a request that end by themselves.
Handler(r) ==
  \/ Target(r) \/ Check(r) \/ Register(r) \/ AskMatches(r)
  \/ IssueGrant(r) \/ AskCredential(r) \/ SendCredential(r) \/ ArmCapture(r)
  \/ Acknowledged(r) \/ Refused(r) \/ ActivateVault(r) \/ VaultActivated(r)
  \/ Propose(r) \/ WaitTimer(r) \/ AcknowledgementTimer(r)
  \/ req[r].kind # "none" /\ SessionMissing(r)

Starts(r) ==
  \/ StartList(r)
  \/ \E t \in Request : StartUse(r, t) \/ StartReview(r, t)
  \/ req[r].kind = "none" /\ SessionMissing(r)

\* What the two ends of a vault port do by themselves.
Port(p) ==
  \/ PortConnected(p) \/ Hello(p) \/ PageLocked(p) \/ PageGone(p)
  \/ \E r \in Request, ok \in BOOLEAN : Answer(p, r, ok)
  \/ StopWhenDue(p) \/ ReceivePaired(p) \/ ReceiveGone(p)
  \/ \E kind \in Kinds, r \in Request : Receive(p, kind, r)

Pair(p) ==
  \/ StartPair(p) \/ PairOpened(p) \/ Connect(p) \/ Dismiss(p) \/ LockVault(p)
  \/ VaultTabGone(p)

Page ==
  \/ TabUpdated(TRUE) \/ TabUpdated(FALSE)
  \/ \E d \in Doc \cup {NoDoc} : Navigate(d)
  \/ \E d \in Doc : ScriptCut(d) \/ FormGone(d) \/ Submit(d)
  \/ \E q \in Request : Connected(q) \/ ScriptGone(q)
  \/ \E w, q \in Request : Submitted(w, q)
  \/ \E r \in Request : Inject(r) \/ ContentMessage(r)

Time ==
  \/ Disconnect \/ SessionTimer \/ PairingTimer
  \/ \E p \in Pairing : SessionLapses(p)
  \/ \E r \in Request : GrantLapses(r) \/ RegistrationTimer(r)
  \/ \E r \in Request, what \in {"capture", "candidate"} : CaptureTimer(what, r)

Next ==
  \/ Page \/ Time
  \/ \E r \in Request : Starts(r) \/ Handler(r)
  \/ \E p \in Pairing : Port(p) \/ Pair(p)

\* Handlers resume, messages arrive, deadlines pass and timers fire; nothing
\* is assumed of the user, the page's scripts or an answer of the page, nor that
\* it lets content.js in: nothing bounds executeScript.
Fairness ==
  /\ \A r \in Request :
       /\ WF_vars(Handler(r)) /\ WF_vars(GrantLapses(r))
       /\ WF_vars(CaptureTimer("candidate", r))
  /\ \A p \in Pairing : WF_vars(Port(p))
  /\ WF_vars(SessionTimer)

Spec == Init /\ [][Next]_vars
FairSpec == Spec /\ Fairness

-----------------------------------------------------------------------------
(* Properties *)

\* What the worker holds is live: without a session (background.ts lock) there
\* is no grant, no request the vault could still answer, no document and no
\* captured login; and an armed watch or a captured login is of a document that
\* is registered still, by the same run of the content script.
LockedIsEmpty ==
  session = 0 => /\ grants = {} /\ pending = {} /\ capture = 0 /\ candidate = 0
                 /\ \A d \in Doc : documents[d] = 0
CaptureIsOfDocument == \A w \in {capture, candidate} \ {0} : Registered(w)
HeldIsLive == LockedIsEmpty /\ CaptureIsOfDocument

\* The worker implements the permissions: the list request that issued a grant
\* names it, it is used while a request that consumed it goes on, and sent while
\* a message with the credential is on its way.  The session is open until its
\* five minutes are over.
Users(t) == {r \in Request : req[r].kind \in {"fill", "watch"} /\ req[r].uses = t}
Using == {"check", "use", "asked", "answered", "send"}
Capability == INSTANCE FillCapability WITH
  Token <- Request, Session <- Pairing,
  open <- IF SessionLive THEN {session} ELSE {},
  status <- [t \in Request |->
               CASE ~ListShown(t) -> "unissued"
                 [] t \in grants -> "held"
                 [] \E r \in Users(t) : req[r].pc \in Using -> "used"
                 [] \E r \in Users(t) : req[r].mail = "fill" -> "sent"
                 [] OTHER -> "spent"],
  target <- [t \in Request |-> IF ListShown(t) THEN {<<req[t].doc, req[t].session>>}
                               ELSE {}],
  given <- [t \in Request |->
              {<<f.doc, f.session>> : f \in {f \in filled : f.token = t}}]
ImplementsCapability == Capability!Spec

\* A popup request ends once, whatever arrives for it later; and once content.js
\* was injected for a list, every request does end, whatever page, vault and user
\* do.  The injection itself has no deadline.
EndsOnce ==
  [][\A r \in Request : req[r].pc \in {"done", "failed"} => req'[r].pc = req[r].pc]_vars
Ends ==
  \A r \in Request : req[r].pc \notin {"none", "target", "inject"} ~> req[r].pc \in Over
RequestsEnd == EndsOnce /\ Ends

\* When the vault of a pairing is locked, or its time is over, its session ends
\* for good; when the worker closes a session, its companion ends as well.
SessionsEndTogether ==
  \A p \in Pairing :
    /\ p \notin unlocked \/ Passed("session", p) ~> [](session # p)
    /\ p \in cut ~> page[p] \in {"tab", "closed"}
=============================================================================
