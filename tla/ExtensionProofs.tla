---------------------------- MODULE ExtensionProofs ----------------------------
(***************************************************************************)
(* Proofs about Extension, for any documents, any number of requests,      *)
(* pairings and events, and any of them under way at once.                 *)
(*                                                                         *)
(* What the worker holds is live because a request that is done never      *)
(* changes: a watch names a list that was shown, and that list's document  *)
(* and registration stay what they were while the registry moves on.       *)
(*                                                                         *)
(* The second half shows that the worker implements FillCapability, with   *)
(* the same invariant and one about sessions: most steps are Quiet, which  *)
(* means that they revoke permissions or close the session at most; the    *)
(* steps that open a session, issue a permission, use it, send the         *)
(* credential and give it are proved one by one.                           *)
(***************************************************************************)
EXTENDS Extension, SequenceTheorems, TLAPS

(* The inductive invariant *)

\* ListShown, of a request q.
Shown(q) == q.kind = "list" /\ q.pc = "done"

\* Where the handler of a request may be, and what it has by then.
Fits(q) ==
  /\ q.kind = "none" => q.pc = "none"
  /\ q.kind = "list" =>
       /\ q.pc \in {"target", "inject", "register", "waiting", "discovering", "found", "asked",
                    "answered", "issue", "refused", "done", "failed"}
       /\ q.pc \notin {"target", "inject", "refused", "failed"} => q.doc \in Doc
       /\ q.pc \notin {"target", "inject", "register", "waiting", "refused", "failed"} => q.reg # 0
  /\ q.kind = "fill" =>
       /\ q.pc \in {"check", "use", "asked", "answered", "send", "acking", "acked",
                    "refused", "done", "failed"}
       /\ q.pc \in {"answered", "send", "acking"} => q.session # 0
  /\ q.kind = "watch" => q.pc \in {"check", "use", "acking", "acked", "refused", "done", "failed"}
  /\ q.kind = "review" => q.pc \in {"check", "activate", "activating", "propose", "done", "failed"}
  /\ q.mail = "discover" => q.kind = "list" /\ q.doc \in Doc
  /\ q.mail = "fill" => q.kind = "fill" /\ q.session # 0
  /\ q.mail = "watch" => q.kind = "watch"

\* The requests of the popup: one that fills or watches was given a list shown.
Requests(rs) ==
  /\ rs \in [Request -> PopupRequest]
  /\ \A r \in Request :
       /\ Fits(rs[r])
       /\ rs[r].kind \in {"fill", "watch"} => rs[r].uses \in Request /\ Shown(rs[rs[r].uses])

WorkerTyped ==
  /\ session \in 0..MaxPairings /\ pairing \in 0..MaxPairings
  /\ opening \subseteq Pairing
  /\ documents \in [Doc -> Number] /\ waiting \in [Doc -> Number]
  /\ grants \subseteq Request /\ pending \subseteq Request
  /\ capture \in Number /\ candidate \in Number

\* The handlers the worker will resume, and the list each thing it holds is of.
WorkerFits ==
  /\ \A r \in pending : At(r, "asked")
  /\ \A d \in Doc : waiting[d] # 0 => At(waiting[d], "waiting") /\ req[waiting[d]].doc = d
  /\ \A t \in grants : ListShown(t)
  /\ \A w \in {capture, candidate} \ {0} : req[w].kind = "watch"

Worker == WorkerTyped /\ WorkerFits /\ LockedIsEmpty /\ CaptureIsOfDocument

TabTyped ==
  /\ shown \in Doc \cup {NoDoc}
  /\ script \in [Doc -> [port : Number, form : Number, watch : Number]]
  /\ conn \in [Request -> {"none", "connecting", "open", "cut", "left"}]
  /\ posted \subseteq Request \X Request

\* A content script is in the document of its request, and none without a port
\* watches a form.
TabFits ==
  /\ \A q \in Request : conn[q] # "none" => req[q].doc \in Doc
  /\ \A d \in Doc : script[d].watch # 0 => script[d].port # 0

PagesTyped ==
  /\ page \in [Pairing -> {"none", "tab", "connecting", "paired", "closed"}]
  /\ unlocked \subseteq Pairing

PortsTyped ==
  /\ cut \subseteq Pairing
  /\ up \in [Pairing -> Seq(Message)] /\ down \in [Pairing -> Seq(Message)]

PastTyped ==
  /\ events \in 0..MaxEvents
  /\ lapsed \subseteq ({"session"} \X Pairing)
       \cup ({"grant", "capture", "candidate"} \X Request)
  /\ filled \subseteq [token : Request, doc : Doc, session : Pairing]

XInv ==
  /\ Requests(req) /\ Worker
  /\ TabTyped /\ TabFits
  /\ PagesTyped /\ PortsTyped /\ PastTyped

-----------------------------------------------------------------------------
(* Requests *)

\* A request that becomes e: it stays what it is, and once shown stays as shown.
Steady(q, e) ==
  /\ q.kind # "none" => e.kind = q.kind /\ e.uses = q.uses
  /\ Shown(q) => e.pc = q.pc /\ e.doc = q.doc /\ e.reg = q.reg
  /\ q.doc \in Doc => e.doc \in Doc

\* A handler that waits for the vault or a registration waits on.
Rests(q, e) == q.pc \in {"asked", "waiting"} => e.pc = q.pc /\ e.doc = q.doc

\* A request under way that goes on.
Advances(q, e) == q.kind # "none" /\ e \in PopupRequest /\ Fits(e) /\ Steady(q, e)

LEMMA Bounds ==
  /\ MaxRequests \in Nat /\ MaxPairings \in Nat /\ MaxEvents \in Nat
  /\ Request = Number \ {0} /\ Request \subseteq Number /\ 0 \in Number /\ 0 \notin Request
  /\ Pairing = (0..MaxPairings) \ {0} /\ Pairing \subseteq 0..MaxPairings
  /\ 0 \in 0..MaxPairings /\ NoDoc \notin Doc
  <1>1. MaxRequests \in Nat /\ MaxPairings \in Nat /\ MaxEvents \in Nat /\ NoDoc \notin Doc
    BY ConstantsAssumption, LenProperties DEF ConstantsAssumption, MaxRequests
  <1> QED
    BY <1>1 DEF Request, Number, Pairing

LEMMA RequestPieces ==
  ASSUME NEW q \in PopupRequest
  PROVE  /\ q = [kind |-> q.kind, pc |-> q.pc, uses |-> q.uses, session |-> q.session,
                 origin |-> q.origin, doc |-> q.doc, reg |-> q.reg, mail |-> q.mail]
         /\ q.kind \in {"none"} \cup Kinds /\ q.uses \in Number
         /\ q.session \in 0..MaxPairings /\ q.doc \in Doc \cup {NoDoc} /\ q.reg \in Number
         /\ q.mail \in {"none", "discover", "fill", "watch"}
  BY DEF PopupRequest

LEMMA RequestsGoOn ==
  ASSUME NEW rs, Requests(rs), NEW ns \in [Request -> PopupRequest],
         \A r \in Request : Fits(ns[r]) /\ Steady(rs[r], ns[r]),
         \A r \in Request : rs[r].kind = "none" /\ ns[r].kind \in {"fill", "watch"}
           => ns[r].uses \in Request /\ Shown(rs[ns[r].uses])
  PROVE  Requests(ns)
  <1>1. ASSUME NEW r \in Request, ns[r].kind \in {"fill", "watch"}
        PROVE  ns[r].uses \in Request /\ Shown(ns[ns[r].uses])
    <2>1. ns[r].uses \in Request /\ Shown(rs[ns[r].uses])
      <3>1. CASE rs[r].kind = "none"
        BY <1>1, <3>1
      <3>2. CASE rs[r].kind # "none"
        BY <1>1, <3>2 DEF Requests, Steady
      <3> QED
        BY <3>1, <3>2
    <2> QED
      BY <2>1 DEF Steady, Shown
  <1> QED
    BY <1>1 DEF Requests

LEMMA OneGoesOn ==
  ASSUME Requests(req), NEW r \in Request, NEW e, Advances(req[r], e),
         req' = [req EXCEPT ![r] = e]
  PROVE  /\ Requests(req)' /\ req'[r] = e /\ \A q \in Request : q # r => req'[q] = req[q]
         /\ \A q \in Request : Steady(req[q], req'[q])
  <1>1. req \in [Request -> PopupRequest] /\ \A q \in Request : Fits(req[q])
    BY DEF Requests
  <1>2. /\ req' \in [Request -> PopupRequest] /\ req'[r] = e
        /\ \A q \in Request : q # r => req'[q] = req[q]
    BY <1>1 DEF Advances
  <1>3. \A q \in Request : Fits(req'[q]) /\ Steady(req[q], req'[q])
    BY <1>1, <1>2 DEF Advances, Steady, Shown
  <1>4. Requests(req)'
    <2>1. req'[r].kind = req[r].kind
      BY <1>2 DEF Advances, Steady
    <2>2. PICK rs, ns : rs = req /\ ns = req'
      OBVIOUS
    <2>3. Requests(ns)
      BY <1>2, <1>3, <2>1, <2>2, RequestsGoOn DEF Advances
    <2> QED
      BY <2>2, <2>3 DEF Requests
  <1> QED
    BY <1>2, <1>3, <1>4

\* A request that ends without a result.
LEMMA EndedFits ==
  ASSUME NEW rs, Requests(rs), NEW r \in Request, rs[r].kind # "none", ~Shown(rs[r])
  PROVE  /\ Advances(rs[r], Ended(rs, r)[r]) /\ Ended(rs, r)[r].pc = "failed"
         /\ Ended(rs, r)[r].session = 0 /\ Ended(rs, r)[r].mail # "fill"
         /\ Ended(rs, r) = [rs EXCEPT ![r] = Ended(rs, r)[r]]
  <1> DEFINE mail == IF rs[r].mail = "watch" THEN rs[r].mail ELSE "none"
             e == [rs[r] EXCEPT !.pc = "failed", !.session = 0, !.origin = NoOrigin,
                                !.reg = 0, !.mail = mail]
  <1>1. rs \in [Request -> PopupRequest] /\ rs[r] \in PopupRequest /\ Fits(rs[r])
    BY DEF Requests
  <1>2. Ended(rs, r) = [rs EXCEPT ![r] = e]
    BY DEF Ended
  <1>3. Ended(rs, r)[r] = e
    <2> HIDE DEF e
    <2> QED
      BY <1>1, <1>2
  <1>4. /\ e \in PopupRequest /\ e.pc = "failed" /\ e.kind = rs[r].kind
        /\ e.uses = rs[r].uses /\ e.doc = rs[r].doc /\ e.session = 0 /\ e.mail = mail
        /\ mail # "fill"
    <2>1. mail \in {"none", "discover", "fill", "watch"} /\ mail # "fill"
      OBVIOUS
    <2> HIDE DEF mail
    <2> QED
      BY <1>1, <2>1, Bounds DEF PopupRequest, Over
  <1> HIDE DEF e
  <1>5. Fits(e) /\ Steady(rs[r], e)
    BY <1>1, <1>4, RequestPieces DEF Fits, Steady, Shown, Kinds
  <1> QED
    BY <1>2, <1>3, <1>4, <1>5 DEF Advances

-----------------------------------------------------------------------------
(* What the worker holds *)

LEMMA ListOfWatch ==
  ASSUME NEW w, req[w].kind \in {"fill", "watch"}
  PROVE  ListOf(w) = req[w].uses /\ Bound(w) = req[req[w].uses]
  BY DEF ListOf, Bound

\* A watch stays of its document where the registry does.
LEMMA WatchStays ==
  ASSUME Requests(req), \A q \in Request : Steady(req[q], req'[q]),
         NEW w \in Request, req[w].kind = "watch", Registered(w),
         documents'[Bound(w).doc] = documents[Bound(w).doc]
  PROVE  req'[w].kind = "watch" /\ Registered(w)'
  <1>1. PICK t : t = req[w].uses
    OBVIOUS
  <1>2. t \in Request /\ Shown(req[t]) /\ Bound(w) = req[t]
    BY <1>1, ListOfWatch DEF Requests
  <1>3. req'[w].kind = "watch" /\ req'[w].uses = t
    BY <1>1 DEF Steady
  <1>4. req'[t].doc = req[t].doc /\ req'[t].reg = req[t].reg
    BY <1>2 DEF Steady
  <1>5. Bound(w)' = req'[t]
    <2>1. ListOf(w)' = t
      BY <1>3 DEF ListOf
    <2> QED
      BY <2>1 DEF Bound
  <1>6. documents'[req'[t].doc] = req'[t].reg
    BY <1>2, <1>4 DEF Registered
  <1> QED
    BY <1>3, <1>5, <1>6 DEF Registered

\* And names a registration of a document.
LEMMA WatchOf ==
  ASSUME Requests(req), NEW w \in Request, req[w].kind = "watch"
  PROVE  Bound(w).doc \in Doc /\ Bound(w).reg \in Request
  <1>1. PICK t : t = req[w].uses
    OBVIOUS
  <1>2. t \in Request /\ Shown(req[t]) /\ Bound(w) = req[t]
    BY <1>1, ListOfWatch DEF Requests
  <1>3. req[t] \in PopupRequest /\ Fits(req[t])
    BY <1>2 DEF Requests
  <1>4. req[t].doc \in Doc /\ req[t].reg # 0 /\ req[t].reg \in Number
    BY <1>2, <1>3, RequestPieces DEF Fits, Shown
  <1> QED
    BY <1>2, <1>4, Bounds

\* What the worker held, it may drop.
Shrinks ==
  /\ UNCHANGED <<session, documents>>
  /\ pairing' \in 0..MaxPairings /\ opening' \subseteq Pairing
  /\ grants' \subseteq grants /\ pending' \subseteq pending
  /\ capture' \in {0, capture} /\ candidate' \in {0, candidate}
  /\ waiting' \in [Doc -> Number] /\ \A d \in Doc : waiting'[d] \in {0, waiting[d]}

\* What it keeps is of the requests still.
LEMMA HeldStays ==
  ASSUME Requests(req), Worker, \A q \in Request : Steady(req[q], req'[q])
  PROVE  /\ \A r \in pending : Rests(req[r], req'[r]) => req'[r].pc = "asked"
         /\ \A d \in Doc : waiting[d] # 0 =>
              LET r == waiting[d] IN
                r \in Request /\ (Rests(req[r], req'[r]) => req'[r].pc = "waiting" /\ req'[r].doc = d)
         /\ \A t \in grants : req'[t].kind = "list" /\ req'[t].pc = "done"
         /\ documents' = documents =>
              \A w \in {capture, candidate} \ {0} : req'[w].kind = "watch" /\ Registered(w)'
  <1>1. WorkerTyped /\ WorkerFits /\ CaptureIsOfDocument
    BY DEF Worker
  <1>2. \A r \in pending : Rests(req[r], req'[r]) => req'[r].pc = "asked"
    BY <1>1 DEF WorkerFits, At, Rests
  <1>3. ASSUME NEW d \in Doc, waiting[d] # 0, NEW r, r = waiting[d]
        PROVE  r \in Request /\ (Rests(req[r], req'[r]) => req'[r].pc = "waiting" /\ req'[r].doc = d)
    BY <1>1, <1>3, Bounds DEF WorkerTyped, WorkerFits, At, Rests
  <1>4. \A t \in grants : req'[t].kind = "list" /\ req'[t].pc = "done"
    BY <1>1 DEF WorkerTyped, WorkerFits, ListShown, At, Steady, Shown
  <1>5. ASSUME documents' = documents, NEW w \in {capture, candidate} \ {0}
        PROVE  req'[w].kind = "watch" /\ Registered(w)'
    BY <1>1, <1>5, WatchStays, Bounds DEF WorkerTyped, WorkerFits, CaptureIsOfDocument
  <1> QED
    BY <1>2, <1>3, <1>4, <1>5

LEMMA WorkerShrinks ==
  ASSUME Requests(req), Worker, Shrinks, \A q \in Request : Steady(req[q], req'[q]),
         \A q \in Request : q \in pending' \/ (\E d \in Doc : waiting'[d] = q)
                              => Rests(req[q], req'[q])
  PROVE  Worker'
  <1>1. WorkerTyped /\ LockedIsEmpty
    BY DEF Worker
  <1>2. WorkerTyped'
    BY <1>1, Bounds DEF WorkerTyped, Shrinks
  <1>3. WorkerFits' /\ CaptureIsOfDocument'
    <2>1. ASSUME NEW r \in pending' PROVE At(r, "asked")'
      BY <1>1, <2>1, HeldStays DEF WorkerTyped, Shrinks, At
    <2>2. ASSUME NEW d \in Doc, waiting'[d] # 0
          PROVE  At(waiting[d], "waiting")' /\ req'[waiting'[d]].doc = d
      <3>1. waiting'[d] = waiting[d]
        BY <2>2 DEF Shrinks
      <3> QED
        BY <2>2, <3>1, HeldStays DEF At
    <2>3. ASSUME NEW t \in grants' PROVE ListShown(t)'
      BY <2>3, HeldStays DEF Shrinks, ListShown, At
    <2>4. ASSUME NEW w \in {capture', candidate'} \ {0}
          PROVE  req'[w].kind = "watch" /\ Registered(w)'
      BY <2>4, HeldStays DEF Shrinks
    <2> QED
      BY <2>1, <2>2, <2>3, <2>4 DEF WorkerFits, CaptureIsOfDocument
  <1>4. LockedIsEmpty'
    BY <1>1, <1>2 DEF LockedIsEmpty, Shrinks, WorkerTyped
  <1> QED
    BY <1>2, <1>3, <1>4 DEF Worker

\* A registration goes, and what was captured of it.
LEMMA CaptureGoes ==
  ASSUME Requests(req), Worker, NEW regs, CaptureGoesWith(regs),
         \A q \in Request : Steady(req[q], req'[q]),
         \A d \in Doc : documents[d] # 0 /\ documents'[d] # documents[d] => documents[d] \in regs
  PROVE  /\ capture' \in {0, capture} /\ candidate' \in {0, candidate}
         /\ \A w \in {capture', candidate'} \ {0} : req'[w].kind = "watch" /\ Registered(w)'
  <1>1. capture' \in {0, capture} /\ candidate' \in {0, candidate}
    BY DEF CaptureGoesWith
  <1>2. ASSUME NEW w \in {capture', candidate'} \ {0}
        PROVE  req'[w].kind = "watch" /\ Registered(w)'
    <2>1. w \in {capture, candidate} \ {0} /\ Bound(w).reg \notin regs
      BY <1>2 DEF CaptureGoesWith
    <2>2. w \in Request /\ req[w].kind = "watch" /\ Registered(w)
      BY <2>1, Bounds DEF Worker, WorkerTyped, WorkerFits, CaptureIsOfDocument
    <2>3. Bound(w).doc \in Doc /\ documents[Bound(w).doc] = Bound(w).reg /\ Bound(w).reg # 0
      BY <2>2, WatchOf, Bounds DEF Registered
    <2>4. documents'[Bound(w).doc] = documents[Bound(w).doc]
      BY <2>1, <2>3
    <2> QED
      BY <2>2, <2>4, WatchStays
  <1> QED
    BY <1>1, <1>2

-----------------------------------------------------------------------------
(* Handlers that keep to their request *)

LEMMA TabStays ==
  ASSUME TabTyped, TabFits, UNCHANGED <<conn, tab>>,
         \A q \in Request : Steady(req[q], req'[q])
  PROVE  TabTyped' /\ TabFits'
  BY DEF TabTyped, TabFits, tab, Steady

LEMMA PortsStay ==
  ASSUME PagesTyped, PortsTyped, UNCHANGED ports
  PROVE  PagesTyped' /\ PortsTyped'
  BY DEF PagesTyped, PortsTyped, ports

LEMMA PastStays == ASSUME PastTyped, UNCHANGED past PROVE PastTyped'
  BY DEF PastTyped, past, history

\* A handler resumes for request r, which becomes e.
LEMMA Resumes ==
  ASSUME XInv, NEW r \in Request, NEW e, Advances(req[r], e), Rests(req[r], e),
         req' = [req EXCEPT ![r] = e], Shrinks, UNCHANGED <<conn, tab, ports, past>>
  PROVE  XInv'
  <1>1. Requests(req) /\ Worker /\ TabTyped /\ TabFits /\ PagesTyped /\ PortsTyped /\ PastTyped
    BY DEF XInv
  <1>2. /\ Requests(req)' /\ req'[r] = e /\ \A q \in Request : q # r => req'[q] = req[q]
        /\ \A q \in Request : Steady(req[q], req'[q])
    BY <1>1, OneGoesOn
  <1>3. \A q \in Request : Rests(req[q], req'[q])
    BY <1>2 DEF Rests
  <1>4. Worker'
    BY <1>1, <1>2, <1>3, WorkerShrinks
  <1>5. TabTyped' /\ TabFits' /\ PagesTyped' /\ PortsTyped' /\ PastTyped'
    BY <1>1, <1>2, TabStays, PortsStay, PastStays
  <1> QED
    BY <1>2, <1>4, <1>5 DEF XInv

\* Nothing but the worker's own state, which shrinks.
LEMMA WorkerIs == ASSUME XInv, UNCHANGED worker PROVE Shrinks
  BY DEF XInv, Worker, WorkerTyped, Shrinks, worker, link, registry, captured

\* A request under way that gets to another point, with the mail it sends.
LEMMA MovedFits ==
  ASSUME XInv, NEW r \in Request, req[r].pc \notin {"none", "asked", "waiting", "done"},
         NEW pc, NEW e, e = [req[r] EXCEPT !.pc = pc],
         e \in PopupRequest => Fits(e),
         pc \in {"issue", "send", "use", "activate", "activating", "propose", "done",
                 "asked", "waiting", "acking"}
  PROVE  /\ Advances(req[r], e) /\ Rests(req[r], e)
  <1>1. req[r] \in PopupRequest /\ Fits(req[r])
    BY DEF XInv, Requests
  <1>2. e \in PopupRequest
    BY <1>1 DEF PopupRequest, Over
  <1>3. req[r].kind # "none"
    BY <1>1 DEF Fits
  <1>4. e.kind = req[r].kind /\ e.uses = req[r].uses /\ e.doc = req[r].doc
    BY <1>1 DEF PopupRequest
  <1> QED
    BY <1>2, <1>3, <1>4 DEF Advances, Steady, Rests, Shown

LEMMA FailsKeeps ==
  ASSUME XInv, NEW r \in Request, Fails(r),
         req[r].pc \notin {"none", "asked", "waiting", "done"}
  PROVE  XInv'
  <1>1. /\ Requests(req) /\ Fits(req[r]) /\ WorkerTyped
    BY DEF XInv, Requests, Worker
  <1>2. PICK e : e = Ended(req, r)[r]
    OBVIOUS
  <1>3. Advances(req[r], e) /\ req' = [req EXCEPT ![r] = e]
    BY <1>1, <1>2, EndedFits DEF Fails, Fits, Shown
  <1>4. Rests(req[r], e)
    BY DEF Rests
  <1>5. Shrinks /\ UNCHANGED <<conn, tab, ports, past>>
    BY <1>1 DEF Fails, Shrinks, WorkerTyped, link, registry
  <1> QED
    BY <1>3, <1>4, <1>5, Resumes

LEMMA GoesKeeps ==
  ASSUME XInv, NEW r \in Request, NEW pc, Goes(r, pc),
         req[r].pc \notin {"none", "asked", "waiting", "done"},
         [req[r] EXCEPT !.pc = pc] \in PopupRequest => Fits([req[r] EXCEPT !.pc = pc]),
         pc \in {"issue", "send", "use", "activate", "activating", "propose", "done"}
  PROVE  XInv'
  <1>1. PICK e : e = [req[r] EXCEPT !.pc = pc]
    OBVIOUS
  <1>2. Advances(req[r], e) /\ Rests(req[r], e)
    BY <1>1, MovedFits
  <1>3. req' = [req EXCEPT ![r] = e] /\ Shrinks /\ UNCHANGED <<conn, tab, ports, past>>
    BY <1>1, WorkerIs DEF Goes, Moved
  <1> QED
    BY <1>2, <1>3, Resumes

LEMMA CheckKeeps == ASSUME XInv, NEW r \in Request, Check(r) PROVE XInv'
  <1>1. req[r].pc \in {"check", "answered"} /\ Fits(req[r]) /\ req[r] \in PopupRequest
    BY DEF Check, XInv, Requests
  <1>2. CASE Fails(r)
    BY <1>1, <1>2, FailsKeeps
  <1>3. CASE ~Fails(r)
    <2>1. PICK pc : /\ Goes(r, pc) /\ pc \in {"issue", "activate", "send", "use"}
                    /\ pc = "issue" => req[r].kind = "list"
                    /\ pc = "activate" => req[r].kind = "review"
                    /\ pc = "send" => At(r, "answered") /\ req[r].kind \notin {"list", "review"}
                    /\ pc = "use" => At(r, "check") /\ req[r].kind \notin {"list", "review"}
      <3>1. CASE req[r].kind = "list"
        <4>1. Goes(r, "issue")
          BY <1>3, <3>1 DEF Check
        <4> QED
          BY <3>1, <4>1
      <3>2. CASE req[r].kind = "review"
        <4>1. Goes(r, "activate")
          BY <1>3, <3>2 DEF Check
        <4> QED
          BY <3>2, <4>1
      <3>3. CASE req[r].kind = "fill" /\ At(r, "answered")
        BY <1>3, <3>3 DEF Check
      <3>4. CASE req[r].kind \notin {"list", "review"} /\ ~At(r, "answered")
        BY <1>1, <1>3, <3>4 DEF Check, At
      <3> QED
        BY <1>1, <3>1, <3>2, <3>3, <3>4, RequestPieces DEF Fits, Kinds, At
    <2>2. PICK e : e = [req[r] EXCEPT !.pc = pc]
      OBVIOUS
    <2>3. /\ e.kind = req[r].kind /\ e.pc = pc /\ e.doc = req[r].doc /\ e.reg = req[r].reg
          /\ e.session = req[r].session /\ e.mail = req[r].mail
      BY <1>1, <2>2 DEF PopupRequest
    <2>4. Fits(e)
      BY <1>1, <2>1, <2>3, RequestPieces DEF Fits, At, Kinds
    <2> QED
      BY <1>1, <2>1, <2>2, <2>4, GoesKeeps
  <1> QED
    BY <1>2, <1>3

\* The tab of a list is known.
LEMMA TargetKeeps == ASSUME XInv, NEW r \in Request, Target(r) PROVE XInv'
  <1>1. req[r].pc = "target" /\ Fits(req[r]) /\ req[r] \in PopupRequest /\ shown \in Doc \cup {NoDoc}
        /\ req \in [Request -> PopupRequest]
    BY DEF Target, At, XInv, Requests, TabTyped
  <1>2. CASE Fails(r)
    BY <1>1, <1>2, FailsKeeps
  <1>3. CASE ~Fails(r)
    <2>1. /\ shown # NoDoc /\ UNCHANGED <<worker, conn, tab, ports, past>>
          /\ req' = [Moved(req, r, "inject") EXCEPT ![r].origin = OriginOf[shown]]
      BY <1>3 DEF Target
    <2>2. PICK e : e = [req[r] EXCEPT !.pc = "inject", !.origin = OriginOf[shown]]
      OBVIOUS
    <2>3. /\ e \in PopupRequest /\ e.pc = "inject" /\ e.kind = req[r].kind /\ e.uses = req[r].uses
          /\ e.doc = req[r].doc /\ e.mail = req[r].mail /\ req[r].kind = "list"
      <3>1. OriginOf[shown] \in {OriginOf[d] : d \in Doc}
        BY <1>1, <2>1
      <3>2. /\ e \in PopupRequest /\ e.pc = "inject" /\ e.kind = req[r].kind
            /\ e.uses = req[r].uses /\ e.doc = req[r].doc /\ e.mail = req[r].mail
        BY <1>1, <2>2, <3>1 DEF PopupRequest
      <3>3. req[r].kind = "list"
        BY <1>1, RequestPieces DEF Fits, Kinds
      <3> QED
        BY <3>2, <3>3
    <2>4. Fits(e)
      BY <1>1, <2>3 DEF Fits
    <2>5. Advances(req[r], e) /\ Rests(req[r], e)
      BY <1>1, <2>3, <2>4 DEF Advances, Steady, Shown, Rests
    <2>6. req' = [req EXCEPT ![r] = e]
      BY <1>1, <2>1, <2>2 DEF Moved
    <2> QED
      BY <2>1, <2>5, <2>6, WorkerIs, Resumes
  <1> QED
    BY <1>2, <1>3

\* Sending a message to the page.
LEMMA MailFits ==
  ASSUME XInv, NEW r \in Request, NEW mail \in {"fill", "watch"}, req[r].kind = mail,
         req[r].pc = IF mail = "fill" THEN "send" ELSE "use",
         NEW e, e = [req[r] EXCEPT !.pc = "acking", !.mail = mail]
  PROVE  /\ Advances(req[r], e) /\ Rests(req[r], e)
         /\ [Moved(req, r, "acking") EXCEPT ![r].mail = mail] = [req EXCEPT ![r] = e]
  <1>1. req \in [Request -> PopupRequest] /\ req[r] \in PopupRequest /\ Fits(req[r])
    BY DEF XInv, Requests
  <1>2. /\ e \in PopupRequest /\ e.pc = "acking" /\ e.mail = mail /\ e.kind = req[r].kind
        /\ e.uses = req[r].uses /\ e.doc = req[r].doc /\ e.session = req[r].session
    BY <1>1 DEF PopupRequest
  <1>3. Fits(e)
    BY <1>1, <1>2 DEF Fits
  <1>4. Advances(req[r], e) /\ Rests(req[r], e)
    BY <1>2, <1>3 DEF Advances, Steady, Rests, Shown
  <1>5. [Moved(req, r, "acking") EXCEPT ![r].mail = mail] = [req EXCEPT ![r] = e]
    BY <1>1 DEF Moved
  <1> QED
    BY <1>4, <1>5

LEMMA SendCredentialKeeps == ASSUME XInv, NEW r \in Request, SendCredential(r) PROVE XInv'
  <1>1. req[r].pc = "send" /\ Fits(req[r]) /\ req[r] \in PopupRequest
    BY DEF SendCredential, At, XInv, Requests
  <1>2. CASE Fails(r)
    BY <1>1, <1>2, FailsKeeps
  <1>3. CASE ~Fails(r)
    <2>1. /\ req' = [Moved(req, r, "acking") EXCEPT ![r].mail = "fill"]
          /\ UNCHANGED <<worker, conn, tab, ports, past>>
      BY <1>3 DEF SendCredential
    <2>2. req[r].kind = "fill"
      BY <1>1, RequestPieces DEF Fits, Kinds
    <2>3. PICK e : e = [req[r] EXCEPT !.pc = "acking", !.mail = "fill"]
      OBVIOUS
    <2>4. Advances(req[r], e) /\ Rests(req[r], e) /\ req' = [req EXCEPT ![r] = e]
      BY <1>1, <2>1, <2>2, <2>3, MailFits
    <2> QED
      BY <2>1, <2>4, WorkerIs, Resumes
  <1> QED
    BY <1>2, <1>3

LEMMA EndsKeep ==
  ASSUME XInv, NEW r \in Request,
         Acknowledged(r) \/ Refused(r) \/ AcknowledgementTimer(r) \/ ActivateVault(r)
           \/ VaultActivated(r)
  PROVE  XInv'
  <1>1. /\ req[r].pc \in {"acked", "refused", "acking", "activate", "activating"}
        /\ Fits(req[r]) /\ req[r] \in PopupRequest
    BY DEF Acknowledged, Refused, AcknowledgementTimer, ActivateVault, VaultActivated, At, XInv,
       Requests
  <1>2. CASE Fails(r)
    BY <1>1, <1>2, FailsKeeps
  <1>3. CASE ~Fails(r)
    <2>1. PICK pc : /\ Goes(r, pc)
                    /\ <<req[r].pc, pc>> \in {<<"acked", "done">>, <<"activate", "activating">>,
                                             <<"activating", "propose">>}
      <3>1. CASE Goes(r, "done") /\ Acknowledged(r)
        BY <3>1 DEF Acknowledged, At
      <3>2. CASE Goes(r, "activating") /\ ActivateVault(r)
        BY <3>2 DEF ActivateVault, At
      <3>3. CASE Goes(r, "propose") /\ VaultActivated(r)
        BY <3>3 DEF VaultActivated, At
      <3> QED
        BY <1>3, <3>1, <3>2, <3>3
        DEF Acknowledged, Refused, AcknowledgementTimer, ActivateVault, VaultActivated
    <2>2. PICK e : e = [req[r] EXCEPT !.pc = pc]
      OBVIOUS
    <2>3. /\ e.kind = req[r].kind /\ e.pc = pc /\ e.doc = req[r].doc /\ e.reg = req[r].reg
          /\ e.session = req[r].session /\ e.mail = req[r].mail
      BY <1>1, <2>2 DEF PopupRequest
    <2>4. Fits(e)
      BY <1>1, <2>1, <2>3, RequestPieces DEF Fits, Kinds
    <2> QED
      BY <1>1, <2>1, <2>2, <2>4, GoesKeeps
  <1> QED
    BY <1>2, <1>3

-----------------------------------------------------------------------------
(* Handlers by which the worker comes to hold something *)

LEMMA MessagesTyped ==
  ASSUME NEW f \in [Pairing -> Seq(Message)], NEW p \in Pairing
  PROVE  /\ \A m \in Message : [f EXCEPT ![p] = Append(@, m)] \in [Pairing -> Seq(Message)]
         /\ f[p] # <<>> => [f EXCEPT ![p] = Tail(@)] \in [Pairing -> Seq(Message)]
         /\ \A s \in Seq(Message) : /\ [f EXCEPT ![p] = s] \in [Pairing -> Seq(Message)]
                                    /\ [f EXCEPT ![p] = @ \o s] \in [Pairing -> Seq(Message)]
  <1>1. f[p] \in Seq(Message)
    OBVIOUS
  <1>2. \A m \in Message : Append(f[p], m) \in Seq(Message)
    BY <1>1
  <1>3. f[p] # <<>> => Tail(f[p]) \in Seq(Message)
    BY <1>1
  <1>4. \A s \in Seq(Message) : f[p] \o s \in Seq(Message)
    BY <1>1
  <1> HIDE DEF Message
  <1> QED
    BY <1>2, <1>3, <1>4

LEMMA AMessage ==
  /\ \A type \in {"connect", "hello", "paired", "locked", "gone"} : Plain(type) \in Message
  /\ \A kind \in {"answer"} \cup Kinds, r \in Number, ok \in BOOLEAN : About(kind, r, ok) \in Message
  BY Bounds DEF Plain, About, Message

\* A handler resumes for request r, which becomes e, and the worker holds more.
LEMMA Onward ==
  ASSUME XInv, NEW r \in Request, NEW e, Advances(req[r], e), req' = [req EXCEPT ![r] = e],
         Worker', UNCHANGED <<conn, tab, past>>, PagesTyped', PortsTyped'
  PROVE  XInv'
  <1>1. Requests(req) /\ TabTyped /\ TabFits /\ PastTyped
    BY DEF XInv
  <1>2. Requests(req)' /\ \A q \in Request : Steady(req[q], req'[q])
    BY <1>1, OneGoesOn
  <1>3. TabTyped' /\ TabFits' /\ PastTyped'
    BY <1>1, <1>2, TabStays, PastStays
  <1> QED
    BY <1>2, <1>3 DEF XInv

LEMMA LiveIsPairing == ASSUME Worker, SessionLive PROVE session \in Pairing /\ session # 0
  BY Bounds DEF Worker, WorkerTyped, SessionLive

\* The vault is asked about the forms found, or for a credential.
LEMMA AskKeeps == ASSUME XInv, NEW r \in Request, AskMatches(r) \/ AskCredential(r) PROVE XInv'
  <1>1. /\ req[r].pc \in {"found", "use"} /\ (req[r].pc = "use" => req[r].kind = "fill")
        /\ Requests(req) /\ Fits(req[r]) /\ req[r] \in PopupRequest
        /\ Worker /\ WorkerTyped /\ WorkerFits /\ PagesTyped /\ PortsTyped
    BY DEF AskMatches, AskCredential, At, XInv, Requests, Worker
  <1>2. CASE Fails(r)
    BY <1>1, <1>2, FailsKeeps
  <1>3. CASE ~Fails(r)
    <2>1. SessionLive /\ Ask(r)
      BY <1>3 DEF AskMatches, AskCredential
    <2>2. /\ UNCHANGED <<session, pairing, opening, documents, waiting, grants, capture, candidate>>
          /\ UNCHANGED <<conn, tab, page, unlocked, up, cut, past>>
          /\ pending' = pending \cup {r} /\ req' = Moved(req, r, "asked")
          /\ down' = [down EXCEPT ![session] = Append(@, About(req[r].kind, r, TRUE))]
      BY <2>1 DEF Ask, link, registry, captured
    <2>3. PICK e : e = [req[r] EXCEPT !.pc = "asked"]
      OBVIOUS
    <2>4. /\ e.kind = req[r].kind /\ e.pc = "asked" /\ e.doc = req[r].doc /\ e.reg = req[r].reg
          /\ e.session = req[r].session /\ e.mail = req[r].mail
          /\ req[r].kind \in {"list", "fill"}
      BY <1>1, <2>3, RequestPieces DEF PopupRequest, Fits, Kinds
    <2>5. Fits(e)
      BY <1>1, <2>4 DEF Fits
    <2>6. Advances(req[r], e) /\ req' = [req EXCEPT ![r] = e]
      BY <1>1, <2>2, <2>3, <2>5, MovedFits DEF Moved
    <2>7. /\ \A q \in Request : Steady(req[q], req'[q]) /\ req'[r] = e
          /\ \A q \in Request : Rests(req[q], req'[q])
      BY <1>1, <2>6, OneGoesOn DEF Rests
    <2>8. Worker'
      <3>1. session \in Pairing /\ session # 0
        BY <1>1, <2>1, LiveIsPairing
      <3>2. WorkerTyped' /\ LockedIsEmpty'
        BY <1>1, <2>2, <3>1 DEF WorkerTyped, LockedIsEmpty
      <3>3. WorkerFits' /\ CaptureIsOfDocument'
        BY <1>1, <2>2, <2>4, <2>7, HeldStays
        DEF WorkerFits, WorkerTyped, CaptureIsOfDocument, At, ListShown
      <3> QED
        BY <3>2, <3>3 DEF Worker
    <2>9. PagesTyped' /\ PortsTyped'
      <3>1. session \in Pairing /\ About(req[r].kind, r, TRUE) \in Message
        BY <1>1, <2>1, <2>4, AMessage, LiveIsPairing, Bounds DEF Kinds
      <3> QED
        BY <1>1, <2>2, <3>1, MessagesTyped DEF PagesTyped, PortsTyped
    <2> QED
      BY <2>2, <2>6, <2>8, <2>9, Onward
  <1> QED
    BY <1>2, <1>3

LEMMA IssueGrantKeeps == ASSUME XInv, NEW r \in Request, IssueGrant(r) PROVE XInv'
  <1>1. /\ req[r].pc = "issue" /\ Requests(req) /\ Fits(req[r]) /\ req[r] \in PopupRequest
        /\ Worker /\ WorkerTyped /\ WorkerFits /\ PagesTyped /\ PortsTyped
    BY DEF IssueGrant, At, XInv, Requests, Worker
  <1>2. CASE Fails(r)
    BY <1>1, <1>2, FailsKeeps
  <1>3. CASE ~Fails(r)
    <2>1. /\ UNCHANGED <<session, pairing, opening, documents, waiting, capture, candidate, pending>>
          /\ UNCHANGED <<conn, tab, ports, past>>
          /\ grants' = grants \cup {r} /\ req' = Moved(req, r, "done") /\ SessionLive
      BY <1>3 DEF IssueGrant, link, registry, captured
    <2>2. PICK e : e = [req[r] EXCEPT !.pc = "done"]
      OBVIOUS
    <2>3. /\ e.kind = req[r].kind /\ e.pc = "done" /\ e.doc = req[r].doc /\ e.reg = req[r].reg
          /\ e.session = req[r].session /\ e.mail = req[r].mail /\ req[r].kind = "list"
      BY <1>1, <2>2, RequestPieces DEF PopupRequest, Fits, Kinds
    <2>4. Fits(e)
      BY <1>1, <2>3 DEF Fits
    <2>5. Advances(req[r], e) /\ req' = [req EXCEPT ![r] = e]
      BY <1>1, <2>1, <2>2, <2>4, MovedFits DEF Moved
    <2>6. /\ \A q \in Request : Steady(req[q], req'[q]) /\ req'[r] = e
          /\ \A q \in Request : Rests(req[q], req'[q])
      BY <1>1, <2>5, OneGoesOn DEF Rests
    <2>7. Worker'
      <3>1. session # 0
        BY <1>1, <2>1, LiveIsPairing
      <3>2. WorkerTyped' /\ LockedIsEmpty'
        BY <1>1, <2>1, <3>1 DEF WorkerTyped, LockedIsEmpty
      <3>3. WorkerFits' /\ CaptureIsOfDocument'
        BY <1>1, <2>1, <2>3, <2>6, HeldStays
        DEF WorkerFits, WorkerTyped, CaptureIsOfDocument, At, ListShown
      <3> QED
        BY <3>2, <3>3 DEF Worker
    <2> QED
      BY <1>1, <2>1, <2>5, <2>7, PortsStay, Onward
  <1> QED
    BY <1>2, <1>3

LEMMA ArmCaptureKeeps == ASSUME XInv, NEW r \in Request, ArmCapture(r) PROVE XInv'
  <1>1. /\ req[r].pc = "use" /\ req[r].kind = "watch" /\ Requests(req)
        /\ Worker /\ WorkerTyped /\ WorkerFits /\ PagesTyped /\ PortsTyped
    BY DEF ArmCapture, At, XInv, Worker
  <1>2. CASE Fails(r)
    BY <1>1, <1>2, FailsKeeps
  <1>3. CASE ~Fails(r)
    <2>1. /\ UNCHANGED <<session, pairing, opening, documents, waiting, grants, pending>>
          /\ UNCHANGED <<conn, tab, ports, past>>
          /\ capture' = r /\ candidate' = 0 /\ SessionLive /\ Registered(r)
          /\ req' = [Moved(req, r, "acking") EXCEPT ![r].mail = "watch"]
      BY <1>3 DEF ArmCapture, link, registry
    <2>2. PICK e : e = [req[r] EXCEPT !.pc = "acking", !.mail = "watch"]
      OBVIOUS
    <2>3. Advances(req[r], e) /\ req' = [req EXCEPT ![r] = e]
      BY <1>1, <2>1, <2>2, MailFits
    <2>4. /\ \A q \in Request : Steady(req[q], req'[q])
          /\ \A q \in Request : Rests(req[q], req'[q])
      BY <1>1, <2>3, OneGoesOn DEF Rests
    <2>5. Worker'
      <3>1. session # 0 /\ r # 0
        BY <1>1, <2>1, LiveIsPairing, Bounds
      <3>2. WorkerTyped' /\ LockedIsEmpty'
        BY <1>1, <2>1, <3>1, Bounds DEF WorkerTyped, LockedIsEmpty
      <3>3. req'[r].kind = "watch" /\ Registered(r)'
        BY <1>1, <2>1, <2>4, WatchStays
      <3>4. WorkerFits' /\ CaptureIsOfDocument'
        BY <1>1, <2>1, <2>4, <3>3, HeldStays
        DEF WorkerFits, WorkerTyped, CaptureIsOfDocument, At, ListShown
      <3> QED
        BY <3>2, <3>4 DEF Worker
    <2> QED
      BY <1>1, <2>1, <2>3, <2>5, PortsStay, Onward
  <1> QED
    BY <1>2, <1>3

LEMMA ProposeKeeps == ASSUME XInv, NEW r \in Request, Propose(r) PROVE XInv'
  <1>1. /\ req[r].pc = "propose" /\ Requests(req) /\ Fits(req[r]) /\ req[r] \in PopupRequest
        /\ Worker /\ PagesTyped /\ PortsTyped
    BY DEF Propose, At, XInv, Requests
  <1>2. CASE Fails(r)
    BY <1>1, <1>2, FailsKeeps
  <1>3. CASE ~Fails(r)
    <2>1. /\ UNCHANGED <<link, registry, grants, capture, pending>> /\ candidate' = 0
          /\ UNCHANGED <<conn, tab, page, unlocked, up, cut, past>>
          /\ req' = Moved(req, r, "done") /\ SessionLive
          /\ down' = [down EXCEPT ![session] = Append(@, About("review", req[r].uses, TRUE))]
      BY <1>3 DEF Propose
    <2>2. PICK e : e = [req[r] EXCEPT !.pc = "done"]
      OBVIOUS
    <2>3. /\ e.kind = req[r].kind /\ e.pc = "done" /\ e.doc = req[r].doc /\ e.reg = req[r].reg
          /\ e.session = req[r].session /\ e.mail = req[r].mail /\ req[r].kind = "review"
      BY <1>1, <2>2, RequestPieces DEF PopupRequest, Fits, Kinds
    <2>4. Fits(e)
      BY <1>1, <2>3 DEF Fits
    <2>5. Advances(req[r], e) /\ Rests(req[r], e) /\ req' = [req EXCEPT ![r] = e]
      BY <1>1, <2>1, <2>2, <2>4, MovedFits DEF Moved
    <2>6. Worker'
      <3>1. Shrinks
        BY <1>1, <2>1 DEF Worker, WorkerTyped, Shrinks, link, registry
      <3>2. /\ \A q \in Request : Steady(req[q], req'[q])
            /\ \A q \in Request : Rests(req[q], req'[q])
        BY <1>1, <2>5, OneGoesOn DEF Rests
      <3> QED
        BY <1>1, <3>1, <3>2, WorkerShrinks
    <2>7. PagesTyped' /\ PortsTyped'
      <3>1. session \in Pairing /\ About("review", req[r].uses, TRUE) \in Message
        BY <1>1, <2>1, AMessage, LiveIsPairing, RequestPieces DEF Kinds
      <3> QED
        BY <1>1, <2>1, <3>1, MessagesTyped DEF PagesTyped, PortsTyped
    <2> QED
      BY <2>1, <2>5, <2>6, <2>7, Onward
  <1> QED
    BY <1>2, <1>3

\* A handler that waited too long ends.
LEMMA WaitTimerKeeps == ASSUME XInv, NEW r \in Request, WaitTimer(r) PROVE XInv'
  <1>1. /\ req[r].pc \in {"asked", "waiting", "discovering"}
        /\ Requests(req) /\ Fits(req[r]) /\ Worker /\ WorkerTyped
        /\ TabTyped /\ TabFits /\ PagesTyped /\ PortsTyped /\ PastTyped
    BY DEF WaitTimer, BoundedWaits, XInv, Requests, Worker
  <1>2. /\ pending' = pending \ {r} /\ req' = Ended(req, r)
        /\ waiting' = [d \in Doc |-> IF waiting[d] = r THEN 0 ELSE waiting[d]]
        /\ UNCHANGED <<link, documents, grants, captured, conn, tab, ports, past>>
    BY DEF WaitTimer
  <1>3. PICK e : e = Ended(req, r)[r]
    OBVIOUS
  <1>4. Advances(req[r], e) /\ req' = [req EXCEPT ![r] = e]
    BY <1>1, <1>2, <1>3, EndedFits DEF Fits, Shown
  <1>5. /\ Requests(req)' /\ \A q \in Request : Steady(req[q], req'[q])
        /\ \A q \in Request : q # r => Rests(req[q], req'[q])
    BY <1>1, <1>4, OneGoesOn DEF Rests
  <1>6. Shrinks
    BY <1>1, <1>2, Bounds DEF WorkerTyped, Shrinks, link, captured
  <1>7. \A q \in Request : q \in pending' \/ (\E d \in Doc : waiting'[d] = q) => q # r
    BY <1>2, Bounds
  <1>8. Worker'
    BY <1>1, <1>5, <1>6, <1>7, WorkerShrinks
  <1>9. TabTyped' /\ TabFits' /\ PagesTyped' /\ PortsTyped' /\ PastTyped'
    BY <1>1, <1>2, <1>5, TabStays, PortsStay, PastStays
  <1> QED
    BY <1>5, <1>8, <1>9 DEF XInv

\* The content script is put into the document shown.
LEMMA InjectKeeps == ASSUME XInv, NEW r \in Request, Inject(r) PROVE XInv'
  <1>1. /\ req[r].pc = "inject" /\ Requests(req) /\ Fits(req[r]) /\ req[r] \in PopupRequest
        /\ Worker /\ TabTyped /\ TabFits /\ PagesTyped /\ PortsTyped /\ PastTyped
    BY DEF Inject, At, XInv, Requests
  <1>2. CASE Fails(r)
    BY <1>1, <1>2, FailsKeeps
  <1>3. CASE ~Fails(r)
    <2> DEFINE old == script[shown].port
    <2>1. /\ shown # NoDoc
          /\ conn' = [q \in Request |-> CASE q = r -> "connecting"
                                          [] q = old -> LeftBy(conn[q])
                                          [] OTHER -> conn[q]]
          /\ script' = [script EXCEPT ![shown] = [NoScript EXCEPT !.port = r]]
          /\ req' = [Moved(req, r, "register") EXCEPT ![r].doc = shown]
          /\ UNCHANGED <<worker, shown, posted, ports, past>>
      BY <1>3 DEF Inject
    <2>2. shown \in Doc
      BY <1>1, <2>1 DEF TabTyped
    <2>3. PICK e : e = [req[r] EXCEPT !.pc = "register", !.doc = shown]
      OBVIOUS
    <2>4. /\ e \in PopupRequest /\ e.kind = req[r].kind /\ e.uses = req[r].uses
          /\ e.pc = "register" /\ e.doc = shown /\ e.reg = req[r].reg
          /\ e.session = req[r].session /\ e.mail = req[r].mail /\ req[r].kind = "list"
      BY <1>1, <2>2, <2>3, RequestPieces DEF PopupRequest, Fits, Kinds
    <2>5. Fits(e)
      BY <1>1, <2>2, <2>4 DEF Fits
    <2>6. Advances(req[r], e)
      BY <1>1, <2>2, <2>4, <2>5 DEF Advances, Steady, Shown
    <2>7. req' = [req EXCEPT ![r] = e]
      BY <1>1, <2>1, <2>3 DEF Moved, Requests
    <2>8. /\ Requests(req)' /\ req'[r] = e
          /\ \A q \in Request : Steady(req[q], req'[q]) /\ Rests(req[q], req'[q])
      BY <1>1, <2>6, <2>7, OneGoesOn DEF Rests
    <2>9. Shrinks
      BY <2>1, WorkerIs
    <2>10. Worker'
      BY <1>1, <2>8, <2>9, WorkerShrinks
    <2>11. TabTyped' /\ TabFits'
      <3>1. ASSUME NEW q \in Request
            PROVE  /\ conn'[q] \in {"none", "connecting", "open", "cut", "left"}
                   /\ conn'[q] # "none" => q = r \/ conn[q] # "none"
        <4>1. CASE q = r
          <5>1. conn'[q] \in {"connecting", LeftBy(conn[q])}
            BY <2>1, <4>1
          <5> QED
            BY <4>1, <5>1 DEF LeftBy
        <4>2. CASE q # r
          BY <1>1, <2>1, <4>2 DEF LeftBy, TabTyped
        <4> QED
          BY <4>1, <4>2
      <3>2. conn' \in [Request -> {"none", "connecting", "open", "cut", "left"}]
        BY <2>1, <3>1
      <3>3. [NoScript EXCEPT !.port = r] \in [port : Number, form : Number, watch : Number]
            /\ [NoScript EXCEPT !.port = r].watch = 0
        BY Bounds DEF NoScript
      <3>4. TabTyped'
        BY <1>1, <2>1, <3>2, <3>3 DEF TabTyped
      <3>5. TabFits'
        BY <1>1, <2>1, <2>2, <2>4, <2>8, <3>1, <3>3 DEF TabTyped, TabFits, Steady
      <3> QED
        BY <3>4, <3>5
    <2>12. PagesTyped' /\ PortsTyped' /\ PastTyped'
      BY <1>1, <2>1, PortsStay, PastStays
    <2> QED
      BY <2>8, <2>10, <2>11, <2>12 DEF XInv
  <1> QED
    BY <1>2, <1>3

\* The request of a document that has its registration.
LEMMA DiscoveringFits ==
  ASSUME Requests(req), NEW r \in Request, req[r].pc \in {"register", "waiting"},
         NEW reg \in Request
  PROVE  \E e : Advances(req[r], e) /\ Discovering(r, reg) = [req EXCEPT ![r] = e]
  <1>1. /\ req \in [Request -> PopupRequest] /\ req[r] \in PopupRequest /\ Fits(req[r])
        /\ req[r].kind = "list" /\ req[r].doc \in Doc
    BY RequestPieces DEF Requests, Fits, Kinds
  <1>2. CASE OriginOf[req[r].doc] = req[r].origin
    <2>1. PICK e : e = [req[r] EXCEPT !.reg = reg, !.mail = "discover", !.pc = "discovering"]
      OBVIOUS
    <2>2. Discovering(r, reg) = [req EXCEPT ![r] = e]
      BY <1>1, <1>2, <2>1 DEF Discovering
    <2>3. /\ e \in PopupRequest /\ e.kind = "list" /\ e.pc = "discovering" /\ e.reg = reg
          /\ e.mail = "discover" /\ e.doc = req[r].doc /\ e.uses = req[r].uses
      BY <1>1, <2>1, Bounds DEF PopupRequest
    <2>4. Fits(e)
      BY <1>1, <2>3, Bounds DEF Fits
    <2> QED
      BY <1>1, <2>2, <2>3, <2>4 DEF Advances, Steady, Shown
  <1>3. CASE OriginOf[req[r].doc] # req[r].origin
    BY <1>1, <1>3, EndedFits DEF Discovering, Shown
  <1> QED
    BY <1>2, <1>3

\* The injected script registers, or has registered before.
LEMMA RegisterKeeps == ASSUME XInv, NEW r \in Request, Register(r) PROVE XInv'
  <1>1. /\ req[r].pc = "register" /\ Requests(req) /\ Fits(req[r]) /\ req[r] \in PopupRequest
        /\ Worker /\ WorkerTyped /\ WorkerFits /\ LockedIsEmpty /\ CaptureIsOfDocument
        /\ PagesTyped /\ PortsTyped
    BY DEF Register, At, XInv, Requests, Worker
  <1>2. req[r].kind = "list" /\ req[r].doc \in Doc
    BY <1>1, RequestPieces DEF Fits, Kinds
  <1>3. CASE Fails(r)
    BY <1>1, <1>3, FailsKeeps
  <1>4. CASE documents[req[r].doc] # 0 /\ req' = Discovering(r, documents[req[r].doc])
             /\ UNCHANGED <<worker, conn, tab, ports, past>>
    <2>1. documents[req[r].doc] \in Request
      BY <1>1, <1>2, <1>4, Bounds DEF WorkerTyped
    <2>2. PICK e : Advances(req[r], e) /\ req' = [req EXCEPT ![r] = e]
      BY <1>1, <1>4, <2>1, DiscoveringFits
    <2>3. Rests(req[r], e)
      BY <1>1 DEF Rests
    <2> QED
      BY <1>4, <2>2, <2>3, WorkerIs, Resumes
  <1>5. CASE /\ waiting' = [waiting EXCEPT ![req[r].doc] = r] /\ req' = Moved(req, r, "waiting")
             /\ UNCHANGED <<link, documents, grants, captured, pending, conn, tab, ports, past>>
    <2>1. UNCHANGED <<session, pairing, opening, documents, grants, capture, candidate, pending>>
      BY <1>5 DEF link, captured
    <2>2. PICK e : e = [req[r] EXCEPT !.pc = "waiting"]
      OBVIOUS
    <2>3. /\ e.kind = req[r].kind /\ e.pc = "waiting" /\ e.doc = req[r].doc /\ e.reg = req[r].reg
          /\ e.session = req[r].session /\ e.mail = req[r].mail
      BY <1>1, <2>2 DEF PopupRequest
    <2>4. Fits(e)
      BY <1>1, <1>2, <2>3 DEF Fits
    <2>5. Advances(req[r], e) /\ req' = [req EXCEPT ![r] = e]
      BY <1>1, <1>5, <2>2, <2>4, MovedFits DEF Moved
    <2>6. /\ \A q \in Request : Steady(req[q], req'[q]) /\ req'[r] = e
          /\ \A q \in Request : Rests(req[q], req'[q])
      BY <1>1, <2>5, OneGoesOn DEF Rests
    <2>7. Worker'
      <3>1. WorkerTyped' /\ LockedIsEmpty'
        BY <1>1, <1>5, <2>1, Bounds DEF WorkerTyped, LockedIsEmpty
      <3>2. ASSUME NEW d \in Doc, waiting'[d] # 0
            PROVE  At(waiting[d], "waiting")' /\ req'[waiting'[d]].doc = d
        <4>1. CASE d = req[r].doc
          BY <1>1, <1>2, <1>5, <2>3, <2>6, <4>1 DEF WorkerTyped, At
        <4>2. CASE d # req[r].doc
          BY <1>1, <1>5, <2>6, <3>2, <4>2, HeldStays DEF WorkerTyped, At
        <4> QED
          BY <4>1, <4>2
      <3>3. WorkerFits' /\ CaptureIsOfDocument'
        BY <1>1, <2>1, <2>6, <3>2, HeldStays
        DEF WorkerFits, WorkerTyped, CaptureIsOfDocument, At, ListShown
      <3> QED
        BY <3>1, <3>3 DEF Worker
    <2> QED
      BY <1>1, <1>5, <2>5, <2>7, PortsStay, Onward
  <1> QED
    BY <1>1, <1>3, <1>4, <1>5 DEF Register

-----------------------------------------------------------------------------
(* Beginnings *)

LEMMA OneBegins ==
  ASSUME Requests(req), NEW r \in Request, req[r].kind = "none",
         NEW e \in PopupRequest, Fits(e), e.doc = req[r].doc,
         e.kind \in {"fill", "watch"} => e.uses \in Request /\ Shown(req[e.uses]),
         NEW rs, rs = [req EXCEPT ![r] = e]
  PROVE  Requests(rs) /\ \A q \in Request : Steady(req[q], rs[q]) /\ Rests(req[q], rs[q])
  <1>1. req \in [Request -> PopupRequest] /\ \A q \in Request : Fits(req[q])
    BY DEF Requests
  <1>2. rs \in [Request -> PopupRequest] /\ rs[r] = e /\ \A q \in Request : q # r => rs[q] = req[q]
    BY <1>1
  <1>3. req[r].pc = "none"
    BY <1>1 DEF Fits
  <1>4. \A q \in Request : Fits(rs[q]) /\ Steady(req[q], rs[q]) /\ Rests(req[q], rs[q])
    BY <1>1, <1>2, <1>3 DEF Steady, Rests, Shown
  <1> QED
    BY <1>2, <1>4, RequestsGoOn

LEMMA BegunFits ==
  ASSUME Requests(req), NEW r \in Request, req[r].kind = "none",
         NEW kind \in Kinds, NEW uses \in Number, NEW pc \in {"check", "failed"},
         kind = "list" => pc = "failed",
         kind \in {"fill", "watch"} => uses \in Request /\ Shown(req[uses]),
         NEW rs, rs = Begun(r, kind, uses, pc)
  PROVE  /\ Requests(rs) /\ \A q \in Request : Steady(req[q], rs[q]) /\ Rests(req[q], rs[q])
         /\ \A q \in Request \ {r} : rs[q] = req[q]
         /\ rs[r].kind = kind /\ rs[r].uses = uses /\ rs[r].pc = pc
         /\ rs[r].session = req[r].session /\ rs[r].mail = "none"
  <1>1. req \in [Request -> PopupRequest] /\ req[r] \in PopupRequest /\ Fits(req[r])
    BY DEF Requests
  <1>2. PICK e : e = [req[r] EXCEPT !.kind = kind, !.uses = uses, !.pc = pc]
    OBVIOUS
  <1>3. /\ e \in PopupRequest /\ e.kind = kind /\ e.uses = uses /\ e.pc = pc
        /\ e.doc = req[r].doc /\ e.session = req[r].session /\ e.mail = req[r].mail
    BY <1>1, <1>2 DEF PopupRequest, Over
  <1>4. req[r].mail = "none"
    BY <1>1, RequestPieces DEF Fits
  <1>5. Fits(e)
    BY <1>3, <1>4 DEF Fits, Kinds
  <1>6. rs = [req EXCEPT ![r] = e]
    BY <1>1, <1>2 DEF Begun
  <1>7. Requests(rs) /\ \A q \in Request : Steady(req[q], rs[q]) /\ Rests(req[q], rs[q])
    BY <1>3, <1>5, <1>6, OneBegins
  <1>8. rs[r] = e /\ \A q \in Request \ {r} : rs[q] = req[q]
    BY <1>1, <1>6
  <1> QED
    BY <1>3, <1>4, <1>7, <1>8

\* A beginning, with what the worker holds shrinking.
LEMMA BeginningKeeps ==
  ASSUME XInv, Requests(req)', \A q \in Request : Steady(req[q], req'[q]) /\ Rests(req[q], req'[q]),
         Shrinks, UNCHANGED <<conn, tab, ports, past>>
  PROVE  XInv'
  <1>1. Requests(req) /\ Worker /\ TabTyped /\ TabFits /\ PagesTyped /\ PortsTyped /\ PastTyped
    BY DEF XInv
  <1>2. Worker'
    BY <1>1, WorkerShrinks
  <1>3. TabTyped' /\ TabFits' /\ PagesTyped' /\ PortsTyped' /\ PastTyped'
    BY <1>1, TabStays, PortsStay, PastStays
  <1> QED
    BY <1>2, <1>3 DEF XInv

LEMMA StartListKeeps == ASSUME XInv, NEW r \in Request, StartList(r) PROVE XInv'
  <1>1. /\ req[r].kind = "none" /\ Requests(req) /\ WorkerTyped
        /\ req \in [Request -> PopupRequest] /\ req[r] \in PopupRequest /\ Fits(req[r])
    BY DEF StartList, Begins, XInv, Requests, Worker
  <1>2. Shrinks /\ UNCHANGED <<conn, tab, ports, past>>
    BY <1>1 DEF StartList, Shrinks, WorkerTyped, link, registry
  <1>3. PICK rs : rs = req'
    OBVIOUS
  <1>4. PICK e : e = [req[r] EXCEPT !.kind = "list", !.uses = 0, !.pc = "target",
                                    !.session = session]
    OBVIOUS
  <1>5. /\ e \in PopupRequest /\ e.kind = "list" /\ e.pc = "target"
        /\ e.doc = req[r].doc /\ e.mail = req[r].mail
    BY <1>1, <1>4, Bounds DEF PopupRequest, Over, Kinds, WorkerTyped
  <1>6. req[r].mail = "none"
    BY <1>1, RequestPieces DEF Fits
  <1>7. Fits(e)
    BY <1>5, <1>6 DEF Fits
  <1>8. rs = [req EXCEPT ![r] = e]
    BY <1>1, <1>3, <1>4 DEF StartList, Begun
  <1>9. Requests(rs) /\ \A q \in Request : Steady(req[q], rs[q]) /\ Rests(req[q], rs[q])
    BY <1>1, <1>5, <1>7, <1>8, OneBegins
  <1>10. Requests(req)' /\ \A q \in Request : Steady(req[q], req'[q]) /\ Rests(req[q], req'[q])
    BY <1>3, <1>9 DEF Requests
  <1> QED
    BY <1>2, <1>10, BeginningKeeps

LEMMA StartUseKeeps ==
  ASSUME XInv, NEW r \in Request, NEW t \in Request, StartUse(r, t) \/ StartReview(r, t)
  PROVE  XInv'
  <1>1. Requests(req) /\ Worker /\ WorkerTyped
    BY DEF XInv, Worker
  <1>2. Shrinks /\ UNCHANGED <<conn, tab, ports, past>>
    <2>1. CASE StartUse(r, t)
      BY <1>1, <2>1 DEF StartUse, GrantsAfter, Shrinks, WorkerTyped, link, registry, captured
    <2>2. CASE StartReview(r, t)
      BY <2>2, WorkerIs DEF StartReview
    <2> QED
      BY <2>1, <2>2
  <1>3. PICK kind \in {"fill", "watch", "review"}, pc \in {"check", "failed"} :
          /\ req[r].kind = "none" /\ req' = Begun(r, kind, t, pc)
          /\ kind \in {"fill", "watch"} => Shown(req[t])
    BY DEF StartUse, StartReview, Begins, ListShown, Shown, At
  <1>4. Requests(req)' /\ \A q \in Request : Steady(req[q], req'[q]) /\ Rests(req[q], req'[q])
    <2>1. PICK rs : rs = req'
      OBVIOUS
    <2>2. Requests(rs) /\ \A q \in Request : Steady(req[q], rs[q]) /\ Rests(req[q], rs[q])
      BY <1>1, <1>3, <2>1, BegunFits, Bounds DEF Kinds
    <2> QED
      BY <2>1, <2>2 DEF Requests
  <1> QED
    BY <1>2, <1>4, BeginningKeeps

-----------------------------------------------------------------------------
(* lock() *)

LEMMA SteadyOn ==
  ASSUME NEW a, NEW b, NEW c, Steady(a, b), Steady(b, c)
  PROVE  Steady(a, c)
  BY DEF Steady, Shown

\* Whatever it interrupts, lock() leaves the worker with nothing.
LEMMA LockKeeps ==
  ASSUME XInv, NEW rs, Requests(rs), \A q \in Request : Steady(req[q], rs[q]) /\ Rests(req[q], rs[q]),
         NEW ups \in [Pairing -> Seq(Message)], Lock(rs, ups), opening' \subseteq Pairing,
         UNCHANGED tab
  PROVE  Requests(req)' /\ Worker' /\ TabTyped' /\ TabFits' /\ PortsTyped'
  <1>1. /\ Requests(req) /\ Worker /\ WorkerTyped /\ WorkerFits /\ TabTyped /\ TabFits /\ PortsTyped
        /\ rs \in [Request -> PopupRequest]
    BY DEF XInv, Worker, Requests
  <1> DEFINE Stopped(r) == r \in pending \/ \E d \in Doc : waiting[d] = r
  <1>2. PICK ns : ns = req'
    OBVIOUS
  <1>3. ns = [r \in Request |-> IF Stopped(r) THEN Ended(rs, r)[r] ELSE rs[r]]
    BY <1>2 DEF Lock
  <1>4. ASSUME NEW r \in Request
        PROVE  /\ ns[r] \in PopupRequest /\ Fits(ns[r]) /\ Steady(rs[r], ns[r])
               /\ rs[r].kind = "none" => ns[r] = rs[r]
    <2>1. rs[r] \in PopupRequest /\ Fits(rs[r])
      BY <1>1 DEF Requests
    <2>2. CASE Stopped(r)
      <3>1. req[r].pc \in {"asked", "waiting"}
        BY <1>1, <2>2, Bounds DEF WorkerFits, At
      <3>2. rs[r].kind # "none" /\ ~Shown(rs[r])
        BY <2>1, <3>1 DEF Rests, Fits, Shown
      <3>3. Advances(rs[r], Ended(rs, r)[r])
        BY <3>2, EndedFits
      <3>4. ns[r] = Ended(rs, r)[r]
        BY <1>3, <2>2
      <3> QED
        BY <3>2, <3>3, <3>4 DEF Advances
    <2>3. CASE ~Stopped(r)
      BY <1>3, <2>1, <2>3 DEF Steady
    <2> QED
      BY <2>2, <2>3
  <1>5. ns \in [Request -> PopupRequest]
    <2>1. DOMAIN ns = Request /\ ns = [r \in Request |-> ns[r]]
      BY <1>3
    <2> QED
      BY <1>4, <2>1
  <1>6. Requests(ns)
    BY <1>4, <1>5, RequestsGoOn
  <1>7. Requests(req)' /\ \A q \in Request : Steady(req[q], req'[q])
    BY <1>2, <1>4, <1>6, SteadyOn DEF Requests
  <1>8. Worker'
    <2>1. /\ session' = 0 /\ pairing' = 0 /\ grants' = {} /\ capture' = 0 /\ candidate' = 0
          /\ pending' = {} /\ documents' = [d \in Doc |-> 0] /\ waiting' = [d \in Doc |-> 0]
      BY DEF Lock
    <2> QED
      BY <2>1, Bounds
      DEF Worker, WorkerTyped, WorkerFits, LockedIsEmpty, CaptureIsOfDocument
  <1>9. TabTyped' /\ TabFits'
    <2>1. conn' = [q \in Request |-> IF \E d \in Doc : documents[d] = q
                                     THEN CutOff(conn[q]) ELSE conn[q]]
      BY DEF Lock
    <2>2. ASSUME NEW q \in Request
          PROVE  /\ conn'[q] \in {"none", "connecting", "open", "cut", "left"}
                 /\ conn'[q] # "none" => conn[q] # "none"
      BY <1>1, <2>1 DEF TabTyped, CutOff
    <2>3. conn' \in [Request -> {"none", "connecting", "open", "cut", "left"}]
      BY <2>1, <2>2
    <2>4. shown' = shown /\ script' = script /\ posted' = posted
      BY DEF tab
    <2>5. TabTyped'
      BY <1>1, <2>3, <2>4 DEF TabTyped
    <2>6. TabFits'
      BY <1>1, <1>7, <2>2, <2>4 DEF TabFits, Steady
    <2> QED
      BY <2>5, <2>6
  <1>10. PortsTyped'
    <2>1. cut' \subseteq Pairing
      BY <1>1, Bounds DEF Lock, WorkerTyped, PortsTyped
    <2>2. up' \in [Pairing -> Seq(Message)]
      <3>1. up' = [p \in Pairing |-> IF p = session THEN <<>> ELSE ups[p]]
        BY DEF Lock
      <3>2. \A p \in Pairing : (IF p = session THEN <<>> ELSE ups[p]) \in Seq(Message)
        OBVIOUS
      <3> QED
        BY <3>1, <3>2
    <2>3. down' \in [Pairing -> Seq(Message)]
      <3> DEFINE after(p) == IF p = session /\ page[p] \in {"connecting", "paired"}
                             THEN Append(down[p], Plain("gone")) ELSE down[p]
      <3>1. down' = [p \in Pairing |-> after(p)]
        BY DEF Lock
      <3>2. ASSUME NEW p \in Pairing PROVE after(p) \in Seq(Message)
        BY <1>1, AMessage DEF PortsTyped
      <3> HIDE DEF after
      <3> QED
        BY <3>1, <3>2
    <2> QED
      BY <2>1, <2>2, <2>3 DEF PortsTyped
  <1> QED
    BY <1>7, <1>8, <1>9, <1>10

\* lock() with the requests as they are.
LEMMA Unhurried == \A q \in Request : Steady(req[q], req[q]) /\ Rests(req[q], req[q])
  BY DEF Steady, Rests

LEMMA LocksKeep == ASSUME XInv, Disconnect \/ SessionTimer PROVE XInv'
  <1>1. Requests(req) /\ PortsTyped /\ PagesTyped /\ PastTyped /\ WorkerTyped
    BY DEF XInv, Worker
  <1>2. /\ Lock(req, up) /\ UNCHANGED <<opening, tab, page, unlocked, lapsed, filled>>
        /\ UNCHANGED events \/ Happens
    BY DEF Disconnect, SessionTimer, LockFrame, history, past
  <1>3. Requests(req)' /\ Worker' /\ TabTyped' /\ TabFits' /\ PortsTyped'
    BY <1>1, <1>2, LockKeeps, Unhurried DEF PortsTyped, WorkerTyped
  <1>4. PagesTyped' /\ PastTyped'
    BY <1>1, <1>2, Bounds DEF PagesTyped, PastTyped, Happens
  <1> QED
    BY <1>3, <1>4 DEF XInv

\* A handler that finds no session locks, and ends.
LEMMA MissingLocks ==
  ASSUME XInv, NEW r \in Request, SessionMissing(r)
  PROVE  \E rs :
           /\ Lock(rs, up) /\ Requests(rs)
           /\ \A q \in Request : Steady(req[q], rs[q]) /\ Rests(req[q], rs[q])
           /\ \A q \in Request \ {r} : rs[q] = req[q]
           /\ rs[r].pc = "failed" /\ rs[r].session \in {0, req[r].session} /\ rs[r].mail # "fill"
           /\ ~Shown(req[r])
  <1>1. /\ Requests(req) /\ WorkerTyped /\ WorkerFits /\ req[r] \in PopupRequest /\ Fits(req[r])
    BY DEF XInv, Worker, Requests
  <1>2. CASE Begins(r, "list") /\ Lock(Begun(r, "list", 0, "failed"), up)
    <2>1. PICK rs : rs = Begun(r, "list", 0, "failed")
      OBVIOUS
    <2>2. req[r].kind = "none"
      BY <1>2 DEF Begins
    <2>3. /\ Requests(rs) /\ \A q \in Request : Steady(req[q], rs[q]) /\ Rests(req[q], rs[q])
          /\ \A q \in Request \ {r} : rs[q] = req[q]
          /\ rs[r].pc = "failed" /\ rs[r].session = req[r].session /\ rs[r].mail = "none"
      BY <1>1, <2>1, <2>2, BegunFits, Bounds DEF Kinds
    <2> QED
      BY <1>2, <2>1, <2>2, <2>3 DEF Shown
  <1>3. ASSUME NEW t \in grants, NEW kind \in {"fill", "watch"}, Begins(r, kind),
               Lock(Begun(r, kind, t, "failed"), up)
        PROVE  \E rs :
                 /\ Lock(rs, up) /\ Requests(rs)
                 /\ \A q \in Request : Steady(req[q], rs[q]) /\ Rests(req[q], rs[q])
                 /\ \A q \in Request \ {r} : rs[q] = req[q]
                 /\ rs[r].pc = "failed" /\ rs[r].session \in {0, req[r].session}
                 /\ rs[r].mail # "fill" /\ ~Shown(req[r])
    <2>1. PICK rs : rs = Begun(r, kind, t, "failed")
      OBVIOUS
    <2>2. req[r].kind = "none" /\ t \in Request /\ Shown(req[t])
      BY <1>1, <1>3 DEF Begins, WorkerTyped, WorkerFits, ListShown, Shown, At
    <2>3. /\ Requests(rs) /\ \A q \in Request : Steady(req[q], rs[q]) /\ Rests(req[q], rs[q])
          /\ \A q \in Request \ {r} : rs[q] = req[q]
          /\ rs[r].pc = "failed" /\ rs[r].session = req[r].session /\ rs[r].mail = "none"
      BY <1>1, <1>3, <2>1, <2>2, BegunFits, Bounds DEF Kinds
    <2> QED
      BY <1>3, <2>1, <2>2, <2>3 DEF Shown
  <1>4. CASE req[r].pc \in {"issue", "send", "found", "use", "activate", "propose"}
               /\ Lock(Ended(req, r), up)
    <2>1. PICK rs : rs = Ended(req, r)
      OBVIOUS
    <2>2. PICK e : e = Ended(req, r)[r]
      OBVIOUS
    <2>3. /\ Advances(req[r], e) /\ rs = [req EXCEPT ![r] = e]
          /\ e.pc = "failed" /\ e.session = 0 /\ e.mail # "fill" /\ ~Shown(req[r])
      BY <1>1, <1>4, <2>1, <2>2, EndedFits DEF Fits, Shown
    <2>4. \A q \in Request : Steady(req[q], rs[q]) /\ Rests(req[q], rs[q])
      BY <1>1, <1>4, <2>3 DEF Advances, Rests, Requests, Steady
    <2>5. /\ rs \in [Request -> PopupRequest] /\ \A q \in Request : Fits(rs[q])
          /\ rs[r] = e /\ \A q \in Request \ {r} : rs[q] = req[q]
      BY <1>1, <2>3 DEF Advances, Requests
    <2>6. Requests(rs)
      <3>1. \A q \in Request : req[q].kind = "none" => rs[q].kind = "none"
        BY <1>1, <2>3 DEF Advances, Requests
      <3> QED
        BY <1>1, <2>4, <2>5, <3>1, RequestsGoOn
    <2> QED
      BY <1>4, <2>1, <2>3, <2>4, <2>5, <2>6
  <1> QED
    BY <1>2, <1>3, <1>4 DEF SessionMissing, At

LEMMA SessionMissingKeeps == ASSUME XInv, NEW r \in Request, SessionMissing(r) PROVE XInv'
  <1>1. /\ PagesTyped /\ PastTyped /\ WorkerTyped /\ up \in [Pairing -> Seq(Message)]
    BY DEF XInv, Worker, PortsTyped
  <1>2. LockFrame
    BY DEF SessionMissing
  <1>3. PICK rs : /\ Lock(rs, up) /\ Requests(rs)
                  /\ \A q \in Request : Steady(req[q], rs[q]) /\ Rests(req[q], rs[q])
    BY MissingLocks
  <1>4. Requests(req)' /\ Worker' /\ TabTyped' /\ TabFits' /\ PortsTyped'
    BY <1>1, <1>2, <1>3, LockKeeps DEF LockFrame, WorkerTyped
  <1>5. PagesTyped' /\ PastTyped'
    BY <1>1, <1>2, PastStays DEF LockFrame, PagesTyped
  <1> QED
    BY <1>4, <1>5 DEF XInv

-----------------------------------------------------------------------------
(* Timers, and the worker's tabs *)

LEMMA ShrinksQuietly ==
  ASSUME XInv, UNCHANGED req, Shrinks
  PROVE  Requests(req)' /\ Worker' /\ \A q \in Request : Steady(req[q], req'[q])
  <1>1. Requests(req) /\ Worker
    BY DEF XInv
  <1>2. \A q \in Request : Steady(req[q], req'[q]) /\ Rests(req[q], req'[q])
    BY Unhurried
  <1> QED
    BY <1>1, <1>2, WorkerShrinks DEF Requests

LEMMA TimersKeep ==
  ASSUME XInv,
         \/ \E r \in Request, what \in {"capture", "candidate"} : CaptureTimer(what, r)
         \/ \E r \in Request : GrantLapses(r)
         \/ \E p \in Pairing : SessionLapses(p)
         \/ PairingTimer
  PROVE  XInv'
  <1>1. WorkerTyped /\ TabTyped /\ TabFits /\ PagesTyped /\ PortsTyped /\ PastTyped
    BY DEF XInv, Worker
  <1>2. UNCHANGED <<req, conn, tab, ports, filled>>
    BY DEF CaptureTimer, GrantLapses, SessionLapses, PairingTimer, past, history
  <1>3. Shrinks
    <2>1. CASE PairingTimer
      BY <1>1, <2>1, Bounds DEF PairingTimer, WorkerTyped, Shrinks, registry, captured
    <2>2. CASE \E p \in Pairing : SessionLapses(p)
      BY <2>2, WorkerIs DEF SessionLapses
    <2>3. CASE \E r \in Request : GrantLapses(r)
      BY <1>1, <2>3 DEF GrantLapses, WorkerTyped, Shrinks, link, registry, captured
    <2>4. CASE \E r \in Request, what \in {"capture", "candidate"} : CaptureTimer(what, r)
      BY <1>1, <2>4 DEF CaptureTimer, WorkerTyped, Shrinks, link, registry, captured
    <2> QED
      BY <2>1, <2>2, <2>3, <2>4
  <1>4. PastTyped'
    <2>1. events' \in 0..MaxEvents
      <3>1. UNCHANGED events \/ Happens
        BY DEF CaptureTimer, GrantLapses, SessionLapses, PairingTimer, past
      <3> QED
        BY <1>1, <3>1, Bounds DEF PastTyped, Happens
    <2>2. \/ UNCHANGED lapsed
          \/ \E p \in Pairing : lapsed' = lapsed \cup {<<"session", p>>}
          \/ \E r \in Request, what \in {"grant", "capture", "candidate"} :
               lapsed' = lapsed \cup {<<what, r>>}
      BY DEF CaptureTimer, GrantLapses, SessionLapses, PairingTimer, past, history
    <2> QED
      BY <1>1, <1>2, <2>1, <2>2 DEF PastTyped
  <1>5. Requests(req)' /\ Worker' /\ \A q \in Request : Steady(req[q], req'[q])
    BY <1>2, <1>3, ShrinksQuietly
  <1>6. TabTyped' /\ TabFits' /\ PagesTyped' /\ PortsTyped'
    BY <1>1, <1>2, <1>5, TabStays, PortsStay
  <1> QED
    BY <1>4, <1>5, <1>6 DEF XInv

\* The registry moves; of what else the worker held it keeps what it names still.
LEMMA WorkerMoves ==
  ASSUME Requests(req), Worker, \A q \in Request : Steady(req[q], req'[q]),
         \A q \in Request : q \in pending' \/ (\E d \in Doc : waiting'[d] = q)
                              => Rests(req[q], req'[q]),
         WorkerTyped', LockedIsEmpty', pending' \subseteq pending, grants' \subseteq grants,
         \A d \in Doc : waiting'[d] \in {0, waiting[d]},
         \A w \in {capture', candidate'} \ {0} : req'[w].kind = "watch" /\ Registered(w)'
  PROVE  Worker'
  <1>1. ASSUME NEW r \in pending' PROVE At(r, "asked")'
    BY <1>1, HeldStays DEF Worker, WorkerTyped, At
  <1>2. ASSUME NEW d \in Doc, waiting'[d] # 0
        PROVE  At(waiting[d], "waiting")' /\ req'[waiting'[d]].doc = d
    <2>1. waiting'[d] = waiting[d]
      BY <1>2
    <2> QED
      BY <1>2, <2>1, HeldStays DEF At
  <1>3. ASSUME NEW t \in grants' PROVE ListShown(t)'
    BY <1>3, HeldStays DEF ListShown, At
  <1> QED
    BY <1>1, <1>2, <1>3 DEF Worker, WorkerFits, CaptureIsOfDocument

\* A registration ends with its script, or with the tab's page.
LEMMA ForgetKeeps ==
  ASSUME XInv,
         \/ \E q \in Request : ScriptGone(q) \/ RegistrationTimer(q)
         \/ \E url \in BOOLEAN : TabUpdated(url)
  PROVE  XInv'
  <1>1. /\ Requests(req) /\ Worker /\ WorkerTyped /\ LockedIsEmpty
        /\ TabTyped /\ TabFits /\ PagesTyped /\ PortsTyped /\ PastTyped
    BY DEF XInv, Worker
  <1>2. PICK regs :
          /\ CaptureGoesWith(regs) \/ UNCHANGED <<documents, captured>>
          /\ \A d \in Doc : documents'[d] \in {0, documents[d]}
          /\ \A d \in Doc : documents[d] # 0 /\ documents'[d] # documents[d] => documents[d] \in regs
          /\ documents' = [d \in Doc |-> documents'[d]]
          /\ grants' \in {{}, grants}
    <2>1. ASSUME NEW q \in Request, ScriptGone(q) \/ RegistrationTimer(q)
          PROVE  /\ CaptureGoesWith({q})
                 /\ documents' = [d \in Doc |-> IF documents[d] = q THEN 0 ELSE documents[d]]
                 /\ grants' \in {{}, grants}
      BY <2>1 DEF ScriptGone, RegistrationTimer
    <2>2. ASSUME TabUpdated(TRUE)
          PROVE  /\ CaptureGoesWith({documents[d] : d \in Doc} \ {0})
                 /\ documents' = [d \in Doc |-> 0] /\ grants' = {}
      BY <2>2 DEF TabUpdated
    <2>3. ASSUME TabUpdated(FALSE)
          PROVE  UNCHANGED <<documents, captured>> /\ grants' = {}
      BY <2>3 DEF TabUpdated
    <2>4. CASE \E q \in Request : ScriptGone(q) \/ RegistrationTimer(q)
      <3>1. PICK q \in Request : ScriptGone(q) \/ RegistrationTimer(q)
        BY <2>4
      <3>2. WITNESS {q}
      <3> QED
        BY <2>1, <3>1
    <2>5. CASE TabUpdated(TRUE)
      <3>1. WITNESS {documents[d] : d \in Doc} \ {0}
      <3> QED
        BY <2>2, <2>5
    <2>6. CASE TabUpdated(FALSE)
      <3>1. WITNESS {}
      <3>2. documents = [d \in Doc |-> documents[d]]
        BY <1>1 DEF WorkerTyped
      <3> QED
        BY <2>3, <2>6, <3>2
    <2> QED
      BY <2>4, <2>5, <2>6
  <1>3. UNCHANGED <<session, pairing, opening, waiting, pending, req, tab, ports, lapsed, filled>>
    BY DEF ScriptGone, RegistrationTimer, TabUpdated, link, past, history
  <1>4. \A q \in Request : Steady(req[q], req'[q]) /\ Rests(req[q], req'[q])
    BY <1>3, Unhurried
  <1>5. /\ capture' \in {0, capture} /\ candidate' \in {0, candidate}
        /\ \A w \in {capture', candidate'} \ {0} : req'[w].kind = "watch" /\ Registered(w)'
    <2>1. CASE CaptureGoesWith(regs)
      BY <1>1, <1>2, <1>4, <2>1, CaptureGoes
    <2>2. CASE UNCHANGED <<documents, captured>>
      BY <1>1, <1>4, <2>2, HeldStays DEF captured
    <2> QED
      BY <1>2, <2>1, <2>2
  <1>6. WorkerTyped' /\ LockedIsEmpty'
    <2>1. documents' \in [Doc -> Number]
      BY <1>1, <1>2, Bounds DEF WorkerTyped
    <2>2. WorkerTyped'
      BY <1>1, <1>2, <1>3, <1>5, <2>1, Bounds DEF WorkerTyped
    <2> QED
      BY <1>1, <1>2, <1>3, <1>5, <2>2 DEF WorkerTyped, LockedIsEmpty
  <1>7. Worker'
    BY <1>1, <1>2, <1>3, <1>4, <1>5, <1>6, WorkerMoves
  <1>8. TabTyped' /\ TabFits'
    <2>1. /\ conn' \in [Request -> {"none", "connecting", "open", "cut", "left"}]
          /\ \A q \in Request : conn'[q] # "none" => conn[q] # "none"
      <3>1. CASE \E q \in Request : ScriptGone(q)
        BY <1>1, <3>1 DEF ScriptGone, TabTyped
      <3>4. CASE \E q \in Request : RegistrationTimer(q)
        BY <1>1, <3>4 DEF RegistrationTimer, TabTyped, CutOff
      <3>2. CASE TabUpdated(FALSE)
        BY <1>1, <3>2 DEF TabUpdated, TabTyped
      <3>3. CASE TabUpdated(TRUE)
        <4> DEFINE regs2 == {documents[d] : d \in Doc} \ {0}
        <4>1. conn' = [q \in Request |-> IF q \in regs2 THEN CutOff(conn[q]) ELSE conn[q]]
          BY <3>3 DEF TabUpdated
        <4> HIDE DEF regs2
        <4>2. ASSUME NEW q \in Request
              PROVE  /\ conn'[q] \in {"none", "connecting", "open", "cut", "left"}
                     /\ conn'[q] # "none" => conn[q] # "none"
          BY <1>1, <4>1 DEF TabTyped, CutOff
        <4> QED
          BY <4>1, <4>2
      <3> QED
        BY <3>1, <3>2, <3>3, <3>4
    <2> QED
      BY <1>1, <1>3, <2>1 DEF TabTyped, TabFits, tab
  <1>9. PagesTyped' /\ PortsTyped' /\ PastTyped'
    <2>1. events' \in 0..MaxEvents
      <3>1. UNCHANGED events \/ Happens
        BY DEF ScriptGone, RegistrationTimer, TabUpdated, past
      <3> QED
        BY <1>1, <3>1, Bounds DEF PastTyped, Happens
    <2> QED
      BY <1>1, <1>3, <2>1, PortsStay DEF PastTyped
  <1> QED
    BY <1>1, <1>3, <1>7, <1>8, <1>9 DEF XInv, Requests

\* The submission of the armed watch is captured.
LEMMA SubmittedKeeps ==
  ASSUME XInv, NEW w \in Request, NEW q \in Request, Submitted(w, q)
  PROVE  XInv'
  <1>1. /\ Requests(req) /\ Worker /\ WorkerTyped /\ WorkerFits /\ LockedIsEmpty /\ CaptureIsOfDocument
        /\ TabTyped /\ TabFits /\ PagesTyped /\ PortsTyped /\ PastTyped
    BY DEF XInv, Worker
  <1>2. /\ UNCHANGED <<session, pairing, opening, documents, waiting, grants, pending, req, conn>>
        /\ UNCHANGED <<shown, script, ports, past>> /\ posted' \subseteq posted
    BY DEF Submitted, link, registry
  <1>3. /\ capture' \in {0, capture} /\ candidate' \in {candidate, w}
        /\ candidate' # candidate => capture = w
    BY DEF Submitted, captured
  <1>4. \A v \in Request : Steady(req[v], req'[v]) /\ Rests(req[v], req'[v])
    BY <1>2, Unhurried
  <1>5. WorkerTyped' /\ LockedIsEmpty'
    <2>1. WorkerTyped'
      BY <1>1, <1>2, <1>3, Bounds DEF WorkerTyped
    <2>2. session = 0 => capture' = 0 /\ candidate' = 0
      BY <1>1, <1>3, Bounds DEF LockedIsEmpty
    <2> QED
      BY <1>1, <1>2, <2>1, <2>2 DEF LockedIsEmpty
  <1>6. \A v \in {capture', candidate'} \ {0} : req'[v].kind = "watch" /\ Registered(v)'
    <2>1. \A v \in {capture, candidate} \ {0} : req'[v].kind = "watch" /\ Registered(v)'
      BY <1>1, <1>2, <1>4, HeldStays
    <2> QED
      BY <1>3, <2>1
  <1>7. Worker'
    BY <1>1, <1>2, <1>4, <1>5, <1>6, WorkerMoves
  <1>8. TabTyped' /\ TabFits' /\ PagesTyped' /\ PortsTyped' /\ PastTyped'
    BY <1>1, <1>2, PortsStay, PastStays DEF TabTyped, TabFits
  <1> QED
    BY <1>1, <1>2, <1>7, <1>8 DEF XInv, Requests

\* A content script connects: its document has it now, and whoever waits for it goes on.
LEMMA ConnectedKeeps == ASSUME XInv, NEW q \in Request, Connected(q) PROVE XInv'
  <1>1. /\ Requests(req) /\ Worker /\ WorkerTyped /\ WorkerFits /\ LockedIsEmpty
        /\ TabTyped /\ TabFits /\ PagesTyped /\ PortsTyped /\ PastTyped
    BY DEF XInv, Worker
  <1>2. PICK d : d = req[q].doc
    OBVIOUS
  <1>3. d \in Doc /\ conn[q] = "connecting"
    BY <1>1, <1>2 DEF Connected, TabFits
  <1>4. /\ UNCHANGED <<session, pairing, opening, grants, pending, tab, ports, past>>
        /\ TabTyped' /\ \A x \in Request : conn'[x] # "none" => conn[x] # "none"
    <2>1. UNCHANGED <<session, pairing, opening, grants, pending, tab, ports, past>>
      BY DEF Connected, worker, link
    <2>2. \/ conn' = [x \in Request |-> CASE x = q -> "open"
                                          [] x = documents[d] -> CutOff(conn[x])
                                          [] OTHER -> conn[x]]
          \/ conn' = [conn EXCEPT ![q] = "cut"]
      BY <1>2 DEF Connected
    <2>3. ASSUME NEW x \in Request
          PROVE  /\ conn'[x] \in {"none", "connecting", "open", "cut", "left"}
                 /\ conn'[x] # "none" => conn[x] # "none"
      <3>1. CASE conn' = [conn EXCEPT ![q] = "cut"]
        BY <1>1, <1>3, <3>1 DEF TabTyped
      <3>2. CASE conn' # [conn EXCEPT ![q] = "cut"] /\ x = q
        <4>1. conn'[x] \in {"open", CutOff(conn[x])}
          BY <2>2, <3>2
        <4> QED
          BY <1>3, <3>2, <4>1 DEF CutOff
      <3>3. CASE conn' # [conn EXCEPT ![q] = "cut"] /\ x # q
        <4>1. conn'[x] \in {conn[x], CutOff(conn[x])}
          BY <2>2, <3>3
        <4> QED
          BY <1>1, <4>1 DEF CutOff, TabTyped
      <3> QED
        BY <3>1, <3>2, <3>3
    <2>4. conn' \in [Request -> {"none", "connecting", "open", "cut", "left"}]
      BY <1>1, <2>2, <2>3 DEF TabTyped
    <2> QED
      BY <1>1, <2>1, <2>3, <2>4 DEF TabTyped, tab
  <1>5. CASE UNCHANGED <<worker, req>>
    <2>1. Requests(req)' /\ Worker'
      BY <1>5, WorkerIs, ShrinksQuietly
    <2> QED
      BY <1>1, <1>4, <1>5, <2>1, PortsStay, PastStays DEF XInv, TabFits, tab
  <1>6. CASE ~UNCHANGED <<worker, req>>
    <2>1. PICK r : r = waiting[d]
      OBVIOUS
    <2>2. /\ documents' = [documents EXCEPT ![d] = q] /\ waiting' = [waiting EXCEPT ![d] = 0]
          /\ CaptureGoesWith({documents[d]} \ {0})
          /\ req' = IF r = 0 THEN req ELSE Discovering(r, q)
          /\ SessionLive
      BY <1>2, <1>6, <2>1 DEF Connected, Registers
    <2>3. /\ Requests(req)' /\ \A x \in Request : Steady(req[x], req'[x])
          /\ \A x \in Request : x # r => Rests(req[x], req'[x])
          /\ r # 0 => r \in Request /\ At(r, "waiting") /\ req[r].doc = d
      <3>1. CASE r = 0
        BY <1>1, <2>2, <3>1, Unhurried DEF Requests
      <3>2. CASE r # 0
        <4>1. r \in Request /\ At(r, "waiting") /\ req[r].doc = d
          BY <1>1, <1>3, <2>1, <3>2, Bounds DEF WorkerTyped, WorkerFits
        <4>2. PICK e : Advances(req[r], e) /\ req' = [req EXCEPT ![r] = e]
          BY <1>1, <2>2, <3>2, <4>1, DiscoveringFits DEF At
        <4> QED
          BY <1>1, <4>1, <4>2, OneGoesOn DEF Rests
      <3> QED
        BY <3>1, <3>2
    <2>4. /\ capture' \in {0, capture} /\ candidate' \in {0, candidate}
          /\ \A w \in {capture', candidate'} \ {0} : req'[w].kind = "watch" /\ Registered(w)'
      <3>1. \A x \in Doc : documents[x] # 0 /\ documents'[x] # documents[x]
                             => documents[x] \in {documents[d]} \ {0}
        BY <1>1, <2>2 DEF WorkerTyped
      <3> QED
        BY <1>1, <2>2, <2>3, <3>1, CaptureGoes
    <2>5. WorkerTyped' /\ LockedIsEmpty'
      <3>1. session # 0
        BY <1>1, <2>2, LiveIsPairing
      <3>2. WorkerTyped'
        BY <1>1, <1>3, <1>4, <2>2, <2>4, Bounds DEF WorkerTyped
      <3> QED
        BY <1>4, <3>1, <3>2 DEF LockedIsEmpty
    <2>6. \A x \in Doc : waiting'[x] \in {0, waiting[x]}
      BY <1>1, <2>2 DEF WorkerTyped
    <2>7. ASSUME NEW x \in Request, x \in pending' \/ \E y \in Doc : waiting'[y] = x
          PROVE  x # r
      <3>1. CASE x \in pending'
        BY <1>1, <1>4, <2>3, <3>1, Bounds DEF WorkerFits, At
      <3>2. CASE \E y \in Doc : waiting'[y] = x
        BY <1>1, <1>3, <2>2, <2>3, <3>2, Bounds DEF WorkerTyped, WorkerFits
      <3> QED
        BY <2>7, <3>1, <3>2
    <2>8. Worker'
      BY <1>1, <1>4, <2>3, <2>4, <2>5, <2>6, <2>7, WorkerMoves
    <2>9. TabFits'
      BY <1>1, <1>4, <2>3 DEF TabFits, Steady, tab
    <2> QED
      BY <1>1, <1>4, <2>3, <2>8, <2>9, PortsStay, PastStays DEF XInv
  <1> QED
    BY <1>5, <1>6

-----------------------------------------------------------------------------
(* The tab *)

LEMMA TabKeeps ==
  ASSUME XInv, UNCHANGED <<worker, req>>, TabTyped', TabFits', PagesTyped', PortsTyped', PastTyped'
  PROVE  XInv'
  BY WorkerIs, ShrinksQuietly DEF XInv

LEMMA NavigateKeeps == ASSUME XInv, NEW d \in Doc \cup {NoDoc}, Navigate(d) PROVE XInv'
  <1>1. TabTyped /\ TabFits /\ PagesTyped /\ PortsTyped /\ PastTyped
    BY DEF XInv
  <1>2. UNCHANGED <<worker, req, posted, ports, lapsed, filled>> /\ Happens /\ shown' = d
    BY DEF Navigate, history
  <1>3. /\ conn' \in [Request -> {"none", "connecting", "open", "cut", "left"}]
        /\ \A q \in Request : conn'[q] # "none" => conn[q] # "none"
    <2>1. CASE UNCHANGED conn
      BY <1>1, <2>1 DEF TabTyped
    <2>2. CASE ~UNCHANGED conn
      <3>1. conn' = [q \in Request |-> IF q = script[shown].port THEN LeftBy(conn[q]) ELSE conn[q]]
        BY <2>2 DEF Navigate
      <3>2. ASSUME NEW q \in Request
            PROVE  /\ conn'[q] \in {"none", "connecting", "open", "cut", "left"}
                   /\ conn'[q] # "none" => conn[q] # "none"
        BY <1>1, <3>1 DEF TabTyped, LeftBy
      <3> QED
        BY <3>1, <3>2
    <2> QED
      BY <2>1, <2>2
  <1>4. script' \in {script, [script EXCEPT ![shown] = NoScript]}
    BY DEF Navigate
  <1>5. NoScript \in [port : Number, form : Number, watch : Number] /\ NoScript.watch = 0
    BY Bounds DEF NoScript
  <1>6. TabTyped' /\ TabFits'
    BY <1>1, <1>2, <1>3, <1>4, <1>5 DEF TabTyped, TabFits
  <1>7. PagesTyped' /\ PortsTyped' /\ PastTyped'
    BY <1>1, <1>2, PortsStay, Bounds DEF PastTyped, Happens
  <1> QED
    BY <1>2, <1>6, <1>7, TabKeeps

LEMMA ScriptKeeps ==
  ASSUME XInv, NEW d \in Doc, ScriptCut(d) \/ FormGone(d) \/ Submit(d)
  PROVE  XInv'
  <1>1. TabTyped /\ TabFits /\ PagesTyped /\ PortsTyped /\ PastTyped
    BY DEF XInv
  <1>2. UNCHANGED <<worker, req, shown, ports, lapsed, filled>>
    BY DEF ScriptCut, FormGone, Submit, history, past
  <1>3. script[d] \in [port : Number, form : Number, watch : Number]
    BY <1>1 DEF TabTyped
  <1>4. PICK s : /\ script' = [script EXCEPT ![d] = s]
                 /\ s \in {NoScript, [script[d] EXCEPT !.form = 0], [script[d] EXCEPT !.watch = 0]}
    BY DEF ScriptCut, FormGone, Submit
  <1>5. s \in [port : Number, form : Number, watch : Number] /\ (s.watch # 0 => s.port # 0)
    <2>1. CASE s = NoScript
      BY <2>1, Bounds DEF NoScript
    <2>2. CASE s = [script[d] EXCEPT !.form = 0]
      BY <1>1, <1>3, <2>2, Bounds DEF TabFits
    <2>3. CASE s = [script[d] EXCEPT !.watch = 0]
      BY <1>3, <2>3, Bounds
    <2> QED
      BY <1>4, <2>1, <2>2, <2>3
  <1>6. posted' \subseteq Request \X Request
    <2>1. CASE ~Submit(d)
      BY <1>1, <2>1 DEF ScriptCut, FormGone, TabTyped
    <2>2. CASE Submit(d)
      <3>1. script[d].watch \in Request /\ script[d].port \in Request
        BY <1>1, <1>3, <2>2, Bounds DEF Submit, TabFits
      <3>2. posted' \in {posted, posted \cup {<<script[d].watch, script[d].port>>}}
        BY <2>2 DEF Submit
      <3> QED
        BY <1>1, <3>1, <3>2 DEF TabTyped
    <2> QED
      BY <2>1, <2>2
  <1>7. conn' \in {conn, [conn EXCEPT ![script[d].port] = "none"]}
    BY DEF ScriptCut, FormGone, Submit
  <1>8. TabTyped' /\ TabFits'
    <2>1. /\ conn' \in [Request -> {"none", "connecting", "open", "cut", "left"}]
          /\ \A q \in Request : conn'[q] # "none" => conn[q] # "none"
      BY <1>1, <1>7 DEF TabTyped
    <2>2. /\ script' \in [Doc -> [port : Number, form : Number, watch : Number]]
          /\ \A x \in Doc : script'[x].watch # 0 => script'[x].port # 0
      BY <1>1, <1>4, <1>5 DEF TabTyped, TabFits
    <2> QED
      BY <1>1, <1>2, <1>6, <2>1, <2>2 DEF TabTyped, TabFits
  <1>9. PagesTyped' /\ PortsTyped' /\ PastTyped'
    <2>1. UNCHANGED events \/ Happens
      BY DEF ScriptCut, FormGone, Submit, past
    <2> QED
      BY <1>1, <1>2, <2>1, PortsStay, Bounds DEF PastTyped, Happens
  <1> QED
    BY <1>2, <1>8, <1>9, TabKeeps

\* The request a document has answered.
LEMMA RepliedFits ==
  ASSUME Requests(req), NEW r \in Request, req[r].mail # "none", NEW ok \in BOOLEAN
  PROVE  \E e : /\ Advances(req[r], e) /\ Rests(req[r], e)
                /\ Replied(r, ok) = [req EXCEPT ![r] = e]
                /\ e.session = req[r].session /\ e.mail = "none"
                /\ \/ e.pc = req[r].pc /\ req[r].pc # "acking"
                   \/ req[r].pc = "discovering" /\ e.pc \in {"found", "refused"}
                   \/ req[r].pc = "acking" /\ e.pc = IF ok THEN "acked" ELSE "refused"
  <1>1. req \in [Request -> PopupRequest] /\ req[r] \in PopupRequest /\ Fits(req[r])
    BY DEF Requests
  <1>2. req[r].kind # "none"
    BY <1>1, RequestPieces DEF Fits
  <1>3. PICK pc : /\ \/ pc = req[r].pc /\ req[r].pc # "acking"
                     \/ req[r].pc = "discovering" /\ pc \in {"found", "refused"}
                     \/ req[r].pc = "acking" /\ pc = IF ok THEN "acked" ELSE "refused"
                  /\ Replied(r, ok) = [req EXCEPT ![r].mail = "none", ![r].pc = pc]
    <2>1. CASE req[r].pc \notin {"discovering", "acking"}
      BY <1>1, <2>1 DEF Replied
    <2>2. CASE req[r].pc \in {"discovering", "acking"} /\ ok
      <3>1. Replied(r, ok) = [req EXCEPT ![r].mail = "none",
                                         ![r].pc = IF req[r].pc = "acking" THEN "acked" ELSE "found"]
        BY <1>1, <2>2 DEF Replied
      <3> QED
        BY <2>2, <3>1
    <2>3. CASE req[r].pc \in {"discovering", "acking"} /\ ~ok
      BY <1>1, <2>3 DEF Replied
    <2> QED
      BY <2>1, <2>2, <2>3
  <1>4. PICK e : e = [req[r] EXCEPT !.mail = "none", !.pc = pc]
    OBVIOUS
  <1>5. Replied(r, ok) = [req EXCEPT ![r] = e]
    BY <1>1, <1>3, <1>4
  <1>6. /\ e \in PopupRequest /\ e.kind = req[r].kind /\ e.pc = pc /\ e.mail = "none"
        /\ e.uses = req[r].uses /\ e.doc = req[r].doc /\ e.reg = req[r].reg
        /\ e.session = req[r].session
    BY <1>1, <1>3, <1>4 DEF PopupRequest
  <1>7. Fits(e)
    BY <1>1, <1>3, <1>6, RequestPieces DEF Fits, Kinds
  <1>8. Steady(req[r], e) /\ Rests(req[r], e)
    BY <1>3, <1>6 DEF Steady, Rests, Shown
  <1> QED
    BY <1>2, <1>3, <1>5, <1>6, <1>7, <1>8 DEF Advances

\* A message reaches its document; what it fills goes to the document of the list.
LEMMA ContentMessageKeeps == ASSUME XInv, NEW r \in Request, ContentMessage(r) PROVE XInv'
  <1>1. /\ Requests(req) /\ req[r] \in PopupRequest /\ Fits(req[r])
        /\ Worker /\ TabTyped /\ TabFits /\ PagesTyped /\ PortsTyped /\ PastTyped
    BY DEF XInv, Requests
  <1>2. PICK d : d = Bound(r).doc
    OBVIOUS
  <1>3. PICK ok \in BOOLEAN :
          /\ req' = Replied(r, ok)
          /\ \/ script' = script
             \/ script[d].port # 0 /\ script' = [script EXCEPT ![d] = FormsAfter(script[d], r, ok)]
          /\ \/ filled' = filled
             \/ /\ req[r].mail = "fill"
                /\ filled' = filled \cup {[token |-> req[r].uses, doc |-> d,
                                           session |-> req[r].session]}
    <2> DEFINE live == /\ shown = d /\ script[d].port # 0
                       /\ req[r].mail = "fill" => GrantLive(r)
                       /\ req[r].mail = "watch" => ~Passed("capture", r)
               ok == live /\ (req[r].mail # "discover" => script[d].form = ListOf(r))
    <2>1. /\ req' = Replied(r, ok)
          /\ script' = IF live THEN [script EXCEPT ![d] = FormsAfter(script[d], r, ok)] ELSE script
          /\ filled' = IF ok /\ req[r].mail = "fill"
                       THEN filled \cup {[token |-> req[r].uses, doc |-> d,
                                          session |-> req[r].session]}
                       ELSE filled
      BY <1>2 DEF ContentMessage
    <2>2. WITNESS ok \in BOOLEAN
    <2>3. live => script[d].port # 0
      OBVIOUS
    <2> HIDE DEF live, ok
    <2> QED
      BY <2>1, <2>3
  <1>4. UNCHANGED <<worker, conn, shown, posted, ports, lapsed, events>> /\ req[r].mail # "none"
    BY DEF ContentMessage
  <1>5. /\ Requests(req)'
        /\ \A q \in Request : Steady(req[q], req'[q]) /\ Rests(req[q], req'[q])
    <2>1. PICK e : Advances(req[r], e) /\ Rests(req[r], e) /\ req' = [req EXCEPT ![r] = e]
      BY <1>1, <1>3, <1>4, RepliedFits
    <2> QED
      BY <1>1, <2>1, OneGoesOn DEF Rests
  <1>6. Worker'
    BY <1>1, <1>4, <1>5, WorkerIs, WorkerShrinks
  <1>7. d \in Doc /\ (req[r].mail = "fill" => req[r].uses \in Request /\ req[r].session \in Pairing)
    <2>1. CASE req[r].mail = "discover"
      BY <1>1, <1>2, <2>1 DEF Fits, Bound, ListOf
    <2>2. CASE req[r].mail \in {"fill", "watch"}
      <3>1. req[r].kind \in {"fill", "watch"}
        BY <1>1, <2>2 DEF Fits
      <3>2. PICK t : t = req[r].uses
        OBVIOUS
      <3>3. t \in Request /\ Shown(req[t]) /\ d = req[t].doc
        BY <1>1, <1>2, <3>1, <3>2, ListOfWatch DEF Requests
      <3>4. d \in Doc
        BY <1>1, <3>3 DEF Requests, Fits, Shown
      <3>5. req[r].mail = "fill" => req[r].session \in Pairing
        BY <1>1, RequestPieces, Bounds DEF Fits
      <3> QED
        BY <3>2, <3>3, <3>4, <3>5
    <2> QED
      BY <1>1, <1>4, <2>1, <2>2, RequestPieces
  <1>8. TabTyped' /\ TabFits'
    <2>1. PICK s : s = FormsAfter(script[d], r, ok)
      OBVIOUS
    <2>2. s \in [port : Number, form : Number, watch : Number] /\ s.port = script[d].port
      BY <1>1, <1>7, <2>1, Bounds DEF FormsAfter, TabTyped
    <2>3. /\ script' \in [Doc -> [port : Number, form : Number, watch : Number]]
          /\ \A x \in Doc : script'[x].watch # 0 => script'[x].port # 0
      BY <1>1, <1>3, <1>7, <2>1, <2>2 DEF TabTyped, TabFits
    <2>4. TabFits'
      BY <1>1, <1>4, <1>5, <2>3 DEF TabFits, Steady
    <2> QED
      BY <1>1, <1>4, <2>3, <2>4 DEF TabTyped
  <1>9. PagesTyped' /\ PortsTyped' /\ PastTyped'
    <2>1. filled' \subseteq [token : Request, doc : Doc, session : Pairing]
      BY <1>1, <1>3, <1>7 DEF PastTyped
    <2> QED
      BY <1>1, <1>4, <2>1, PortsStay DEF PastTyped
  <1> QED
    BY <1>5, <1>6, <1>8, <1>9 DEF XInv

-----------------------------------------------------------------------------
(* Pairing and the companion *)

LEMMA PortKeeps ==
  ASSUME XInv, UNCHANGED <<req, conn, tab>>, Shrinks, PagesTyped', PortsTyped', PastTyped'
  PROVE  XInv'
  <1>1. Requests(req)' /\ Worker' /\ \A q \in Request : Steady(req[q], req'[q])
    BY ShrinksQuietly
  <1>2. TabTyped' /\ TabFits'
    BY <1>1, TabStays DEF XInv
  <1> QED
    BY <1>1, <1>2 DEF XInv

\* Messages are received and sent at either end of a port.
LEMMA PortSteps ==
  ASSUME XInv, NEW p \in Pairing
  PROVE  /\ up[p] # <<>> => [up EXCEPT ![p] = Tail(@)] \in [Pairing -> Seq(Message)]
         /\ down[p] # <<>> => [down EXCEPT ![p] = Tail(@)] \in [Pairing -> Seq(Message)]
         /\ \A type \in {"connect", "hello", "paired", "locked", "gone"} :
              /\ [up EXCEPT ![p] = Append(@, Plain(type))] \in [Pairing -> Seq(Message)]
              /\ [down EXCEPT ![p] = Append(@, Plain(type))] \in [Pairing -> Seq(Message)]
  BY MessagesTyped, AMessage DEF XInv, PortsTyped

\* The worker opens a pairing's tab, and is connected to.
LEMMA ConnectsKeep ==
  ASSUME XInv, NEW p \in Pairing, PairOpened(p) \/ PortConnected(p) PROVE XInv'
  <1>1. WorkerTyped /\ PagesTyped /\ PortsTyped /\ PastTyped
    BY DEF XInv, Worker
  <1>2. CASE PairOpened(p)
    <2>1. Shrinks
      BY <1>1, <1>2, Bounds DEF PairOpened, Shrinks, WorkerTyped, registry, captured
    <2>2. UNCHANGED <<req, conn, tab, ports, past>>
      BY <1>2 DEF PairOpened
    <2> QED
      BY <1>1, <2>1, <2>2, PortsStay, PastStays, PortKeeps
  <1>3. CASE PortConnected(p)
    <2>1. UNCHANGED <<worker, req, conn, tab, page, unlocked, past>>
      BY <1>3 DEF PortConnected, Refuse
    <2>2. up[p] # <<>> /\ up' = [up EXCEPT ![p] = Tail(@)]
      BY <1>3 DEF PortConnected, FromPage
    <2>3. \/ UNCHANGED <<cut, down>>
          \/ cut' = cut \cup {p} /\ down' = [down EXCEPT ![p] = Append(@, Plain("gone"))]
      BY <1>3 DEF PortConnected, Refuse
    <2>4. PagesTyped' /\ PortsTyped'
      <3>1. up' \in [Pairing -> Seq(Message)]
        BY <2>2, PortSteps
      <3>2. [down EXCEPT ![p] = Append(@, Plain("gone"))] \in [Pairing -> Seq(Message)]
        BY PortSteps
      <3>3. down' \in [Pairing -> Seq(Message)] /\ cut' \subseteq Pairing
        BY <1>1, <2>3, <3>2 DEF PortsTyped
      <3> QED
        BY <1>1, <2>1, <3>1, <3>3 DEF PagesTyped, PortsTyped
    <2> QED
      BY <1>1, <2>1, <2>4, WorkerIs, PastStays, PortKeeps
  <1> QED
    BY <1>2, <1>3

LEMMA HelloKeeps == ASSUME XInv, NEW p \in Pairing, Hello(p) PROVE XInv'
  <1>1. /\ Requests(req) /\ Worker /\ WorkerTyped /\ WorkerFits /\ LockedIsEmpty /\ TabTyped /\ TabFits
        /\ PagesTyped /\ PortsTyped /\ PastTyped
    BY DEF XInv, Worker
  <1>2. /\ UNCHANGED <<req, conn, tab, page, unlocked, past>>
        /\ up[p] # <<>> /\ up' = [up EXCEPT ![p] = Tail(@)]
    BY DEF Hello, FromPage, Refuse
  <1>3. PagesTyped' /\ PortsTyped'
    <2>1. /\ cut' \in {cut, cut \cup {p}}
          /\ down' \in {[down EXCEPT ![p] = Append(@, Plain("paired"))],
                        [down EXCEPT ![p] = Append(@, Plain("gone"))]}
      BY DEF Hello, Refuse
    <2>2. up' \in [Pairing -> Seq(Message)]
      BY <1>2, PortSteps
    <2>3. /\ [down EXCEPT ![p] = Append(@, Plain("paired"))] \in [Pairing -> Seq(Message)]
          /\ [down EXCEPT ![p] = Append(@, Plain("gone"))] \in [Pairing -> Seq(Message)]
      BY PortSteps
    <2>4. down' \in [Pairing -> Seq(Message)] /\ cut' \subseteq Pairing
      BY <1>1, <2>1, <2>3 DEF PortsTyped
    <2> QED
      BY <1>1, <1>2, <2>2, <2>4 DEF PagesTyped, PortsTyped
  <1>4. CASE UNCHANGED worker
    BY <1>1, <1>2, <1>3, <1>4, WorkerIs, PastStays, PortKeeps
  <1>5. CASE ~UNCHANGED worker
    <2>1. /\ session' = p /\ pairing' = 0
          /\ UNCHANGED <<opening, documents, waiting, grants, capture, candidate, pending>>
      BY <1>5 DEF Hello, Refuse, registry, captured
    <2>2. \A q \in Request : Steady(req[q], req'[q]) /\ Rests(req[q], req'[q])
      BY <1>2, Unhurried
    <2>3. WorkerTyped' /\ LockedIsEmpty'
      BY <1>1, <2>1, Bounds DEF WorkerTyped, LockedIsEmpty
    <2>4. \A w \in {capture', candidate'} \ {0} : req'[w].kind = "watch" /\ Registered(w)'
      BY <1>1, <2>1, <2>2, HeldStays
    <2>5. Worker'
      BY <1>1, <2>1, <2>2, <2>3, <2>4, WorkerMoves
    <2>6. TabTyped' /\ TabFits' /\ PastTyped'
      BY <1>1, <1>2, <2>2, TabStays, PastStays
    <2> QED
      BY <1>1, <1>2, <1>3, <2>5, <2>6 DEF XInv, Requests
  <1> QED
    BY <1>4, <1>5

\* lock() on a message of a page, or with its tab.
LEMMA LockedByPage ==
  ASSUME XInv, NEW ups \in [Pairing -> Seq(Message)], Lock(req, ups), opening' \subseteq Pairing,
         UNCHANGED tab, PagesTyped', PastTyped'
  PROVE  XInv'
  BY LockKeeps, Unhurried DEF XInv

\* The vault's answer to a pending request.
LEMMA AnswerKeeps ==
  ASSUME XInv, NEW p \in Pairing, NEW r \in Request, NEW ok \in BOOLEAN, Answer(p, r, ok)
  PROVE  XInv'
  <1>1. /\ Requests(req) /\ req[r] \in PopupRequest /\ Fits(req[r])
        /\ Worker /\ WorkerTyped /\ WorkerFits /\ TabTyped /\ TabFits
        /\ PagesTyped /\ PortsTyped /\ PastTyped
    BY DEF XInv, Worker, Requests
  <1>2. UNCHANGED <<opening, tab, page, unlocked, past>>
    BY DEF Answer, LockFrame
  <1>3. PagesTyped' /\ PastTyped' /\ opening' \subseteq Pairing
    BY <1>1, <1>2, PastStays DEF PagesTyped, WorkerTyped
  <1>4. PICK rest : rest = [up EXCEPT ![p] = Tail(@)]
    OBVIOUS
  <1>5. rest \in [Pairing -> Seq(Message)]
    BY <1>4, PortSteps DEF Answer, FromPage
  <1>6. CASE Lock(req, rest)
    BY <1>2, <1>3, <1>5, <1>6, LockedByPage
  <1>7. CASE ~Lock(req, rest)
    <2>1. /\ r \in pending /\ up' = rest /\ pending' = pending \ {r}
          /\ req' = IF ok THEN Answered(r, p) ELSE Ended(req, r)
          /\ UNCHANGED <<session, pairing, documents, waiting, grants, capture, candidate>>
          /\ UNCHANGED <<conn, cut, down>>
      BY <1>4, <1>7 DEF Answer, registry, captured
    <2>2. req[r].pc = "asked"
      BY <1>1, <2>1 DEF WorkerFits, At
    <2>3. PICK e : Advances(req[r], e) /\ req' = [req EXCEPT ![r] = e]
      <3>1. CASE ~ok
        BY <1>1, <2>1, <2>2, <3>1, EndedFits DEF Fits, Shown
      <3>2. CASE ok
        <4>1. PICK e : e = [req[r] EXCEPT !.pc = "answered",
                                          !.session = IF req[r].kind = "fill" THEN p ELSE @]
          OBVIOUS
        <4>2. req' = [req EXCEPT ![r] = e]
          BY <1>1, <2>1, <3>2, <4>1 DEF Answered, Moved, Requests
        <4>3. /\ e \in PopupRequest /\ e.kind = req[r].kind /\ e.pc = "answered"
              /\ e.kind = "fill" => e.session = p
              /\ e.uses = req[r].uses /\ e.doc = req[r].doc /\ e.reg = req[r].reg
              /\ e.mail = req[r].mail /\ p # 0
          <5>1. req[r] \in PopupRequest /\ p \in 0..MaxPairings /\ p # 0
            BY <1>1, Bounds DEF Requests
          <5>2. PICK s : s = IF req[r].kind = "fill" THEN p ELSE req[r].session
            OBVIOUS
          <5>3. s \in 0..MaxPairings
            BY <5>1, <5>2, RequestPieces
          <5>4. e = [req[r] EXCEPT !.pc = "answered", !.session = s]
            BY <4>1, <5>2
          <5>5. /\ e \in PopupRequest /\ e.kind = req[r].kind /\ e.pc = "answered"
                /\ e.session = s /\ e.uses = req[r].uses /\ e.doc = req[r].doc
                /\ e.reg = req[r].reg /\ e.mail = req[r].mail
            BY <5>1, <5>3, <5>4 DEF PopupRequest
          <5> QED
            BY <5>1, <5>2, <5>5
        <4>4. Fits(e)
          BY <1>1, <2>2, <4>3, RequestPieces DEF Fits, Kinds
        <4>5. Advances(req[r], e)
          BY <1>1, <2>2, <4>3, <4>4 DEF Advances, Steady, Shown, Fits
        <4> QED
          BY <4>2, <4>5
      <3> QED
        BY <3>1, <3>2
    <2>4. /\ Requests(req)' /\ \A q \in Request : Steady(req[q], req'[q])
          /\ \A q \in Request : q # r => Rests(req[q], req'[q])
      BY <1>1, <2>3, OneGoesOn DEF Rests
    <2>5. Shrinks
      BY <1>1, <1>3, <2>1 DEF Shrinks, WorkerTyped
    <2>6. \A q \in Request : q \in pending' \/ (\E d \in Doc : waiting'[d] = q) => q # r
      BY <1>1, <2>1, <2>2, Bounds DEF WorkerFits, At
    <2>7. Worker'
      BY <1>1, <2>4, <2>5, <2>6, WorkerShrinks
    <2>8. TabTyped' /\ TabFits' /\ PortsTyped'
      BY <1>1, <1>2, <1>5, <2>1, <2>4, TabStays DEF PortsTyped
    <2> QED
      BY <1>3, <2>4, <2>7, <2>8 DEF XInv
  <1> QED
    BY <1>6, <1>7

\* A pairing begins, a page says it is locked or goes, a vault's tab goes.
LEMMA PageEndsKeep ==
  ASSUME XInv, NEW p \in Pairing,
         StartPair(p) \/ PageLocked(p) \/ PageGone(p) \/ VaultTabGone(p)
  PROVE  XInv'
  <1>1. WorkerTyped /\ PagesTyped /\ PortsTyped /\ PastTyped
    BY DEF XInv, Worker
  <1>2. UNCHANGED <<tab, unlocked, lapsed, filled>>
    BY DEF StartPair, PageLocked, PageGone, VaultTabGone, LockFrame, past, history
  <1>3. opening' \subseteq Pairing
    BY <1>1
    DEF StartPair, PageLocked, PageGone, VaultTabGone, LockFrame, WorkerTyped
  <1>4. PagesTyped'
    <2>1. page' \in {page, [page EXCEPT ![p] = "tab"], [page EXCEPT ![p] = "closed"]}
      BY DEF StartPair, PageLocked, PageGone, VaultTabGone, LockFrame
    <2> QED
      BY <1>1, <1>2, <2>1 DEF PagesTyped
  <1>5. PastTyped'
    <2>1. UNCHANGED events \/ Happens
      BY DEF StartPair, PageLocked, PageGone, VaultTabGone, LockFrame, past
    <2> QED
      BY <1>1, <1>2, <2>1, Bounds DEF PastTyped, Happens
  <1>6. PICK ups \in [Pairing -> Seq(Message)] :
          \/ Lock(req, ups)
          \/ up' = ups /\ UNCHANGED <<session, pairing, opening, registry, grants, captured,
                                      pending, req, conn, cut, down>>
    <2>1. up \in [Pairing -> Seq(Message)]
      BY <1>1 DEF PortsTyped
    <2>2. up[p] # <<>> => [up EXCEPT ![p] = Tail(@)] \in [Pairing -> Seq(Message)]
      BY PortSteps
    <2>3. [up EXCEPT ![p] = IF page[p] = "tab" THEN @ ELSE Append(@, Plain("gone"))]
            \in [Pairing -> Seq(Message)]
      <3>1. [up EXCEPT ![p] = Append(@, Plain("gone"))] \in [Pairing -> Seq(Message)]
        BY PortSteps
      <3> QED
        BY <2>1, <3>1
    <2>4. CASE StartPair(p)
      BY <2>1, <2>4 DEF StartPair
    <2>5. CASE PageLocked(p)
      BY <2>2, <2>5 DEF PageLocked, FromPage
    <2>6. CASE PageGone(p)
      BY <2>2, <2>6 DEF PageGone, FromPage, LockFrame
    <2>7. CASE VaultTabGone(p)
      BY <2>3, <2>7 DEF VaultTabGone
    <2> QED
      BY <2>4, <2>5, <2>6, <2>7
  <1>7. CASE Lock(req, ups)
    BY <1>2, <1>3, <1>4, <1>5, <1>7, LockedByPage
  <1>8. CASE ~Lock(req, ups)
    <2>1. Shrinks
      BY <1>1, <1>6, <1>8 DEF Shrinks, WorkerTyped, registry, captured
    <2>2. PortsTyped'
      BY <1>1, <1>6, <1>8 DEF PortsTyped
    <2> QED
      BY <1>2, <1>4, <1>5, <1>6, <1>8, <2>1, <2>2, PortKeeps
  <1> QED
    BY <1>7, <1>8

LEMMA StopTyped ==
  ASSUME XInv, NEW p \in Pairing, Stop(p) PROVE PagesTyped' /\ PortsTyped'
  <1>1. PagesTyped /\ PortsTyped
    BY DEF XInv
  <1>2. /\ page' = [page EXCEPT ![p] = "closed"]
        /\ up' = [up EXCEPT ![p] = IF p \in cut THEN <<>> ELSE @ \o LastWords]
        /\ down' = [down EXCEPT ![p] = <<>>]
        /\ UNCHANGED <<unlocked, cut>>
    BY DEF Stop
  <1>3. LastWords \in Seq(Message) /\ <<>> \in Seq(Message)
    <2>1. Plain("locked") \in Message /\ Plain("gone") \in Message
      BY AMessage
    <2> QED
      BY <2>1 DEF LastWords
  <1>4. /\ [up EXCEPT ![p] = <<>>] \in [Pairing -> Seq(Message)]
        /\ [up EXCEPT ![p] = @ \o LastWords] \in [Pairing -> Seq(Message)]
        /\ [down EXCEPT ![p] = <<>>] \in [Pairing -> Seq(Message)]
    BY <1>1, <1>3, MessagesTyped DEF PortsTyped
  <1>5. up' \in {[up EXCEPT ![p] = <<>>], [up EXCEPT ![p] = @ \o LastWords]}
    BY <1>2
  <1> QED
    BY <1>1, <1>2, <1>4, <1>5 DEF PagesTyped, PortsTyped

\* The steps of a companion: what it tells, receives and answers.
LEMMA CompanionKeeps ==
  ASSUME XInv, NEW p \in Pairing,
         \/ Connect(p) \/ StopWhenDue(p) \/ Dismiss(p) \/ LockVault(p)
         \/ ReceivePaired(p) \/ ReceiveGone(p)
         \/ \E kind \in Kinds, r \in Request : Receive(p, kind, r)
  PROVE  XInv'
  <1>1. PagesTyped /\ PortsTyped /\ PastTyped
    BY DEF XInv
  <1>2. UNCHANGED <<worker, req, conn, tab, lapsed, filled>>
    BY DEF Connect, StopWhenDue, Dismiss, LockVault, ReceivePaired, ReceiveGone, Receive, Stop,
           past, history
  <1>3. PastTyped'
    <2>1. UNCHANGED events \/ Happens
      BY DEF Connect, StopWhenDue, Dismiss, LockVault, ReceivePaired, ReceiveGone, Receive, past
    <2> QED
      BY <1>1, <1>2, <2>1, Bounds DEF PastTyped, Happens
  <1>4. PagesTyped' /\ PortsTyped'
    <2>1. CASE Stop(p)
      BY <2>1, StopTyped
    <2>2. CASE Connect(p)
      <3>1. /\ page' = [page EXCEPT ![p] = "connecting"] /\ UNCHANGED <<unlocked, down, cut>>
            /\ up' = [up EXCEPT ![p] = <<Plain("connect"), Plain("hello")>>]
        BY <2>2 DEF Connect
      <3>2. Plain("connect") \in Message /\ Plain("hello") \in Message
        BY AMessage
      <3>3. <<Plain("connect"), Plain("hello")>> \in Seq(Message)
        BY <3>2
      <3> QED
        BY <1>1, <3>1, <3>3, MessagesTyped DEF PagesTyped, PortsTyped
    <2>3. CASE LockVault(p)
      BY <1>1, <2>3 DEF LockVault, PagesTyped, PortsTyped
    <2>4. CASE ReceivePaired(p) /\ ~Stop(p)
      <3>1. /\ page' = [page EXCEPT ![p] = "paired"] /\ UNCHANGED <<unlocked, up, cut>>
            /\ down[p] # <<>> /\ down' = [down EXCEPT ![p] = Tail(@)]
        BY <2>4 DEF ReceivePaired, FromWorker
      <3> QED
        BY <1>1, <3>1, PortSteps DEF PagesTyped, PortsTyped
    <2>5. ASSUME NEW kind \in Kinds, NEW r \in Request, Receive(p, kind, r), ~Stop(p)
          PROVE  PagesTyped' /\ PortsTyped'
      <3>1. /\ UNCHANGED <<page, unlocked, cut>>
            /\ down[p] # <<>> /\ down' = [down EXCEPT ![p] = Tail(@)]
            /\ up' = up \/ \E ok \in BOOLEAN : up' = [up EXCEPT ![p] = Append(@, About("answer", r, ok))]
        BY <2>5 DEF Receive, FromWorker
      <3>2. \A ok \in BOOLEAN : About("answer", r, ok) \in Message
        BY AMessage, Bounds
      <3>3. \A ok \in BOOLEAN :
              [up EXCEPT ![p] = Append(@, About("answer", r, ok))] \in [Pairing -> Seq(Message)]
        BY <1>1, <3>2, MessagesTyped DEF PortsTyped
      <3>4. up' \in [Pairing -> Seq(Message)]
        BY <1>1, <3>1, <3>3 DEF PortsTyped
      <3> QED
        BY <1>1, <3>1, <3>4, PortSteps DEF PagesTyped, PortsTyped
    <2> QED
      BY <2>1, <2>2, <2>3, <2>4, <2>5 DEF StopWhenDue, Dismiss, ReceiveGone
  <1> QED
    BY <1>2, <1>3, <1>4, WorkerIs, PortKeeps

-----------------------------------------------------------------------------
(* The inductive invariant *)

LEMMA InitXInv == Init => XInv
  <1> SUFFICES ASSUME Init PROVE XInv
    OBVIOUS
  <1>1. Requests(req)
    <2>1. NoRequest \in PopupRequest /\ Fits(NoRequest) /\ NoRequest.kind = "none"
      BY Bounds DEF NoRequest, PopupRequest, Fits, Over
    <2> QED
      BY <2>1 DEF Init, Requests
  <1>2. Worker
    BY Bounds DEF Init, Worker, WorkerTyped, WorkerFits, LockedIsEmpty, CaptureIsOfDocument
  <1>3. TabTyped /\ TabFits
    <2>1. NoScript \in [port : Number, form : Number, watch : Number] /\ NoScript.watch = 0
      BY Bounds DEF NoScript
    <2> QED
      BY <2>1 DEF Init, TabTyped, TabFits
  <1>4. PagesTyped /\ PortsTyped /\ PastTyped
    <2>1. <<>> \in Seq(Message)
      OBVIOUS
    <2> HIDE DEF Message
    <2> QED
      BY <2>1, Bounds DEF Init, PagesTyped, PortsTyped, PastTyped
  <1> QED
    BY <1>1, <1>2, <1>3, <1>4 DEF XInv

LEMMA HandlerKeeps == ASSUME XInv, NEW r \in Request, Starts(r) \/ Handler(r) PROVE XInv'
  <1>1. CASE Starts(r)
    BY <1>1, StartListKeeps, StartUseKeeps, SessionMissingKeeps DEF Starts
  <1>2. CASE Handler(r)
    BY <1>2, TargetKeeps, CheckKeeps, RegisterKeeps, AskKeeps, IssueGrantKeeps,
       SendCredentialKeeps, ArmCaptureKeeps, EndsKeep, ProposeKeeps, WaitTimerKeeps,
       SessionMissingKeeps
    DEF Handler
  <1> QED
    BY <1>1, <1>2

LEMMA PairingKeeps == ASSUME XInv, NEW p \in Pairing, Port(p) \/ Pair(p) PROVE XInv'
  BY ConnectsKeep, HelloKeeps, AnswerKeeps, PageEndsKeep, CompanionKeeps DEF Port, Pair

LEMMA PageKeeps == ASSUME XInv, Page PROVE XInv'
  BY ForgetKeeps, NavigateKeeps, ScriptKeeps, ConnectedKeeps, SubmittedKeeps, InjectKeeps,
     ContentMessageKeeps
  DEF Page

LEMMA TimeKeeps == ASSUME XInv, Time PROVE XInv'
  BY LocksKeep, TimersKeep, ForgetKeeps DEF Time

LEMMA NextXInv == XInv /\ [Next]_vars => XInv'
  <1> SUFFICES ASSUME XInv, [Next]_vars PROVE XInv'
    OBVIOUS
  <1>1. CASE Next
    BY <1>1, HandlerKeeps, PairingKeeps, PageKeeps, TimeKeeps DEF Next
  <1>2. CASE UNCHANGED vars
    BY <1>2, WorkerIs, PastStays, PortsStay, PortKeeps DEF vars, XInv
  <1> QED
    BY <1>1, <1>2

LEMMA Invariance == Spec => []XInv
  BY InitXInv, NextXInv, PTL DEF Spec

\* Every variable has its type: each handler, message, timer and lock() of the
\* worker, every step of the content script and of the companion keeps them, for
\* any number of documents, popup requests and pairings.
THEOREM ExtensionTyped == Spec => []TypeOK
  <1>1. XInv => TypeOK
    BY DEF XInv, Requests, Worker, WorkerTyped, TabTyped, PagesTyped, PortsTyped, PastTyped, TypeOK
  <1> QED
    BY <1>1, Invariance, PTL

\* What the worker holds is live (background.ts lock, requireDocument, forget):
\* without a session it holds no grant, no pending request, no document and no
\* captured login, and an armed watch or a captured login is of a document that
\* is registered still by the same run of the content script, whatever the order
\* in which handlers resume, ports close, tabs move on and timers fire.
THEOREM HeldStaysLive == Spec => []HeldIsLive
  <1>1. XInv => HeldIsLive
    BY DEF XInv, Worker, HeldIsLive
  <1> QED
    BY <1>1, Invariance, PTL

-----------------------------------------------------------------------------
(* The worker implements the permissions                                   *)
(*                                                                         *)
(* A permission is for the session its list was made in.  A pairing that   *)
(* was the session once never is again, so a request that finds the        *)
(* session of its list still there has been in it all the time, and what   *)
(* the vault answered it is of that session.                               *)

\* A pairing that is, or may become, the session has begun; never twice.
Links ==
  /\ \A p \in opening : page[p] # "none"
  /\ pairing # 0 => pairing \notin opening /\ page[pairing] # "none"
  /\ session # 0 => /\ session \notin opening /\ session # pairing
                    /\ page[session] # "none"

\* A pairing that is not the session any more.
Past(p) ==
  p \in Pairing /\ p \notin {session, pairing} /\ p \notin opening /\ page[p] # "none"

\* A request names a session there is or was.
Sessions ==
  \A r \in Request :
    /\ req[r].session # 0 => req[r].session = session \/ Past(req[r].session)
    /\ Shown(req[r]) => req[r].session # 0

\* A request that uses the grant of a list.
IsUse(q) == q.kind \in {"fill", "watch"}
Active(q) == IsUse(q) /\ q.pc \notin Over \cup {"acked"}

\* Until it sends a message to the page.
Proceeds(q) == IsUse(q) /\ q.pc \in Using

\* At most one request gets a grant to use.
OneUse ==
  /\ \A t \in grants, r \in Request : IsUse(req[r]) => req[r].uses # t
  /\ \A r, q \in Request :
       Active(req[r]) /\ Active(req[q]) /\ req[r].uses = req[q].uses => r = q

\* A fill that has the credential, or sent it.
HasCredential(q) == q.kind = "fill" /\ q.pc \in {"answered", "send"}

\* A credential that may be sent is of the session of its list, and so is one
\* that was sent.
Credentials ==
  /\ \A r \in Request : HasCredential(req[r]) =>
       \/ req[r].session = req[req[r].uses].session
       \/ Past(req[req[r].uses].session)
  /\ \A r \in Request : req[r].mail = "fill" =>
       req[r].pc = "acking" /\ req[r].session = req[req[r].uses].session

\* So is one that was filled in, and it is in the document of the list.
Filled ==
  \A f \in filled : /\ Shown(req[f.token]) /\ f.doc = req[f.token].doc
                    /\ f.session = req[f.token].session

PInv == Links /\ Sessions /\ OneUse /\ Credentials /\ Filled

\* How the session, the pairing and the pairings being opened may change.
Relinks ==
  /\ \A p \in Pairing : page[p] # "none" => page'[p] # "none"
  /\ \/ UNCHANGED <<session, pairing, opening>>
     \/ session' = 0 /\ pairing' = 0 /\ UNCHANGED opening
     \/ /\ session' = 0 /\ pairing' = 0
        /\ \E p \in Pairing : page[p] = "none" /\ page'[p] # "none" /\ opening' = opening \cup {p}
     \/ \E p \in opening : opening' = opening \ {p} /\ pairing' = p /\ UNCHANGED session
     \/ pairing' = 0 /\ UNCHANGED <<session, opening>>
     \/ pairing # 0 /\ session' = pairing /\ pairing' = 0 /\ UNCHANGED opening

\* What was the session is so still, or for good no more.
Turns ==
  \A p \in Pairing :
    /\ p = session => p = session' \/ Past(p)'
    /\ Past(p) => Past(p)'

LEMMA RelinksTurns == ASSUME XInv, XInv', Links, Relinks PROVE Links' /\ Turns
  <1>1. /\ session \in 0..MaxPairings /\ pairing \in 0..MaxPairings /\ opening \subseteq Pairing
        /\ Pairing = (0..MaxPairings) \ {0} /\ 0 \notin Pairing
    BY Bounds DEF XInv, Worker, WorkerTyped
  <1>2. \A p \in Pairing : page[p] # "none" => page'[p] # "none"
    BY DEF Relinks
  <1>3. Links'
    BY <1>1, <1>2 DEF Links, Relinks
  <1>4. ASSUME NEW p \in Pairing, p = session PROVE p = session' \/ Past(p)'
    <2>1. p # pairing /\ p \notin opening /\ page[p] # "none" /\ page'[p] # "none" /\ p # 0
      BY <1>1, <1>2, <1>4 DEF Links
    <2> QED
      BY <1>1, <1>4, <2>1 DEF Relinks, Past
  <1>5. ASSUME NEW p \in Pairing, Past(p) PROVE Past(p)'
    <2>1. p # session /\ p # pairing /\ p \notin opening /\ page[p] # "none" /\ page'[p] # "none"
      BY <1>2, <1>5 DEF Past
    <2> QED
      BY <1>1, <1>5, <2>1 DEF Relinks, Past
  <1> QED
    BY <1>3, <1>4, <1>5 DEF Turns

\* A request q that becomes e when the session is s: no grant, use or credential
\* is new but what the vault answered in that session.
Calm(q, e, s) ==
  /\ Steady(q, e)
  /\ Shown(e) => Shown(q)
  /\ Shown(q) => e.session = q.session
  /\ Active(e) => Active(q)
  /\ Proceeds(e) => Proceeds(q)
  /\ HasCredential(e) => e.session = s \/ (HasCredential(q) /\ e.session = q.session)
  /\ e.session \in {0, q.session, s}

\* A credential on its way is of the session of its list, and sent before or not.
MailIsOfList(e) == e.mail = "fill" => e.pc = "acking" /\ e.session = req[e.uses].session
MailStays(q, e) == MailIsOfList(e) /\ (e.mail = "fill" => q.mail = "fill")

Calms ==
  /\ \A r \in Request :
       /\ Calm(req[r], req'[r], session')
       /\ MailIsOfList(req'[r])
       /\ req[r].kind = "none" /\ IsUse(req'[r]) => req'[r].uses \notin grants'
  /\ grants' \subseteq grants

\* No credential is sent either.
Quiet == Calms /\ \A r \in Request : MailStays(req[r], req'[r])

LEMMA UsesShown ==
  ASSUME Requests(req), NEW r \in Request, IsUse(req[r])
  PROVE  req[r].uses \in Request /\ Shown(req[req[r].uses])
  BY DEF Requests, IsUse

LEMMA UsesOld ==
  ASSUME NEW r \in Request, Calm(req[r], req'[r], session'), Active(req'[r])
  PROVE  Active(req[r]) /\ req'[r].kind = req[r].kind /\ req'[r].uses = req[r].uses
  BY DEF Calm, Active, IsUse, Steady

LEMMA UsesProceeds ==
  ASSUME NEW r \in Request, Calm(req[r], req'[r], session'), Proceeds(req'[r])
  PROVE  Proceeds(req[r]) /\ req'[r].uses = req[r].uses
  BY DEF Calm, Proceeds, IsUse, Steady

LEMMA CalmsKeep ==
  ASSUME XInv, XInv', PInv, Links', Turns, Calms
  PROVE  /\ Sessions' /\ OneUse' /\ Credentials'
         /\ UNCHANGED filled => Filled'
  <1>1. /\ Requests(req) /\ Requests(req)' /\ req \in [Request -> PopupRequest]
        /\ session \in 0..MaxPairings /\ session' \in 0..MaxPairings /\ PastTyped
        /\ Links /\ Sessions /\ OneUse /\ Credentials /\ Filled
    BY DEF XInv, Worker, WorkerTyped, Requests, PInv
  <1>2. \A r \in Request : Calm(req[r], req'[r], session')
    BY DEF Calms
  <1>3. ASSUME NEW p, p = session \/ Past(p), p # 0 PROVE p = session' \/ Past(p)'
    <2>1. p \in Pairing
      BY <1>1, <1>3, Bounds DEF Past
    <2> QED
      BY <1>3, <2>1 DEF Turns
  <1>4. Sessions'
    <2>1. ASSUME NEW r \in Request, req'[r].session # 0
          PROVE  (req[r].session = session \/ Past(req[r].session))'
      <3>1. PICK p : p = req'[r].session
        OBVIOUS
      <3>2. CASE p = session'
        BY <3>1, <3>2
      <3>3. CASE p = req[r].session
        <4>1. p = session \/ Past(p)
          BY <1>1, <2>1, <3>1, <3>3 DEF Sessions
        <4>2. p = session' \/ Past(p)'
          BY <1>3, <2>1, <3>1, <4>1
        <4> QED
          BY <3>1, <4>2 DEF Past
      <3> QED
        BY <1>2, <2>1, <3>1, <3>2, <3>3 DEF Calm
    <2>2. ASSUME NEW r \in Request, Shown(req'[r]) PROVE req'[r].session # 0
      BY <1>1, <1>2, <2>2 DEF Calm, Sessions
    <2> QED
      BY <2>1, <2>2 DEF Sessions
  <1>5. OneUse'
    <2>1. ASSUME NEW t \in grants', NEW r \in Request, IsUse(req'[r]) PROVE req'[r].uses # t
      <3>1. CASE req[r].kind = "none"
        BY <2>1, <3>1 DEF Calms
      <3>2. CASE req[r].kind # "none"
        <4>1. IsUse(req[r]) /\ req'[r].uses = req[r].uses
          BY <1>2, <2>1, <3>2 DEF Calm, Steady, IsUse
        <4> QED
          BY <1>1, <2>1, <4>1 DEF Calms, OneUse
      <3> QED
        BY <3>1, <3>2
    <2>2. ASSUME NEW r \in Request, NEW q \in Request, Active(req'[r]), Active(req'[q]),
                 req'[r].uses = req'[q].uses
          PROVE  r = q
      <3>1. /\ Active(req[r]) /\ req'[r].uses = req[r].uses
            /\ Active(req[q]) /\ req'[q].uses = req[q].uses
        BY <1>2, <2>2, UsesOld
      <3> QED
        BY <1>1, <2>2, <3>1 DEF OneUse
    <2> QED
      BY <2>1, <2>2 DEF OneUse
  <1>6. ASSUME NEW t \in Request, Shown(req[t])
        PROVE  /\ Shown(req'[t]) /\ req'[t].doc = req[t].doc /\ req'[t].session = req[t].session
               /\ \E p : p = req[t].session /\ (p = session' \/ Past(p)')
    <2>1. Shown(req'[t]) /\ req'[t].doc = req[t].doc /\ req'[t].session = req[t].session
      BY <1>2, <1>6 DEF Calm, Steady, Shown
    <2>2. PICK p : p = req[t].session
      OBVIOUS
    <2>3. p # 0 /\ (p = session \/ Past(p))
      BY <1>1, <1>6, <2>2 DEF Sessions
    <2>4. p = session' \/ Past(p)'
      BY <1>3, <2>3
    <2> QED
      BY <2>1, <2>2, <2>4
  <1>7. ASSUME NEW r \in Request, HasCredential(req'[r])
        PROVE  \/ req'[r].session = req'[req'[r].uses].session
               \/ Past(req[req[r].uses].session)'
    <2>1. Active(req[r]) /\ req'[r].kind = req[r].kind /\ req'[r].uses = req[r].uses
      BY <1>2, <1>7, UsesOld DEF HasCredential, Active, IsUse, Over
    <2>2. PICK t \in Request : t = req[r].uses /\ Shown(req[t])
      BY <1>1, <2>1, UsesShown DEF Active
    <2>3. PICK p : p = req[t].session
      OBVIOUS
    <2>4. req'[t].session = p /\ (p = session' \/ Past(p)')
      BY <1>6, <2>2, <2>3
    <2>5. req'[r].session = p \/ Past(p)'
      <3>1. CASE req'[r].session = session'
        BY <2>4, <3>1
      <3>2. CASE HasCredential(req[r]) /\ req'[r].session = req[r].session
        <4>1. req[r].session = p \/ Past(p)
          BY <1>1, <2>2, <2>3, <3>2 DEF Credentials
        <4>2. p \in Pairing => (Past(p) => Past(p)')
          BY DEF Turns
        <4>3. Past(p) => p \in Pairing
          BY DEF Past
        <4> QED
          BY <3>2, <4>1, <4>2, <4>3
      <3> QED
        BY <1>2, <1>7, <3>1, <3>2 DEF Calm
    <2> QED
      BY <2>1, <2>2, <2>4, <2>5 DEF Past
  <1>8. ASSUME NEW r \in Request, req'[r].mail = "fill"
        PROVE  req'[r].pc = "acking" /\ req'[r].session = req'[req'[r].uses].session
    <2>1. req'[r].pc = "acking" /\ req'[r].session = req[req'[r].uses].session
      BY <1>8 DEF Calms, MailIsOfList
    <2>2. req'[r].kind = "fill"
      BY <1>1, <1>8 DEF Requests, Fits
    <2>3. req'[r].uses \in Request /\ Shown(req'[req'[r].uses])
      BY <1>1, <2>2 DEF Requests
    <2>4. PICK t \in Request : t = req'[r].uses
      BY <2>3
    <2>5. Shown(req[t])
      BY <1>2, <2>3, <2>4 DEF Calm
    <2> QED
      BY <1>6, <2>1, <2>4, <2>5
  <1>9. Credentials'
    BY <1>7, <1>8 DEF Credentials
  <1>10. UNCHANGED filled => Filled'
    BY <1>1, <1>6 DEF Filled, PastTyped
  <1> QED
    BY <1>4, <1>5, <1>9, <1>10

\* The open session and the state of the permissions, as ImplementsCapability
\* names them.
Opened == IF SessionLive THEN {session} ELSE {}
StatusOf(t) ==
  CASE ~ListShown(t) -> "unissued"
    [] t \in grants -> "held"
    [] \E r \in Users(t) : req[r].pc \in Using -> "used"
    [] \E r \in Users(t) : req[r].mail = "fill" -> "sent"
    [] OTHER -> "spent"
TargetOf(t) == IF ListShown(t) THEN {<<req[t].doc, req[t].session>>} ELSE {}
GivenTo(t) == {<<f.doc, f.session>> : f \in {f \in filled : f.token = t}}

\* A request that consumed the grant goes on, or sent the credential.
InUse(t) == \E r \in Request : Proceeds(req[r]) /\ req[r].uses = t
OnItsWay(t) == \E r \in Request : req[r].mail = "fill" /\ req[r].uses = t

StatusFits(t) ==
  /\ ~Shown(req[t]) => StatusOf(t) = "unissued" /\ t \notin grants /\ ~InUse(t) /\ ~OnItsWay(t)
  /\ t \in grants => StatusOf(t) = "held" /\ Shown(req[t]) /\ ~InUse(t) /\ ~OnItsWay(t)
  /\ InUse(t) => StatusOf(t) = "used" /\ Shown(req[t]) /\ t \notin grants /\ ~OnItsWay(t)
  /\ OnItsWay(t) => StatusOf(t) = "sent" /\ Shown(req[t]) /\ t \notin grants /\ ~InUse(t)
  /\ Shown(req[t]) /\ t \notin grants /\ ~InUse(t) /\ ~OnItsWay(t) => StatusOf(t) = "spent"

LEMMA StatusIs == XInv /\ PInv => \A t \in Request : StatusFits(t)
  <1> SUFFICES ASSUME XInv, PInv, NEW t \in Request PROVE StatusFits(t)
    OBVIOUS
  <1>1. Requests(req) /\ WorkerFits /\ OneUse /\ Credentials /\ \A r \in Request : Fits(req[r])
    BY DEF XInv, Worker, PInv, Requests
  <1>2. ListShown(t) <=> Shown(req[t])
    BY DEF ListShown, Shown, At
  <1>3. (\E r \in Users(t) : req[r].pc \in Using) <=> InUse(t)
    BY DEF Users, InUse, Proceeds, IsUse
  <1>4. \A r \in Request : req[r].mail = "fill" => Active(req[r]) /\ ~Proceeds(req[r])
    BY <1>1 DEF Credentials, Fits, Active, Proceeds, Using, IsUse, Over
  <1>5. \A r \in Request : Proceeds(req[r]) => Active(req[r])
    BY DEF Active, Proceeds, Using, Over
  <1>6. (\E r \in Users(t) : req[r].mail = "fill") <=> OnItsWay(t)
    BY <1>4 DEF Users, OnItsWay, Active, IsUse
  <1>7. t \in grants => Shown(req[t]) /\ ~InUse(t) /\ ~OnItsWay(t)
    BY <1>1, <1>2, <1>4, <1>5 DEF WorkerFits, OneUse, InUse, OnItsWay, Active
  <1>8. InUse(t) \/ OnItsWay(t) => Shown(req[t])
    BY <1>1, <1>4, <1>5, UsesShown DEF InUse, OnItsWay, Active
  <1>9. ~(InUse(t) /\ OnItsWay(t))
    BY <1>1, <1>4, <1>5 DEF InUse, OnItsWay, OneUse
  <1> QED
    BY <1>2, <1>3, <1>6, <1>7, <1>8, <1>9 DEF StatusOf, StatusFits

\* The same, after a step.
LEMMA StatusIsThen ==
  XInv' /\ PInv' =>
    \A t \in Request :
      /\ ~Shown(req'[t]) =>
           StatusOf(t)' = "unissued" /\ t \notin grants' /\ ~InUse(t)' /\ ~OnItsWay(t)'
      /\ t \in grants' =>
           StatusOf(t)' = "held" /\ Shown(req'[t]) /\ ~InUse(t)' /\ ~OnItsWay(t)'
      /\ InUse(t)' =>
           StatusOf(t)' = "used" /\ Shown(req'[t]) /\ t \notin grants' /\ ~OnItsWay(t)'
      /\ OnItsWay(t)' =>
           StatusOf(t)' = "sent" /\ Shown(req'[t]) /\ t \notin grants' /\ ~InUse(t)'
      /\ Shown(req'[t]) /\ t \notin grants' /\ ~InUse(t)' /\ ~OnItsWay(t)' =>
           StatusOf(t)' = "spent"
  <1>1. (XInv /\ PInv => \A t \in Request : StatusFits(t))'
    BY StatusIs, PTL
  <1> QED
    BY <1>1 DEF StatusFits

\* Permissions are revoked and a session is closed, or nothing happens to them.
LEMMA Revokes ==
  ASSUME NEW revoked \in SUBSET Request,
         \A t \in revoked : StatusOf(t) \in {"held", "used", "sent"},
         \A t \in Request : StatusOf(t)' = IF t \in revoked THEN "spent" ELSE StatusOf(t),
         \A t \in Request : TargetOf(t)' = TargetOf(t) /\ GivenTo(t)' = GivenTo(t),
         Opened' \subseteq Opened
  PROVE  [Capability!Next]_Capability!vars
  <1> DEFINE status == [t \in Request |-> StatusOf(t)]
             target == [t \in Request |-> TargetOf(t)]
             given == [t \in Request |-> GivenTo(t)]
  <1>1. /\ \A t \in revoked : status[t] \in {"held", "used", "sent"}
        /\ status' = [t \in Request |-> IF t \in revoked THEN "spent" ELSE status[t]]
        /\ target' = target /\ given' = given /\ Opened' \in SUBSET Opened
    OBVIOUS
  <1>2. Capability!Revoke
    BY <1>1 DEF Capability!Revoke, StatusOf, TargetOf, GivenTo, Opened
  <1> QED
    BY <1>2 DEF Capability!Next

\* A session opens, of which there is no permission.
LEMMA Opens ==
  ASSUME NEW p \in Pairing, Opened' = {p},
         \A t \in Request : TargetOf(t) \cap (Doc \X {p}) = {},
         \A t \in Request : /\ StatusOf(t)' = StatusOf(t) /\ TargetOf(t)' = TargetOf(t)
                            /\ GivenTo(t)' = GivenTo(t)
  PROVE  [Capability!Next]_Capability!vars
  <1> DEFINE status == [t \in Request |-> StatusOf(t)]
             target == [t \in Request |-> TargetOf(t)]
             given == [t \in Request |-> GivenTo(t)]
  <1>1. /\ status' = status /\ target' = target /\ given' = given /\ Opened' = {p}
        /\ \A t \in Request : target[t] \cap (Doc \X {p}) = {}
    OBVIOUS
  <1>2. Capability!Open(p)
    BY <1>1 DEF Capability!Open, StatusOf, TargetOf, GivenTo, Opened
  <1> QED
    BY <1>2 DEF Capability!Next

\* The step of a permission that was issued, used, sent for or ended in a
\* credential.
LEMMA Grants ==
  ASSUME NEW r \in Request, Opened' = Opened,
         \A t \in Request \ {r} : /\ StatusOf(t)' = StatusOf(t) /\ TargetOf(t)' = TargetOf(t)
                                  /\ GivenTo(t)' = GivenTo(t),
         \/ /\ StatusOf(r) = "unissued" /\ StatusOf(r)' = "held" /\ GivenTo(r)' = GivenTo(r)
            /\ \E x \in Doc \X Opened : TargetOf(r)' = {x}
         \/ /\ <<StatusOf(r), StatusOf(r)'>> \in {<<"held", "used">>, <<"used", "sent">>}
            /\ TargetOf(r) \subseteq Doc \X Opened
            /\ TargetOf(r)' = TargetOf(r) /\ GivenTo(r)' = GivenTo(r)
         \/ /\ StatusOf(r) = "sent" /\ StatusOf(r)' = "spent"
            /\ TargetOf(r)' = TargetOf(r) /\ GivenTo(r)' = TargetOf(r)
  PROVE  [Capability!Next]_Capability!vars
  <1> DEFINE status == [t \in Request |-> StatusOf(t)]
             target == [t \in Request |-> TargetOf(t)]
             given == [t \in Request |-> GivenTo(t)]
  <1>1. CASE /\ StatusOf(r) = "unissued" /\ StatusOf(r)' = "held" /\ GivenTo(r)' = GivenTo(r)
             /\ \E x \in Doc \X Opened : TargetOf(r)' = {x}
    <2>1. /\ status[r] = "unissued" /\ status' = [status EXCEPT ![r] = "held"]
          /\ \E x \in Doc \X Opened : target' = [target EXCEPT ![r] = {x}]
          /\ given' = given /\ Opened' = Opened
      BY <1>1
    <2>2. Capability!Issue(r)
      BY <2>1 DEF Capability!Issue, StatusOf, TargetOf, GivenTo, Opened
    <2> QED
      BY <2>2 DEF Capability!Next
  <1>2. ASSUME NEW from, NEW to, StatusOf(r) = from, StatusOf(r)' = to,
               TargetOf(r) \subseteq Doc \X Opened,
               TargetOf(r)' = TargetOf(r), GivenTo(r)' = GivenTo(r)
        PROVE  Capability!Proceed(r, from, to)
    <2>1. /\ status[r] = from /\ status' = [status EXCEPT ![r] = to]
          /\ target[r] \subseteq Doc \X Opened
          /\ target' = target /\ given' = given /\ Opened' = Opened
      BY <1>2
    <2> QED
      BY <2>1 DEF Capability!Proceed, StatusOf, TargetOf, GivenTo, Opened
  <1>3. CASE /\ <<StatusOf(r), StatusOf(r)'>> \in {<<"held", "used">>, <<"used", "sent">>}
             /\ TargetOf(r) \subseteq Doc \X Opened
             /\ TargetOf(r)' = TargetOf(r) /\ GivenTo(r)' = GivenTo(r)
    <2>1. CASE StatusOf(r) = "held" /\ StatusOf(r)' = "used"
      <3>1. Capability!Use(r)
        BY <1>2, <1>3, <2>1 DEF Capability!Use
      <3> QED
        BY <3>1 DEF Capability!Next
    <2>2. CASE StatusOf(r) = "used" /\ StatusOf(r)' = "sent"
      <3>1. Capability!Send(r)
        BY <1>2, <1>3, <2>2 DEF Capability!Send
      <3> QED
        BY <3>1 DEF Capability!Next
    <2> QED
      BY <1>3, <2>1, <2>2
  <1>4. CASE /\ StatusOf(r) = "sent" /\ StatusOf(r)' = "spent"
             /\ TargetOf(r)' = TargetOf(r) /\ GivenTo(r)' = TargetOf(r)
    <2>1. /\ status[r] = "sent" /\ status' = [status EXCEPT ![r] = "spent"]
          /\ given' = [given EXCEPT ![r] = target[r]] /\ target' = target /\ Opened' = Opened
      BY <1>4
    <2>2. Capability!Give(r)
      BY <2>1 DEF Capability!Give, StatusOf, TargetOf, GivenTo, Opened
    <2> QED
      BY <2>2 DEF Capability!Next
  <1> QED
    BY <1>1, <1>3, <1>4

\* A session is at most closed.
Closes == session' \in {0, session} /\ lapsed \subseteq lapsed'

LEMMA OpenedShrinks == ASSUME Closes PROVE Opened' \subseteq Opened
  BY DEF Closes, Opened, SessionLive, Passed

LEMMA QuietRefines ==
  ASSUME XInv, XInv', PInv, PInv', Quiet, Closes, UNCHANGED filled
  PROVE  [Capability!Next]_Capability!vars
  <1>1. \A r \in Request : Calm(req[r], req'[r], session') /\ MailStays(req[r], req'[r])
    BY DEF Quiet, Calms
  <1>2. \A r \in Request : req[r].mail = "fill" => req[r].kind # "none"
    BY DEF XInv, Requests, Fits
  <1>3. ASSUME NEW t \in Request
        PROVE  /\ Shown(req'[t]) <=> Shown(req[t])
               /\ t \in grants' => t \in grants
               /\ InUse(t)' => InUse(t)
               /\ OnItsWay(t)' => OnItsWay(t)
               /\ TargetOf(t)' = TargetOf(t) /\ GivenTo(t)' = GivenTo(t)
    <2>1. Shown(req'[t]) <=> Shown(req[t])
      BY <1>1 DEF Calm, Steady, Shown
    <2>2. Shown(req[t]) => req'[t].doc = req[t].doc /\ req'[t].session = req[t].session
      BY <1>1 DEF Calm, Steady
    <2>3. InUse(t)' => InUse(t)
      BY <1>1, UsesProceeds DEF InUse
    <2>4. OnItsWay(t)' => OnItsWay(t)
      BY <1>1, <1>2 DEF OnItsWay, MailStays, MailIsOfList, Calm, Steady
    <2>5. TargetOf(t)' = TargetOf(t)
      BY <2>1, <2>2 DEF TargetOf, ListShown, Shown, At
    <2>6. GivenTo(t)' = GivenTo(t)
      BY DEF GivenTo
    <2> QED
      BY <2>1, <2>3, <2>4, <2>5, <2>6 DEF Quiet, Calms
  <1>4. PICK revoked \in SUBSET Request :
          \A t \in Request :
            t \in revoked <=> /\ t \in grants \/ InUse(t) \/ OnItsWay(t)
                              /\ t \notin grants' /\ ~InUse(t)' /\ ~OnItsWay(t)'
    <2>1. {t \in Request : /\ t \in grants \/ InUse(t) \/ OnItsWay(t)
                           /\ t \notin grants' /\ ~InUse(t)' /\ ~OnItsWay(t)'} \in SUBSET Request
      OBVIOUS
    <2> QED
      BY <2>1
  <1>5. ASSUME NEW t \in Request
        PROVE  StatusOf(t)' = IF t \in revoked THEN "spent" ELSE StatusOf(t)
    BY <1>3, <1>4, StatusIs, StatusIsThen DEF StatusFits
  <1>6. \A t \in revoked : StatusOf(t) \in {"held", "used", "sent"}
    BY <1>4, StatusIs DEF StatusFits
  <1> QED
    BY <1>3, <1>5, <1>6, OpenedShrinks, Revokes

\* What a quiet step does is revoke permissions or close a session.
LEMMA QuietSteps ==
  ASSUME XInv, XInv', PInv, Relinks, Quiet, Closes, UNCHANGED filled
  PROVE  PInv' /\ [Capability!Next]_Capability!vars
  <1>1. Links' /\ Turns
    BY RelinksTurns DEF PInv
  <1>2. PInv'
    BY <1>1, CalmsKeep DEF PInv, Quiet
  <1> QED
    BY <1>2, QuietRefines

-----------------------------------------------------------------------------
(* Quiet steps *)

LEMMA NoneBegins ==
  ASSUME XInv, PInv, UNCHANGED req, grants' \subseteq grants
  PROVE  Quiet
  <1>1. ASSUME NEW r \in Request
        PROVE  /\ Calm(req[r], req'[r], session') /\ MailStays(req[r], req'[r])
               /\ req[r].kind = "none" => ~IsUse(req'[r])
    BY DEF XInv, Requests, Fits, Calm, Steady, MailStays, MailIsOfList, IsUse, PInv, Credentials
  <1> QED
    BY <1>1 DEF Quiet, Calms, MailStays, MailIsOfList

\* Request r becomes e.
LEMMA OneCalm ==
  ASSUME XInv, PInv, NEW r \in Request, NEW e, Calm(req[r], e, session'), MailIsOfList(e),
         req[r].kind = "none" /\ IsUse(e) => e.uses \notin grants',
         req' = [req EXCEPT ![r] = e], grants' \subseteq grants
  PROVE  Calms /\ req'[r] = e /\ \A q \in Request \ {r} : MailStays(req[q], req'[q])
  <1>1. req \in [Request -> PopupRequest] /\ \A q \in Request : Fits(req[q])
    BY DEF XInv, Requests
  <1>2. req'[r] = e /\ \A q \in Request \ {r} : req'[q] = req[q]
    BY <1>1
  <1>3. ASSUME NEW q \in Request \ {r}
        PROVE  /\ Calm(req[q], req'[q], session') /\ MailStays(req[q], req'[q])
               /\ req[q].kind = "none" => ~IsUse(req'[q])
    BY <1>1, <1>2 DEF Fits, Calm, Steady, MailStays, MailIsOfList, IsUse, PInv, Credentials
  <1> QED
    BY <1>2, <1>3 DEF Calms, MailStays, MailIsOfList

LEMMA OneQuiet ==
  ASSUME XInv, PInv, NEW r \in Request, NEW e, Calm(req[r], e, session'), MailStays(req[r], e),
         req[r].kind = "none" /\ IsUse(e) => e.uses \notin grants',
         req' = [req EXCEPT ![r] = e], grants' \subseteq grants
  PROVE  Quiet
  <1>1. MailIsOfList(e)
    BY DEF MailStays, MailIsOfList
  <1>2. Calms /\ req'[r] = e /\ \A q \in Request \ {r} : MailStays(req[q], req'[q])
    BY <1>1, OneCalm
  <1> QED
    BY <1>2 DEF Quiet

\* A request that ends gives up what it had.
LEMMA EndedQuiet ==
  ASSUME XInv, PInv, NEW r \in Request, req[r].pc \notin {"none", "done"},
         req' = Ended(req, r), grants' \subseteq grants
  PROVE  Quiet
  <1>1. Requests(req) /\ req[r].kind # "none" /\ ~Shown(req[r])
    BY DEF XInv, Requests, Fits, Shown
  <1>2. PICK e : e = Ended(req, r)[r]
    OBVIOUS
  <1>3. /\ Steady(req[r], e) /\ req' = [req EXCEPT ![r] = e]
        /\ e.pc = "failed" /\ e.session = 0 /\ e.mail # "fill"
    BY <1>1, <1>2, EndedFits DEF Advances
  <1>4. Calm(req[r], e, session') /\ MailStays(req[r], e)
    BY <1>1, <1>3 DEF Calm, MailStays, MailIsOfList, Shown, Active, Proceeds, Using, IsUse, Over, HasCredential
  <1> QED
    BY <1>1, <1>3, <1>4, OneQuiet

\* lock(), with the requests calm when its caller is done with them.
LEMMA LockQuiet ==
  ASSUME XInv, NEW rs, NEW ups, Requests(rs), Lock(rs, ups),
         \A q \in Request : /\ Rests(req[q], rs[q])
                            /\ Calm(req[q], rs[q], 0) /\ MailStays(req[q], rs[q])
  PROVE  Quiet
  <1>1. /\ session' = 0 /\ grants' = {}
        /\ \A r \in pending : req[r].pc = "asked"
        /\ \A d \in Doc : waiting[d] \in Request => req[waiting[d]].pc = "waiting"
    BY Bounds DEF Lock, XInv, Worker, WorkerFits, At
  <1>2. ASSUME NEW r \in Request
        PROVE  Calm(req[r], req'[r], session') /\ MailStays(req[r], req'[r])
    <2>1. CASE r \in pending \/ \E d \in Doc : waiting[d] = r
      <3>1. PICK e : e = Ended(rs, r)[r]
        OBVIOUS
      <3>2. req'[r] = e
        BY <2>1, <3>1 DEF Lock
      <3>3. rs[r].pc \in {"asked", "waiting"}
        BY <1>1, <2>1 DEF Rests
      <3>4. rs[r].kind # "none" /\ ~Shown(rs[r])
        BY <3>3 DEF Requests, Fits, Shown
      <3>5. Steady(rs[r], e) /\ e.pc = "failed" /\ e.session = 0 /\ e.mail # "fill"
        BY <3>1, <3>4, EndedFits DEF Advances
      <3>6. Steady(req[r], e) /\ ~Shown(req[r])
        BY <3>4, <3>5, SteadyOn DEF Calm, Steady, Shown
      <3> QED
        BY <3>2, <3>5, <3>6 DEF Calm, MailStays, MailIsOfList, Shown, Active, Proceeds, Using, IsUse, Over, HasCredential
    <2>2. CASE ~(r \in pending \/ \E d \in Doc : waiting[d] = r)
      <3>1. req'[r] = rs[r]
        BY <2>2 DEF Lock
      <3> QED
        BY <1>1, <3>1
    <2> QED
      BY <2>1, <2>2
  <1> QED
    BY <1>1, <1>2 DEF Quiet, Calms, MailStays, MailIsOfList

LEMMA LockAsIs == ASSUME XInv, PInv, NEW ups, Lock(req, ups) PROVE Quiet
  <1>1. ASSUME NEW q \in Request
        PROVE  /\ Rests(req[q], req[q])
               /\ Calm(req[q], req[q], 0) /\ MailStays(req[q], req[q])
    BY DEF Rests, Calm, Steady, MailStays, MailIsOfList, PInv, Credentials
  <1> QED
    BY <1>1, LockQuiet DEF XInv

-----------------------------------------------------------------------------
(* Steps of the handlers *)

LEMMA SameLinks ==
  ASSUME UNCHANGED <<session, pairing, opening, page, lapsed>>
  PROVE  Relinks /\ Closes
  BY DEF Relinks, Closes

\* What one step does for the permissions.
Maps == PInv' /\ [Capability!Next]_Capability!vars

LEMMA FailsMaps ==
  ASSUME XInv, XInv', PInv, NEW r \in Request, Fails(r), req[r].pc \notin {"none", "done"}
  PROVE  Maps
  <1>1. /\ req' = Ended(req, r) /\ UNCHANGED <<grants, filled, lapsed>>
        /\ UNCHANGED <<session, pairing, opening, page>>
    BY DEF Fails, link, ports, past, history
  <1>2. Quiet /\ Relinks /\ Closes
    BY <1>1, EndedQuiet, SameLinks
  <1> QED
    BY <1>1, <1>2, QuietSteps DEF Maps

\* A request gets to another point: no list is shown by that, and no credential
\* is had.
LEMMA MovedQuiet ==
  ASSUME XInv, PInv, NEW r \in Request, NEW pc,
         req[r].pc \notin {"none", "done", "failed", "acking", "refused"},
         req[r].pc = "acked" => pc = "done",
         pc = "done" => req[r].kind # "list",
         pc \in {"answered", "send"} => req[r].pc \in {"answered", "send"},
         req' = Moved(req, r, pc), UNCHANGED <<grants, filled, lapsed>>
  PROVE  Quiet
  <1>1. req \in [Request -> PopupRequest] /\ req[r] \in PopupRequest /\ Fits(req[r])
    BY DEF XInv, Requests
  <1>2. PICK e : e = [req[r] EXCEPT !.pc = pc]
    OBVIOUS
  <1>3. req' = [req EXCEPT ![r] = e]
    BY <1>2 DEF Moved
  <1>4. /\ e.kind = req[r].kind /\ e.uses = req[r].uses /\ e.doc = req[r].doc /\ e.pc = pc
        /\ e.reg = req[r].reg /\ e.session = req[r].session /\ e.mail = req[r].mail
    BY <1>1, <1>2 DEF PopupRequest
  <1>5. req[r].mail # "fill"
    BY DEF PInv, Credentials
  <1>6. req[r].kind # "none"
    BY <1>1 DEF Fits
  <1>7. IsUse(req[r]) => req[r].pc \in Using \cup {"acked"}
    BY <1>1 DEF Fits, IsUse, Using
  <1>8. Calm(req[r], e, session')
    BY <1>4, <1>6, <1>7 DEF Calm, Steady, Shown, Active, Proceeds, Using, IsUse, Over, HasCredential
  <1>9. MailStays(req[r], e)
    BY <1>4, <1>5 DEF MailStays, MailIsOfList
  <1> QED
    BY <1>3, <1>6, <1>8, <1>9, OneQuiet

LEMMA GoesMaps ==
  ASSUME XInv, XInv', PInv, NEW r \in Request, NEW pc, Goes(r, pc),
         <<req[r].pc, pc>> \in
           {<<"check", "issue">>, <<"answered", "issue">>, <<"check", "activate">>,
            <<"answered", "activate">>, <<"answered", "send">>, <<"check", "use">>,
            <<"answered", "use">>, <<"acked", "done">>, <<"activate", "activating">>,
            <<"activating", "propose">>}
  PROVE  Maps
  <1>1. /\ req' = Moved(req, r, pc) /\ UNCHANGED <<grants, filled, lapsed>>
        /\ UNCHANGED <<session, pairing, opening, page>>
    BY DEF Goes, worker, link, ports, past, history
  <1>2. req[r].pc = "acked" => req[r].kind # "list"
    BY RequestPieces DEF XInv, Requests, Fits
  <1>3. Quiet
    BY <1>1, <1>2, MovedQuiet
  <1> QED
    BY <1>1, <1>3, SameLinks, QuietSteps DEF Maps

LEMMA CheckMaps == ASSUME XInv, XInv', PInv, NEW r \in Request, Check(r) PROVE Maps
  <1>1. req[r].pc \in {"check", "answered"}
    BY DEF Check
  <1>2. CASE Fails(r)
    BY <1>1, <1>2, FailsMaps
  <1>3. CASE ~Fails(r)
    <2>1. PICK pc : /\ Goes(r, pc) /\ pc \in {"issue", "activate", "send", "use"}
                    /\ pc = "send" => At(r, "answered")
      <3>1. CASE req[r].kind = "list"
        <4>1. Goes(r, "issue")
          BY <1>3, <3>1 DEF Check
        <4> QED
          BY <4>1
      <3>2. CASE req[r].kind = "review"
        <4>1. Goes(r, "activate")
          BY <1>3, <3>2 DEF Check
        <4> QED
          BY <4>1
      <3>3. CASE req[r].kind = "fill" /\ At(r, "answered")
        BY <1>3, <3>3 DEF Check
      <3>4. CASE req[r].kind \notin {"list", "review"} /\ ~(req[r].kind = "fill" /\ At(r, "answered"))
        BY <1>3, <3>4 DEF Check
      <3> QED
        BY <3>1, <3>2, <3>3, <3>4
    <2> QED
      BY <1>1, <2>1, GoesMaps DEF At
  <1> QED
    BY <1>2, <1>3

LEMMA EndsMap ==
  ASSUME XInv, XInv', PInv, NEW r \in Request,
         Acknowledged(r) \/ Refused(r) \/ AcknowledgementTimer(r) \/ ActivateVault(r)
           \/ VaultActivated(r)
  PROVE  Maps
  <1>1. req[r].pc \in {"acked", "refused", "acking", "activate", "activating"}
    BY DEF Acknowledged, Refused, AcknowledgementTimer, ActivateVault, VaultActivated, At
  <1>2. CASE Fails(r)
    BY <1>1, <1>2, FailsMaps
  <1>3. CASE ~Fails(r)
    <2>1. CASE Acknowledged(r)
      BY <1>3, <2>1, GoesMaps DEF Acknowledged, At
    <2>2. CASE ActivateVault(r)
      BY <1>3, <2>2, GoesMaps DEF ActivateVault, At
    <2>3. CASE VaultActivated(r)
      BY <1>3, <2>3, GoesMaps DEF VaultActivated, At
    <2> QED
      BY <1>3, <2>1, <2>2, <2>3 DEF Refused, AcknowledgementTimer
  <1> QED
    BY <1>2, <1>3

\* The vault is asked, or told of a captured login.
LEMMA AskMaps ==
  ASSUME XInv, XInv', PInv, NEW r \in Request, AskMatches(r) \/ AskCredential(r) \/ Propose(r)
  PROVE  Maps
  <1>1. req[r].pc \in {"found", "use", "propose"}
    BY DEF AskMatches, AskCredential, Propose, At
  <1>2. CASE Fails(r)
    BY <1>1, <1>2, FailsMaps
  <1>3. CASE ~Fails(r)
    <2>1. /\ UNCHANGED <<grants, filled, lapsed>> /\ UNCHANGED <<session, pairing, opening, page>>
          /\ \/ req' = Moved(req, r, "asked")
             \/ req[r].pc = "propose" /\ req' = Moved(req, r, "done")
      BY <1>3 DEF AskMatches, AskCredential, Propose, Ask, At, link, past, history
    <2>2. req[r].pc = "propose" => req[r].kind \in {"review", "none"}
      BY RequestPieces DEF XInv, Requests, Fits, Kinds
    <2>3. Quiet
      BY <1>1, <2>1, <2>2, MovedQuiet
    <2> QED
      BY <2>1, <2>3, SameLinks, QuietSteps DEF Maps
  <1> QED
    BY <1>2, <1>3

LEMMA WaitTimerMaps == ASSUME XInv, XInv', PInv, NEW r \in Request, WaitTimer(r) PROVE Maps
  <1>1. /\ req' = Ended(req, r) /\ UNCHANGED <<grants, filled, lapsed>>
        /\ UNCHANGED <<session, pairing, opening, page>>
        /\ req[r].pc \notin {"none", "done"}
    BY DEF WaitTimer, BoundedWaits, link, ports, past, history
  <1> QED
    BY <1>1, EndedQuiet, SameLinks, QuietSteps DEF Maps

\* A message goes to the page that is no credential.
LEMMA ArmMaps == ASSUME XInv, XInv', PInv, NEW r \in Request, ArmCapture(r) PROVE Maps
  <1>1. req[r].pc = "use" /\ req[r].kind = "watch" /\ req[r] \in PopupRequest
    BY DEF ArmCapture, At, XInv, Requests
  <1>2. CASE Fails(r)
    BY <1>1, <1>2, FailsMaps
  <1>3. CASE ~Fails(r)
    <2>1. /\ req' = [Moved(req, r, "acking") EXCEPT ![r].mail = "watch"]
          /\ UNCHANGED <<grants, filled, lapsed>> /\ UNCHANGED <<session, pairing, opening, page>>
      BY <1>3 DEF ArmCapture, worker, link, ports, past, history
    <2>2. PICK e : e = [req[r] EXCEPT !.pc = "acking", !.mail = "watch"]
      OBVIOUS
    <2>3. Advances(req[r], e) /\ req' = [req EXCEPT ![r] = e]
      BY <1>1, <2>1, <2>2, MailFits
    <2>4. e.kind = "watch" /\ e.pc = "acking" /\ e.mail = "watch" /\ e.session = req[r].session
      BY <1>1, <2>2 DEF PopupRequest
    <2>5. Calm(req[r], e, session') /\ MailStays(req[r], e)
      BY <1>1, <2>3, <2>4
      DEF Advances, Calm, Shown, Active, Proceeds, Using, IsUse, Over, HasCredential, MailStays,
          MailIsOfList
    <2>6. Quiet
      BY <1>1, <2>1, <2>3, <2>5, OneQuiet
    <2> QED
      BY <2>1, <2>6, SameLinks, QuietSteps DEF Maps
  <1> QED
    BY <1>2, <1>3

LEMMA InjectMaps == ASSUME XInv, XInv', PInv, NEW r \in Request, Inject(r) PROVE Maps
  <1>1. /\ req[r].pc = "inject" /\ req \in [Request -> PopupRequest] /\ req[r] \in PopupRequest
        /\ Fits(req[r]) /\ Credentials
    BY DEF Inject, At, XInv, Requests, PInv
  <1>2. CASE Fails(r)
    BY <1>1, <1>2, FailsMaps
  <1>3. CASE ~Fails(r)
    <2>1. /\ req' = [Moved(req, r, "register") EXCEPT ![r].doc = shown]
          /\ UNCHANGED <<grants, filled, lapsed>> /\ UNCHANGED <<session, pairing, opening, page>>
          /\ shown # NoDoc
      BY <1>3 DEF Inject, worker, link, ports, past, history
    <2>2. shown \in Doc
      BY <2>1 DEF XInv, TabTyped
    <2>3. PICK e : e = [req[r] EXCEPT !.pc = "register", !.doc = shown]
      OBVIOUS
    <2>4. req' = [req EXCEPT ![r] = e]
      BY <1>1, <2>1, <2>3 DEF Moved
    <2>5. /\ e.kind = req[r].kind /\ e.uses = req[r].uses /\ e.pc = "register" /\ e.doc = shown
          /\ e.session = req[r].session /\ e.mail = req[r].mail
      BY <1>1, <2>3 DEF PopupRequest
    <2>6. req[r].kind = "list" /\ req[r].mail # "fill"
      BY <1>1, RequestPieces DEF Fits, Kinds
    <2>7. Calm(req[r], e, session') /\ MailStays(req[r], e)
      BY <1>1, <2>2, <2>5, <2>6
      DEF Calm, Steady, Shown, Active, Proceeds, Using, IsUse, HasCredential, MailStays, MailIsOfList
    <2>8. Quiet
      BY <2>1, <2>4, <2>6, <2>7, OneQuiet
    <2> QED
      BY <2>1, <2>8, SameLinks, QuietSteps DEF Maps
  <1> QED
    BY <1>2, <1>3

\* A request that has its registration, or does not want it.
LEMMA DiscoveringQuiet ==
  ASSUME XInv, PInv, NEW r \in Request, req[r].pc \in {"register", "waiting"},
         NEW reg, req' = Discovering(r, reg), UNCHANGED grants
  PROVE  Quiet
  <1>1. /\ req \in [Request -> PopupRequest] /\ req[r] \in PopupRequest /\ Fits(req[r])
        /\ req[r].kind = "list"
    BY RequestPieces DEF XInv, Requests, Fits, Kinds
  <1>2. CASE OriginOf[req[r].doc] = req[r].origin
    <2>1. PICK e : e = [req[r] EXCEPT !.reg = reg, !.mail = "discover", !.pc = "discovering"]
      OBVIOUS
    <2>2. req' = [req EXCEPT ![r] = e]
      BY <1>1, <1>2, <2>1 DEF Discovering
    <2>3. /\ e.kind = "list" /\ e.pc = "discovering" /\ e.mail = "discover" /\ e.doc = req[r].doc
          /\ e.uses = req[r].uses /\ e.session = req[r].session
      BY <1>1, <2>1 DEF PopupRequest
    <2>4. Calm(req[r], e, session') /\ MailStays(req[r], e)
      BY <1>1, <2>3 DEF Calm, Steady, Shown, Active, Proceeds, Using, IsUse, HasCredential, MailStays, MailIsOfList
    <2> QED
      BY <1>1, <2>2, <2>4, OneQuiet
  <1>3. CASE OriginOf[req[r].doc] # req[r].origin
    BY <1>3, EndedQuiet DEF Discovering
  <1> QED
    BY <1>2, <1>3

LEMMA RegisterMaps == ASSUME XInv, XInv', PInv, NEW r \in Request, Register(r) PROVE Maps
  <1>1. req[r].pc = "register" /\ req[r].kind = "list"
    BY RequestPieces DEF Register, At, XInv, Requests, Fits, Kinds
  <1>2. CASE Fails(r)
    BY <1>1, <1>2, FailsMaps
  <1>3. CASE ~Fails(r)
    <2>1. /\ UNCHANGED <<grants, filled, lapsed>> /\ UNCHANGED <<session, pairing, opening, page>>
          /\ req' = Discovering(r, documents[req[r].doc]) \/ req' = Moved(req, r, "waiting")
      BY <1>3 DEF Register, worker, link, ports, past, history
    <2>2. Quiet
      BY <1>1, <2>1, DiscoveringQuiet, MovedQuiet
    <2> QED
      BY <2>1, <2>2, SameLinks, QuietSteps DEF Maps
  <1> QED
    BY <1>2, <1>3

-----------------------------------------------------------------------------
(* Beginnings and endings *)

LEMMA StartListMaps == ASSUME XInv, XInv', PInv, NEW r \in Request, StartList(r) PROVE Maps
  <1>1. /\ req[r].kind = "none" /\ req \in [Request -> PopupRequest] /\ req[r] \in PopupRequest
        /\ Fits(req[r])
    BY DEF StartList, Begins, XInv, Requests
  <1>2. grants' = {} /\ UNCHANGED <<session, pairing, opening, page, filled, lapsed>>
    BY DEF StartList, link, ports, past, history
  <1>3. PICK e : e = [req[r] EXCEPT !.kind = "list", !.uses = 0, !.pc = "target",
                                    !.session = session]
    OBVIOUS
  <1>4. req' = [req EXCEPT ![r] = e]
    BY <1>1, <1>3 DEF StartList, Begun
  <1>5. /\ e.kind = "list" /\ e.pc = "target" /\ e.session = session /\ e.doc = req[r].doc
        /\ e.mail = req[r].mail
    BY <1>1, <1>3 DEF PopupRequest
  <1>6. req[r].mail = "none"
    BY <1>1, RequestPieces DEF Fits
  <1>7. Calm(req[r], e, session') /\ MailStays(req[r], e)
    BY <1>1, <1>2, <1>5, <1>6
    DEF Calm, Steady, Shown, Active, Proceeds, Using, IsUse, HasCredential, MailStays, MailIsOfList
  <1>8. Quiet
    BY <1>2, <1>4, <1>5, <1>7, OneQuiet DEF IsUse
  <1> QED
    BY <1>2, <1>8, SameLinks, QuietSteps DEF Maps

\* Its tab is known.
LEMMA TargetMaps == ASSUME XInv, XInv', PInv, NEW r \in Request, Target(r) PROVE Maps
  <1>1. /\ req[r].pc = "target" /\ req \in [Request -> PopupRequest] /\ req[r] \in PopupRequest
        /\ Fits(req[r])
    BY DEF Target, At, XInv, Requests
  <1>2. CASE Fails(r)
    BY <1>1, <1>2, FailsMaps
  <1>3. CASE ~Fails(r)
    <2>1. /\ req' = [Moved(req, r, "inject") EXCEPT ![r].origin = OriginOf[shown]]
          /\ UNCHANGED <<grants, filled, lapsed>> /\ UNCHANGED <<session, pairing, opening, page>>
      BY <1>3 DEF Target, worker, link, ports, past, history
    <2>2. PICK e : e = [req[r] EXCEPT !.pc = "inject", !.origin = OriginOf[shown]]
      OBVIOUS
    <2>3. req' = [req EXCEPT ![r] = e]
      BY <1>1, <2>1, <2>2 DEF Moved
    <2>4. /\ e.kind = req[r].kind /\ e.uses = req[r].uses /\ e.pc = "inject" /\ e.doc = req[r].doc
          /\ e.session = req[r].session /\ e.mail = req[r].mail
      BY <1>1, <2>2 DEF PopupRequest
    <2>5. req[r].kind = "list" /\ req[r].mail # "fill"
      BY <1>1, RequestPieces DEF Fits, Kinds
    <2>6. Calm(req[r], e, session') /\ MailStays(req[r], e)
      BY <1>1, <2>4, <2>5
      DEF Calm, Steady, Shown, Active, Proceeds, Using, IsUse, HasCredential, MailStays, MailIsOfList
    <2>7. Quiet
      BY <2>1, <2>3, <2>5, <2>6, OneQuiet
    <2> QED
      BY <2>1, <2>7, SameLinks, QuietSteps DEF Maps
  <1> QED
    BY <1>2, <1>3

\* A request that begins, without a grant to use.
LEMMA BegunQuiet ==
  ASSUME XInv, PInv, NEW r \in Request, req[r].kind = "none",
         NEW kind \in {"fill", "watch", "review"}, NEW t \in Request,
         NEW pc \in {"check", "failed"}, req' = Begun(r, kind, t, pc),
         kind \in {"fill", "watch"} => Shown(req[t]) /\ pc = "failed" /\ t \notin grants',
         grants' \subseteq grants
  PROVE  Quiet
  <1>1. PICK rs : rs = Begun(r, kind, t, pc)
    OBVIOUS
  <1>2. /\ \A q \in Request : Steady(req[q], rs[q])
        /\ \A q \in Request \ {r} : rs[q] = req[q]
        /\ rs[r].kind = kind /\ rs[r].uses = t /\ rs[r].pc = pc
        /\ rs[r].session = req[r].session /\ rs[r].mail = "none"
    <2>1. Requests(req) /\ t \in Number /\ kind \in Kinds
      BY Bounds DEF XInv, Kinds
    <2> QED
      BY <1>1, <2>1, BegunFits
  <1>3. Calm(req[r], rs[r], session') /\ MailStays(req[r], rs[r])
    BY <1>2 DEF Calm, Shown, Active, Proceeds, Using, IsUse, Over, HasCredential, MailStays, MailIsOfList
  <1>4. ASSUME NEW q \in Request \ {r}
        PROVE  /\ Calm(req[q], rs[q], session') /\ MailStays(req[q], rs[q])
               /\ req[q].kind = "none" => ~IsUse(rs[q])
    BY <1>2 DEF Calm, Steady, MailStays, MailIsOfList, IsUse, PInv, Credentials
  <1> QED
    BY <1>1, <1>2, <1>3, <1>4 DEF Quiet, Calms, MailStays, IsUse

LEMMA StartReviewMaps ==
  ASSUME XInv, XInv', PInv, NEW r \in Request, NEW w \in Request, StartReview(r, w) PROVE Maps
  <1>1. /\ UNCHANGED <<grants, filled, lapsed>> /\ UNCHANGED <<session, pairing, opening, page>>
        /\ req[r].kind = "none"
        /\ \E pc \in {"check", "failed"} : req' = Begun(r, "review", w, pc)
    BY DEF StartReview, Begins, worker, link, ports, past, history
  <1>2. Quiet
    BY <1>1, BegunQuiet
  <1> QED
    BY <1>1, <1>2, SameLinks, QuietSteps DEF Maps

\* Relinks, of lock().
LEMMA LockRelinks ==
  ASSUME XInv, NEW rs, NEW ups, Lock(rs, ups), UNCHANGED <<opening, lapsed>>,
         UNCHANGED page \/ \E p \in Pairing, state \in {"tab", "closed"} :
                             page' = [page EXCEPT ![p] = state]
  PROVE  Relinks /\ Closes
  <1>1. \A p \in Pairing : page[p] # "none" => page'[p] # "none"
    BY DEF XInv, PagesTyped
  <1> QED
    BY <1>1 DEF Relinks, Closes, Lock

LEMMA SessionMissingMaps ==
  ASSUME XInv, XInv', PInv, NEW r \in Request, SessionMissing(r) PROVE Maps
  <1>1. UNCHANGED <<opening, page, filled, lapsed>>
    BY DEF SessionMissing, LockFrame, past, history
  <1>2. PICK rs :
          /\ Lock(rs, up) /\ Requests(rs)
          /\ \A q \in Request : Steady(req[q], rs[q]) /\ Rests(req[q], rs[q])
          /\ \A q \in Request \ {r} : rs[q] = req[q]
          /\ rs[r].pc = "failed" /\ rs[r].session \in {0, req[r].session} /\ rs[r].mail # "fill"
          /\ ~Shown(req[r])
    BY MissingLocks
  <1>3. Calm(req[r], rs[r], 0) /\ MailStays(req[r], rs[r])
    BY <1>2 DEF Calm, Shown, Active, Proceeds, Using, IsUse, Over, HasCredential, MailStays, MailIsOfList
  <1>4. ASSUME NEW q \in Request \ {r} PROVE Calm(req[q], rs[q], 0) /\ MailStays(req[q], rs[q])
    BY <1>2 DEF Calm, Steady, MailStays, MailIsOfList, PInv, Credentials
  <1>5. Quiet
    BY <1>2, <1>3, <1>4, LockQuiet
  <1> QED
    BY <1>1, <1>2, <1>5, LockRelinks, QuietSteps DEF Maps

\* lock() with the requests as they are.
LEMMA LockMaps ==
  ASSUME XInv, XInv', PInv, NEW ups, Lock(req, ups), UNCHANGED <<opening, filled, lapsed>>,
         UNCHANGED page \/ \E p \in Pairing, state \in {"tab", "closed"} :
                             page' = [page EXCEPT ![p] = state]
  PROVE  Maps
  BY LockAsIs, LockRelinks, QuietSteps DEF Maps

LEMMA LocksMap ==
  ASSUME XInv, XInv', PInv,
         \/ Disconnect \/ SessionTimer
         \/ \E p \in Pairing : PageLocked(p) \/ PageGone(p) \/ VaultTabGone(p)
  PROVE  Maps
  <1>1. CASE \E ups : Lock(req, ups)
    <2>1. /\ UNCHANGED <<opening, filled, lapsed>>
          /\ UNCHANGED page \/ \E p \in Pairing, state \in {"tab", "closed"} :
                                 page' = [page EXCEPT ![p] = state]
      BY DEF Disconnect, SessionTimer, PageLocked, PageGone, VaultTabGone, LockFrame, past, history
    <2> QED
      BY <1>1, <2>1, LockMaps
  <1>2. CASE ~\E ups : Lock(req, ups)
    <2>1. /\ UNCHANGED <<session, pairing, opening, grants, req, filled, lapsed>>
          /\ UNCHANGED page \/ \E p \in Pairing : page' = [page EXCEPT ![p] = "closed"]
      BY <1>2
      DEF Disconnect, SessionTimer, PageLocked, PageGone, VaultTabGone, LockFrame, past, history
    <2>2. \A p \in Pairing : page[p] # "none" => page'[p] # "none"
      BY <2>1 DEF XInv, PagesTyped
    <2>3. Quiet /\ Relinks /\ Closes
      BY <2>1, <2>2, NoneBegins DEF Relinks, Closes
    <2> QED
      BY <2>1, <2>3, QuietSteps DEF Maps
  <1> QED
    BY <1>1, <1>2

LEMMA StartPairMaps == ASSUME XInv, XInv', PInv, NEW p \in Pairing, StartPair(p) PROVE Maps
  <1>1. /\ Lock(req, up) /\ UNCHANGED <<filled, lapsed>> /\ opening' = opening \cup {p}
        /\ page[p] = "none" /\ page' = [page EXCEPT ![p] = "tab"]
    BY DEF StartPair, past, history
  <1>2. \A q \in Pairing : page[q] # "none" => page'[q] # "none"
    BY <1>1 DEF XInv, PagesTyped
  <1>3. page'[p] # "none"
    BY <1>1 DEF XInv, PagesTyped
  <1>4. Relinks /\ Closes
    BY <1>1, <1>2, <1>3 DEF Relinks, Closes, Lock
  <1> QED
    BY <1>1, <1>4, LockAsIs, QuietSteps DEF Maps

\* The vault's answer is of the session whose port it came by.
LEMMA AnswerMaps ==
  ASSUME XInv, XInv', PInv, NEW p \in Pairing, NEW r \in Request, NEW ok \in BOOLEAN,
         Answer(p, r, ok)
  PROVE  Maps
  <1>1. UNCHANGED <<opening, page, filled, lapsed>>
    BY DEF Answer, LockFrame, past, history
  <1>2. CASE \E ups : Lock(req, ups)
    BY <1>1, <1>2, LockMaps
  <1>3. CASE ~\E ups : Lock(req, ups)
    <2>1. /\ session = p /\ r \in pending /\ UNCHANGED <<session, pairing, grants>>
          /\ req' = IF ok THEN Answered(r, p) ELSE Ended(req, r)
      BY <1>3 DEF Answer
    <2>2. /\ req[r].pc = "asked" /\ req \in [Request -> PopupRequest] /\ req[r] \in PopupRequest
          /\ Fits(req[r]) /\ Credentials
      BY <2>1 DEF XInv, Worker, WorkerFits, Requests, At, PInv
    <2>3. Quiet
      <3>1. CASE ~ok
        BY <2>1, <2>2, <3>1, EndedQuiet
      <3>2. CASE ok
        <4>1. PICK e : e = [req[r] EXCEPT !.pc = "answered",
                                          !.session = IF req[r].kind = "fill" THEN p ELSE @]
          OBVIOUS
        <4>2. req' = [req EXCEPT ![r] = e]
          BY <2>1, <2>2, <3>2, <4>1 DEF Answered, Moved
        <4>3. /\ e.kind = req[r].kind /\ e.uses = req[r].uses /\ e.doc = req[r].doc
              /\ e.pc = "answered" /\ e.mail = req[r].mail
              /\ e.session = IF req[r].kind = "fill" THEN p ELSE req[r].session
          BY <2>2, <4>1 DEF PopupRequest
        <4>4. req[r].kind # "none" /\ req[r].mail # "fill"
          BY <2>2 DEF Fits, Credentials
        <4>5. Calm(req[r], e, session')
          BY <2>1, <2>2, <4>3, <4>4
          DEF Calm, Steady, Shown, Active, Proceeds, Using, IsUse, Over, HasCredential
        <4>6. MailStays(req[r], e)
          BY <4>3, <4>4 DEF MailStays, MailIsOfList
        <4> QED
          BY <2>1, <4>2, <4>4, <4>5, <4>6, OneQuiet
      <3> QED
        BY <3>1, <3>2
    <2> QED
      BY <1>1, <2>1, <2>3, SameLinks, QuietSteps DEF Maps
  <1> QED
    BY <1>2, <1>3

\* Steps without a handler: the registry and the tab move, time passes.
LEMMA ElsewhereMaps ==
  ASSUME XInv, XInv', PInv, UNCHANGED <<req, filled>>, grants' \subseteq grants, Relinks, Closes
  PROVE  Maps
  BY NoneBegins, QuietSteps DEF Maps

LEMMA TabMaps ==
  ASSUME XInv, XInv', PInv,
         \/ \E url \in BOOLEAN : TabUpdated(url)
         \/ \E d \in Doc \cup {NoDoc} : Navigate(d)
         \/ \E d \in Doc : ScriptCut(d) \/ FormGone(d) \/ Submit(d)
         \/ \E q \in Request : ScriptGone(q)
         \/ \E w, q \in Request : Submitted(w, q)
  PROVE  Maps
  <1>1. /\ UNCHANGED <<req, filled, lapsed>> /\ UNCHANGED <<session, pairing, opening, page>>
        /\ grants' \subseteq grants
    BY DEF TabUpdated, Navigate, ScriptCut, FormGone, Submit, ScriptGone, Submitted, worker, link,
           ports, past, history
  <1> QED
    BY <1>1, SameLinks, ElsewhereMaps

LEMMA TimeMaps ==
  ASSUME XInv, XInv', PInv, Time
  PROVE  Maps
  <1>1. CASE Disconnect \/ SessionTimer
    BY <1>1, LocksMap
  <1>2. CASE ~(Disconnect \/ SessionTimer)
    <2>1. /\ UNCHANGED <<session, opening, page, req, filled>> /\ grants' \subseteq grants
          /\ pairing' \in {0, pairing} /\ lapsed \subseteq lapsed'
      BY <1>2
      DEF Time, PairingTimer, SessionLapses, GrantLapses, RegistrationTimer, CaptureTimer, worker,
          link, ports, past, history
    <2>2. Relinks /\ Closes
      BY <2>1 DEF Relinks, Closes
    <2> QED
      BY <2>1, <2>2, ElsewhereMaps
  <1> QED
    BY <1>1, <1>2

\* A content script is registered, and who waited for it goes on.
LEMMA ConnectedMaps == ASSUME XInv, XInv', PInv, NEW q \in Request, Connected(q) PROVE Maps
  <1>1. UNCHANGED <<session, pairing, opening, page, grants, filled, lapsed>>
    BY DEF Connected, worker, link, ports, past, history
  <1>2. PICK d : d = req[q].doc
    OBVIOUS
  <1>3. d \in Doc
    BY <1>2 DEF Connected, XInv, TabFits
  <1>4. \/ UNCHANGED req
        \/ waiting[d] # 0 /\ req' = Discovering(waiting[d], q)
    BY <1>2 DEF Connected
  <1>5. Quiet
    <2>1. CASE UNCHANGED req
      BY <1>1, <2>1, NoneBegins
    <2>2. CASE waiting[d] # 0 /\ req' = Discovering(waiting[d], q)
      <3>1. PICK r : r = waiting[d]
        OBVIOUS
      <3>2. r \in Request /\ req[r].pc = "waiting"
        BY <1>3, <2>2, <3>1, Bounds DEF XInv, Worker, WorkerTyped, WorkerFits, At
      <3> QED
        BY <1>1, <2>2, <3>1, <3>2, DiscoveringQuiet
    <2> QED
      BY <1>4, <2>1, <2>2
  <1> QED
    BY <1>1, <1>5, SameLinks, QuietSteps DEF Maps

\* Where neither a list nor the use of its grant changes, the permission is the same.
LEMMA SameStatus ==
  ASSUME XInv, XInv', PInv, PInv', NEW t \in Request,
         Shown(req'[t]) <=> Shown(req[t]), t \in grants' <=> t \in grants,
         InUse(t)' <=> InUse(t), OnItsWay(t)' <=> OnItsWay(t)
  PROVE  StatusOf(t)' = StatusOf(t)
  BY StatusIs, StatusIsThen DEF StatusFits

LEMMA SameTarget ==
  ASSUME NEW t \in Request, Shown(req'[t]) <=> Shown(req[t]),
         Shown(req[t]) => req'[t].doc = req[t].doc /\ req'[t].session = req[t].session
  PROVE  TargetOf(t)' = TargetOf(t)
  BY DEF TargetOf, ListShown, Shown, At

LEMMA SameOpened == ASSUME UNCHANGED <<session, lapsed>> PROVE Opened' = Opened
  BY DEF Opened, SessionLive, Passed

\* A pairing becomes the session: it was not before, and nothing is of it yet.
LEMMA HelloMaps == ASSUME XInv, XInv', PInv, NEW p \in Pairing, Hello(p) PROVE Maps
  <1>1. /\ UNCHANGED <<opening, page, req, grants, filled, lapsed>>
        /\ \/ UNCHANGED <<session, pairing>>
           \/ pairing = p /\ pairing' = 0 /\ session' = p
    BY DEF Hello, Refuse, worker, link, past, history
  <1>2. CASE UNCHANGED <<session, pairing>>
    BY <1>1, <1>2, SameLinks, ElsewhereMaps
  <1>3. CASE pairing = p /\ pairing' = 0 /\ session' = p
    <2>1. Relinks
      BY <1>1, <1>3, Bounds DEF Relinks
    <2>2. PInv'
      <3>1. Links' /\ Turns
        BY <2>1, RelinksTurns DEF PInv
      <3>2. Calms
        BY <1>1, NoneBegins DEF Quiet
      <3> QED
        BY <1>1, <3>1, <3>2, CalmsKeep DEF PInv
    <2>3. ASSUME NEW t \in Request
          PROVE  /\ StatusOf(t)' = StatusOf(t) /\ TargetOf(t)' = TargetOf(t)
                 /\ GivenTo(t)' = GivenTo(t)
      <3>1. (InUse(t)' <=> InUse(t)) /\ (OnItsWay(t)' <=> OnItsWay(t))
        BY <1>1 DEF InUse, OnItsWay
      <3> QED
        BY <1>1, <2>2, <3>1, SameStatus, SameTarget DEF GivenTo
    <2>4. ASSUME NEW t \in Request PROVE TargetOf(t) \cap (Doc \X {p}) = {}
      <3>1. Shown(req[t]) => req[t].session # p
        BY <1>3, Bounds DEF PInv, Links, Sessions, Past
      <3> QED
        BY <3>1 DEF TargetOf, ListShown, Shown, At
    <2>5. CASE Passed("session", p)
      <3>1. Opened' = {}
        BY <1>1, <1>3, <2>5 DEF Opened, SessionLive, Passed
      <3> QED
        BY <2>2, <2>3, <3>1, Revokes DEF Maps
    <2>6. CASE ~Passed("session", p)
      <3>1. Opened' = {p}
        BY <1>1, <1>3, <2>6, Bounds DEF Opened, SessionLive, Passed
      <3> QED
        BY <2>2, <2>3, <2>4, <3>1, Opens DEF Maps
    <2> QED
      BY <2>5, <2>6
  <1> QED
    BY <1>1, <1>2, <1>3

\* The two ends of a vault port.
LEMMA CompanionMaps ==
  ASSUME XInv, XInv', PInv, NEW p \in Pairing,
         \/ PairOpened(p) \/ PortConnected(p)
         \/ Connect(p) \/ StopWhenDue(p) \/ Dismiss(p) \/ LockVault(p) \/ ReceivePaired(p)
         \/ ReceiveGone(p) \/ \E kind \in Kinds, r \in Request : Receive(p, kind, r)
  PROVE  Maps
  <1>1. WorkerTyped /\ page \in [Pairing -> {"none", "tab", "connecting", "paired", "closed"}]
    BY DEF XInv, Worker, PagesTyped
  <1>2. CASE PairOpened(p)
    <2>1. /\ UNCHANGED <<session, page, req, grants, filled, lapsed>>
          /\ p \in opening /\ opening' = opening \ {p} /\ pairing' = p
      BY <1>2 DEF PairOpened, ports, past, history
    <2> QED
      BY <2>1, ElsewhereMaps DEF Relinks, Closes
  <1>3. CASE PortConnected(p)
    <2>1. UNCHANGED <<session, pairing, opening, page, req, grants, filled, lapsed>>
      BY <1>3 DEF PortConnected, Refuse, worker, link, past, history
    <2> QED
      BY <2>1, SameLinks, ElsewhereMaps
  <1>4. CASE ~(PairOpened(p) \/ PortConnected(p))
    <2>1. /\ UNCHANGED <<session, pairing, opening, req, grants, filled, lapsed>>
          /\ page' \in {page, [page EXCEPT ![p] = "connecting"], [page EXCEPT ![p] = "paired"],
                        [page EXCEPT ![p] = "closed"]}
      BY <1>4
      DEF Connect, StopWhenDue, Dismiss, Stop, LockVault, ReceivePaired, ReceiveGone, Receive,
          worker, link, past, history
    <2>2. \A q \in Pairing : page[q] # "none" => page'[q] # "none"
      BY <1>1, <2>1
    <2>3. Relinks /\ Closes
      BY <2>1, <2>2 DEF Relinks, Closes
    <2> QED
      BY <2>1, <2>3, ElsewhereMaps
  <1> QED
    BY <1>2, <1>3, <1>4

-----------------------------------------------------------------------------
(* Steps of a permission *)

\* The credential is sent while the session of the list is open.
LEMMA SendMaps == ASSUME XInv, XInv', PInv, NEW r \in Request, SendCredential(r) PROVE Maps
  <1>1. /\ req[r].pc = "send" /\ req[r] \in PopupRequest /\ Fits(req[r])
        /\ Requests(req) /\ req \in [Request -> PopupRequest] /\ Sessions /\ Credentials /\ OneUse
    BY DEF SendCredential, At, XInv, Requests, PInv
  <1>2. CASE Fails(r)
    BY <1>1, <1>2, FailsMaps
  <1>3. CASE ~Fails(r)
    <2>1. /\ req' = [Moved(req, r, "acking") EXCEPT ![r].mail = "fill"]
          /\ SessionLive /\ SameSession(r)
          /\ UNCHANGED <<grants, filled, lapsed>> /\ UNCHANGED <<session, pairing, opening, page>>
      BY <1>3 DEF SendCredential, MaySend, worker, link, ports, past, history
    <2>2. req[r].kind = "fill"
      BY <1>1, RequestPieces DEF Fits, Kinds
    <2>3. PICK t : t = req[r].uses
      OBVIOUS
    <2>4. t \in Request /\ Shown(req[t]) /\ session = req[t].session
      BY <1>1, <2>1, <2>2, <2>3, ListOfWatch DEF Requests, SameSession
    <2>5. PICK e : e = [req[r] EXCEPT !.pc = "acking", !.mail = "fill"]
      OBVIOUS
    <2>6. Advances(req[r], e) /\ req' = [req EXCEPT ![r] = e]
      BY <1>1, <2>1, <2>2, <2>5, MailFits
    <2>7. /\ e.kind = "fill" /\ e.uses = t /\ e.pc = "acking" /\ e.mail = "fill"
          /\ e.session = req[r].session
      BY <1>1, <2>2, <2>3, <2>5 DEF PopupRequest
    <2>8. Calm(req[r], e, session')
      BY <1>1, <2>2, <2>6, <2>7
      DEF Advances, Calm, Shown, Active, Proceeds, Using, IsUse, Over, HasCredential
    <2>9. MailIsOfList(e)
      <3>1. ~Past(req[t].session)
        BY <2>4 DEF Past
      <3>2. req[r].session = req[t].session
        BY <1>1, <2>2, <2>3, <3>1 DEF Credentials, HasCredential
      <3> QED
        BY <2>7, <3>2 DEF MailIsOfList
    <2>10. Calms /\ req'[r] = e /\ \A q \in Request \ {r} : MailStays(req[q], req'[q])
      <3>1. req[r].kind # "none" /\ grants' \subseteq grants
        BY <2>1, <2>2
      <3> QED
        BY <2>6, <2>8, <2>9, <3>1, OneCalm
    <2>11. PInv'
      <3>1. Links' /\ Turns
        BY <2>1, SameLinks, RelinksTurns DEF PInv
      <3> QED
        BY <2>1, <2>10, <3>1, CalmsKeep DEF PInv
    <2>12. InUse(t) /\ OnItsWay(t)'
      BY <1>1, <2>2, <2>3, <2>7, <2>10 DEF InUse, OnItsWay, Proceeds, Using, IsUse
    <2>13. ASSUME NEW x \in Request
           PROVE  /\ Shown(req'[x]) <=> Shown(req[x])
                  /\ TargetOf(x)' = TargetOf(x) /\ GivenTo(x)' = GivenTo(x)
      <3>1. Calm(req[x], req'[x], session')
        BY <2>10 DEF Calms
      <3>2. /\ Shown(req'[x]) <=> Shown(req[x])
            /\ Shown(req[x]) => req'[x].doc = req[x].doc /\ req'[x].session = req[x].session
        BY <3>1 DEF Calm, Steady, Shown
      <3> QED
        BY <2>1, <3>2, SameTarget DEF GivenTo
    <2>14. ASSUME NEW x \in Request \ {t} PROVE StatusOf(x)' = StatusOf(x)
      <3>1. \A q \in Request \ {r} : req'[q] = req[q]
        BY <1>1, <2>6
      <3>2. InUse(x)' <=> InUse(x)
        BY <2>3, <2>7, <2>10, <3>1 DEF InUse
      <3>3. OnItsWay(x)' <=> OnItsWay(x)
        BY <2>3, <2>7, <2>10, <3>1 DEF OnItsWay
      <3> QED
        BY <2>1, <2>11, <2>13, <3>2, <3>3, SameStatus
    <2>15. StatusOf(t) = "used" /\ StatusOf(t)' = "sent"
      BY <2>4, <2>11, <2>12, StatusIs, StatusIsThen DEF StatusFits
    <2>16. TargetOf(t) \subseteq Doc \X Opened
      <3>1. req[t].doc \in Doc
        BY <1>1, <2>4, RequestPieces DEF Requests, Fits, Shown
      <3> QED
        BY <2>1, <2>4, <3>1 DEF TargetOf, Opened
    <2>17. [Capability!Next]_Capability!vars
      BY <2>1, <2>4, <2>13, <2>14, <2>15, <2>16, SameOpened, Grants
    <2> QED
      BY <2>11, <2>17 DEF Maps
  <1> QED
    BY <1>2, <1>3

\* The popup shows a list, with a grant for it.
LEMMA IssueGrantMaps == ASSUME XInv, XInv', PInv, NEW r \in Request, IssueGrant(r) PROVE Maps
  <1>1. /\ req[r].pc = "issue" /\ Requests(req) /\ Worker /\ PastTyped
        /\ req \in [Request -> PopupRequest] /\ req[r] \in PopupRequest /\ Fits(req[r])
        /\ Links /\ Sessions /\ OneUse /\ Credentials /\ Filled
    BY DEF IssueGrant, At, XInv, Requests, PInv
  <1>2. CASE Fails(r)
    BY <1>1, <1>2, FailsMaps
  <1>3. CASE ~Fails(r)
    <2>1. /\ grants' = grants \cup {r} /\ req' = Moved(req, r, "done")
          /\ UNCHANGED <<session, pairing, opening, page, filled, lapsed>>
          /\ SessionLive /\ session = req[r].session
      BY <1>3 DEF IssueGrant, link, ports, past, history
    <2>2. /\ req[r].kind = "list" /\ req[r].doc \in Doc /\ req[r].session \in Pairing
          /\ req[r].session # 0 /\ req[r].mail # "fill"
      BY <1>1, <2>1, LiveIsPairing, RequestPieces DEF Fits, Kinds
    <2>3. PICK e : e = [req[r] EXCEPT !.pc = "done"]
      OBVIOUS
    <2>4. /\ e.kind = "list" /\ e.pc = "done" /\ e.uses = req[r].uses /\ e.doc = req[r].doc
          /\ e.session = req[r].session /\ e.mail = req[r].mail
      BY <1>1, <2>2, <2>3 DEF PopupRequest
    <2>5. req'[r] = e /\ \A q \in Request \ {r} : req'[q] = req[q]
      BY <1>1, <2>1, <2>3 DEF Moved
    <2>6. ASSUME NEW q \in Request
          PROVE  /\ req'[q].kind = req[q].kind /\ req'[q].uses = req[q].uses
                 /\ req'[q].session = req[q].session /\ req'[q].doc = req[q].doc
                 /\ req'[q].mail = req[q].mail
      BY <2>2, <2>4, <2>5
    <2>7. ASSUME NEW q \in Request
          PROVE  /\ IsUse(req'[q]) <=> IsUse(req[q])
                 /\ Active(req'[q]) <=> Active(req[q])
                 /\ Proceeds(req'[q]) <=> Proceeds(req[q])
                 /\ HasCredential(req'[q]) <=> HasCredential(req[q])
                 /\ q # r => (Shown(req'[q]) <=> Shown(req[q])) /\ req'[q].pc = req[q].pc
      <3>1. CASE q = r
        BY <2>2, <2>4, <2>5, <3>1 DEF IsUse, Active, Proceeds, HasCredential
      <3>2. CASE q # r
        BY <2>5, <3>2
      <3> QED
        BY <3>1, <3>2
    <2>8. Shown(req'[r]) /\ ~Shown(req[r])
      BY <1>1, <2>4, <2>5 DEF Shown
    <2>9. Links'
      BY <1>1, <2>1 DEF Links
    <2>10. Sessions'
      <3>1. ASSUME NEW q \in Request, req'[q].session # 0
            PROVE  (req[q].session = session \/ Past(req[q].session))'
        BY <1>1, <2>1, <2>6, <3>1 DEF Sessions, Past
      <3>2. ASSUME NEW q \in Request, Shown(req'[q]) PROVE req'[q].session # 0
        BY <1>1, <2>2, <2>6, <2>7, <3>2 DEF Sessions
      <3> QED
        BY <3>1, <3>2 DEF Sessions
    <2>11. OneUse'
      <3>1. ASSUME NEW q \in Request, IsUse(req[q]) PROVE req[q].uses # r
        BY <1>1, <2>8, <3>1, UsesShown
      <3>2. ASSUME NEW t \in grants', NEW q \in Request, IsUse(req'[q]) PROVE req'[q].uses # t
        <4>1. IsUse(req[q]) /\ req'[q].uses = req[q].uses
          BY <2>6, <2>7, <3>2
        <4> QED
          BY <1>1, <2>1, <3>1, <4>1 DEF OneUse
      <3>3. ASSUME NEW p \in Request, NEW q \in Request, Active(req'[p]), Active(req'[q]),
                   req'[p].uses = req'[q].uses
            PROVE  p = q
        <4>1. Active(req[p]) /\ Active(req[q]) /\ req[p].uses = req[q].uses
          BY <2>6, <2>7, <3>3
        <4> QED
          BY <1>1, <4>1 DEF OneUse
      <3> QED
        BY <3>2, <3>3 DEF OneUse
    <2>12. Credentials'
      <3>1. ASSUME NEW q \in Request, IsUse(req[q])
            PROVE  req'[req'[q].uses].session = req[req[q].uses].session
        BY <1>1, <2>6, <2>7, <3>1, UsesShown
      <3>2. ASSUME NEW q \in Request, HasCredential(req'[q])
            PROVE  \/ req'[q].session = req'[req'[q].uses].session
                   \/ Past(req[req[q].uses].session)'
        <4>1. IsUse(req[q])
          BY <2>6, <2>7, <3>2 DEF HasCredential, IsUse
        <4>2. req[q].session = req[req[q].uses].session \/ Past(req[req[q].uses].session)
          BY <1>1, <2>6, <2>7, <3>2 DEF Credentials
        <4> QED
          BY <2>1, <2>6, <2>7, <3>1, <4>1, <4>2 DEF Past
      <3>3. ASSUME NEW q \in Request, req'[q].mail = "fill"
            PROVE  req'[q].pc = "acking" /\ req'[q].session = req'[req'[q].uses].session
        <4>1. req[q].mail = "fill"
          BY <2>6, <3>3
        <4>2. IsUse(req[q]) /\ q # r
          BY <1>1, <2>2, <4>1 DEF Requests, Fits, IsUse
        <4> QED
          BY <1>1, <2>6, <2>7, <3>1, <4>1, <4>2 DEF Credentials
      <3> QED
        BY <3>2, <3>3 DEF Credentials
    <2>13. Filled'
      BY <1>1, <2>1, <2>6, <2>7, <2>8 DEF Filled, PastTyped
    <2>14. PInv'
      BY <2>9, <2>10, <2>11, <2>12, <2>13 DEF PInv
    <2>15. ASSUME NEW t \in Request
           PROVE  /\ InUse(t)' <=> InUse(t)
                  /\ OnItsWay(t)' <=> OnItsWay(t)
                  /\ GivenTo(t)' = GivenTo(t)
      BY <2>1, <2>6, <2>7 DEF InUse, OnItsWay, GivenTo
    <2>16. ASSUME NEW t \in Request \ {r}
           PROVE  StatusOf(t)' = StatusOf(t) /\ TargetOf(t)' = TargetOf(t)
      <3>1. (Shown(req'[t]) <=> Shown(req[t])) /\ (t \in grants' <=> t \in grants)
        BY <2>1, <2>6, <2>7
      <3>2. StatusOf(t)' = StatusOf(t)
        BY <2>14, <2>15, <3>1, SameStatus
      <3>3. TargetOf(t)' = TargetOf(t)
        BY <2>6, <2>7, <3>1, SameTarget
      <3> QED
        BY <3>2, <3>3
    <2>17. StatusOf(r) = "unissued" /\ StatusOf(r)' = "held"
      BY <2>1, <2>8, <2>14, StatusIs, StatusIsThen DEF StatusFits
    <2>18. \E x \in Doc \X Opened : TargetOf(r)' = {x}
      <3>1. TargetOf(r)' = {<<req[r].doc, req[r].session>>}
        BY <2>6, <2>7, <2>8 DEF TargetOf, ListShown, Shown, At
      <3>2. <<req[r].doc, req[r].session>> \in Doc \X Opened
        BY <2>1, <2>2 DEF Opened
      <3> QED
        BY <3>1, <3>2
    <2>19. [Capability!Next]_Capability!vars
      BY <2>1, <2>15, <2>16, <2>17, <2>18, SameOpened, Grants
    <2> QED
      BY <2>14, <2>19 DEF Maps
  <1> QED
    BY <1>2, <1>3

\* A request begins, with the grant of a list or without one.
LEMMA StartUseMaps ==
  ASSUME XInv, XInv', PInv, NEW r \in Request, NEW t \in Request, StartUse(r, t)
  PROVE  Maps
  <1>1. /\ Requests(req) /\ WorkerFits /\ PastTyped /\ req \in [Request -> PopupRequest]
        /\ Links /\ Sessions /\ OneUse /\ Credentials /\ Filled
    BY DEF XInv, Worker, Requests, PInv
  <1>2. PICK kind \in {"fill", "watch"} :
          /\ req[r].kind = "none" /\ Shown(req[t])
          /\ req' = Begun(r, kind, t, IF t \in grants /\ session = req[t].session
                                      THEN "check" ELSE "failed")
    BY DEF StartUse, Begins, ListShown, Shown, At
  <1>3. grants' = grants \ {t} /\ UNCHANGED <<session, pairing, opening, page, filled, lapsed>>
    BY DEF StartUse, GrantsAfter, link, ports, past, history
  <1>4. CASE req' = Begun(r, kind, t, "failed")
    <2>1. Quiet
      BY <1>2, <1>3, <1>4, BegunQuiet
    <2> QED
      BY <1>3, <2>1, SameLinks, QuietSteps DEF Maps
  <1>5. CASE t \in grants /\ session = req[t].session /\ req' = Begun(r, kind, t, "check")
    <2>1. PICK rs : rs = Begun(r, kind, t, "check")
      OBVIOUS
    <2>2. /\ \A q \in Request : Steady(req[q], rs[q])
          /\ \A q \in Request \ {r} : rs[q] = req[q]
          /\ rs[r].kind = kind /\ rs[r].uses = t /\ rs[r].pc = "check"
          /\ rs[r].session = req[r].session /\ rs[r].mail = "none"
      <3>1. t \in Number /\ kind \in Kinds /\ kind # "list"
        BY <1>2, Bounds DEF Kinds
      <3> QED
        BY <1>1, <1>2, <2>1, <3>1, BegunFits
    <2>3. req' = rs
      BY <1>5, <2>1
    <2>4. /\ IsUse(req'[r]) /\ ~IsUse(req[r]) /\ Active(req'[r])
          /\ ~HasCredential(req'[r]) /\ ~Shown(req'[r]) /\ ~Shown(req[r])
      BY <1>2, <2>2, <2>3 DEF IsUse, Active, HasCredential, Shown, Over
    <2>5. ASSUME NEW q \in Request
          PROVE  /\ req'[q].session = req[q].session
                 /\ Shown(req'[q]) <=> Shown(req[q])
                 /\ q # r => req'[q] = req[q]
      BY <2>2, <2>3, <2>4
    <2>6. ASSUME NEW q \in Request, q # r, IsUse(req[q])
          PROVE  req[q].uses # t /\ req[q].uses # r
      BY <1>1, <1>5, <2>4, <2>6, UsesShown DEF OneUse
    <2>7. Links' /\ Sessions'
      <3>1. ASSUME NEW q \in Request, req'[q].session # 0
            PROVE  (req[q].session = session \/ Past(req[q].session))'
        BY <1>1, <1>3, <2>5, <3>1 DEF Sessions, Past
      <3>2. ASSUME NEW q \in Request, Shown(req'[q]) PROVE req'[q].session # 0
        BY <1>1, <2>5, <3>2 DEF Sessions
      <3> QED
        BY <1>1, <1>3, <3>1, <3>2 DEF Links, Sessions
    <2>8. OneUse'
      <3>1. ASSUME NEW x \in grants', NEW q \in Request, IsUse(req'[q]) PROVE req'[q].uses # x
        <4>1. CASE q = r
          BY <1>3, <2>2, <2>3, <3>1, <4>1
        <4>2. CASE q # r
          BY <1>1, <1>3, <2>5, <3>1, <4>2 DEF OneUse
        <4> QED
          BY <4>1, <4>2
      <3>2. ASSUME NEW q \in Request, q # r, Active(req'[q]) PROVE Active(req[q]) /\ req'[q].uses # t
        BY <2>5, <2>6, <3>2 DEF Active
      <3>3. ASSUME NEW p \in Request, NEW q \in Request, Active(req'[p]), Active(req'[q]),
                   req'[p].uses = req'[q].uses
            PROVE  p = q
        <4>1. CASE p = r \/ q = r
          BY <2>2, <2>3, <3>2, <3>3, <4>1
        <4>2. CASE p # r /\ q # r
          BY <1>1, <2>5, <3>2, <3>3, <4>2 DEF OneUse
        <4> QED
          BY <4>1, <4>2
      <3> QED
        BY <3>1, <3>3 DEF OneUse
    <2>9. Credentials'
      <3>1. ASSUME NEW q \in Request, HasCredential(req'[q])
            PROVE  \/ req'[q].session = req'[req'[q].uses].session
                   \/ Past(req[req[q].uses].session)'
        <4>1. q # r /\ req'[q] = req[q]
          BY <2>4, <2>5, <3>1
        <4>2. IsUse(req[q])
          BY <3>1, <4>1 DEF HasCredential, IsUse
        <4>3. req'[req'[q].uses].session = req[req[q].uses].session
          BY <1>1, <2>5, <4>1, <4>2, UsesShown
        <4>4. req[q].session = req[req[q].uses].session \/ Past(req[req[q].uses].session)
          BY <1>1, <3>1, <4>1 DEF Credentials
        <4> QED
          BY <1>3, <4>1, <4>3, <4>4 DEF Past
      <3>2. ASSUME NEW q \in Request, req'[q].mail = "fill"
            PROVE  req'[q].pc = "acking" /\ req'[q].session = req'[req'[q].uses].session
        <4>1. q # r /\ req'[q] = req[q]
          BY <2>2, <2>3, <2>5, <3>2
        <4>2. IsUse(req[q])
          BY <1>1, <3>2, <4>1 DEF Requests, Fits, IsUse
        <4>3. req'[req'[q].uses].session = req[req[q].uses].session
          BY <1>1, <2>5, <4>1, <4>2, UsesShown
        <4> QED
          BY <1>1, <3>2, <4>1, <4>3 DEF Credentials
      <3> QED
        BY <3>1, <3>2 DEF Credentials
    <2>10. Filled'
      BY <1>1, <1>3, <2>4, <2>5 DEF Filled, PastTyped
    <2>11. PInv'
      BY <2>7, <2>8, <2>9, <2>10 DEF PInv
    <2>12. ASSUME NEW x \in Request
           PROVE  TargetOf(x)' = TargetOf(x) /\ GivenTo(x)' = GivenTo(x)
      <3>1. TargetOf(x)' = TargetOf(x)
        BY <2>4, <2>5, SameTarget
      <3> QED
        BY <1>3, <3>1 DEF GivenTo
    <2>13. ASSUME NEW x \in Request \ {t} PROVE StatusOf(x)' = StatusOf(x)
      <3>1. InUse(x)' <=> InUse(x)
        BY <2>2, <2>3, <2>4, <2>5 DEF InUse, Proceeds
      <3>2. OnItsWay(x)' <=> OnItsWay(x)
        <4>1. req[r].mail # "fill"
          BY <1>1, <1>2 DEF Credentials, Requests, Fits
        <4> QED
          BY <2>2, <2>3, <2>5, <4>1 DEF OnItsWay
      <3> QED
        BY <1>3, <2>5, <2>11, <3>1, <3>2, SameStatus
    <2>14. StatusOf(t) = "held" /\ StatusOf(t)' = "used"
      <3>1. InUse(t)'
        BY <2>2, <2>3, <2>4 DEF InUse, Proceeds, Using
      <3> QED
        BY <1>5, <2>11, <3>1, StatusIs, StatusIsThen DEF StatusFits
    <2>15. TargetOf(t) \subseteq Doc \X Opened
      <3>1. SessionLive
        BY <1>5 DEF StartUse
      <3>2. req[t].doc \in Doc
        BY <1>1, <1>2, RequestPieces DEF Requests, Fits, Shown
      <3> QED
        BY <1>5, <3>1, <3>2 DEF TargetOf, Opened
    <2>16. [Capability!Next]_Capability!vars
      BY <1>3, <2>12, <2>13, <2>14, <2>15, SameOpened, Grants
    <2> QED
      BY <2>11, <2>16 DEF Maps
  <1> QED
    BY <1>2, <1>4, <1>5

\* A message reaches its document; what it fills in uses the grant of the list up.
LEMMA ContentMessageMaps ==
  ASSUME XInv, XInv', PInv, NEW r \in Request, ContentMessage(r)
  PROVE  Maps
  <1>1. /\ Requests(req) /\ PastTyped /\ req \in [Request -> PopupRequest]
        /\ req[r] \in PopupRequest /\ Fits(req[r])
        /\ Links /\ Sessions /\ OneUse /\ Credentials /\ Filled
    BY DEF XInv, Requests, PInv
  <1>2. PICK d : d = Bound(r).doc
    OBVIOUS
  <1>3. PICK ok \in BOOLEAN :
          /\ req' = Replied(r, ok)
          /\ filled' = IF ok /\ req[r].mail = "fill"
                       THEN filled \cup {[token |-> req[r].uses, doc |-> d,
                                          session |-> req[r].session]}
                       ELSE filled
    <2> DEFINE live == /\ shown = d /\ script[d].port # 0
                       /\ req[r].mail = "fill" => GrantLive(r)
                       /\ req[r].mail = "watch" => ~Passed("capture", r)
               ok == live /\ (req[r].mail # "discover" => script[d].form = ListOf(r))
    <2>1. /\ req' = Replied(r, ok)
          /\ filled' = IF ok /\ req[r].mail = "fill"
                       THEN filled \cup {[token |-> req[r].uses, doc |-> d,
                                          session |-> req[r].session]}
                       ELSE filled
      BY <1>2 DEF ContentMessage
    <2>2. WITNESS ok \in BOOLEAN
    <2> HIDE DEF ok
    <2> QED
      BY <2>1
  <1>4. UNCHANGED <<session, pairing, opening, page, lapsed, grants>> /\ req[r].mail # "none"
    BY DEF ContentMessage, worker, link, ports
  <1>5. PICK e : /\ Advances(req[r], e) /\ req' = [req EXCEPT ![r] = e]
                 /\ e.session = req[r].session /\ e.mail = "none"
                 /\ \/ e.pc = req[r].pc /\ req[r].pc # "acking"
                    \/ req[r].pc = "discovering" /\ e.pc \in {"found", "refused"}
                    \/ req[r].pc = "acking" /\ e.pc = IF ok THEN "acked" ELSE "refused"
    BY <1>1, <1>3, <1>4, RepliedFits
  <1>6. Quiet
    <2>1. Steady(req[r], e) /\ e.kind = req[r].kind
      BY <1>5 DEF Advances, Steady
    <2>2. Fits(req[r]) /\ (req[r].pc = "discovering" => req[r].kind \notin {"fill", "watch"})
      BY <1>1 DEF Fits
    <2>3. Calm(req[r], e, session')
      BY <1>5, <2>1, <2>2 DEF Calm, Shown, Active, Proceeds, Using, IsUse, Over, HasCredential
    <2>4. MailStays(req[r], e) /\ ~(req[r].kind = "none" /\ IsUse(e))
      BY <1>5, <2>1 DEF MailStays, MailIsOfList, IsUse
    <2> QED
      BY <1>4, <1>5, <2>3, <2>4, OneQuiet
  <1>7. Relinks /\ Closes
    BY <1>4, SameLinks
  <1>8. CASE filled' = filled
    BY <1>6, <1>7, <1>8, QuietSteps DEF Maps
  <1>9. CASE filled' # filled
    <2>1. PICK t : t = req[r].uses
      OBVIOUS
    <2>2. /\ ok /\ req[r].mail = "fill"
          /\ filled' = filled \cup {[token |-> t, doc |-> d, session |-> req[r].session]}
      BY <1>3, <1>9, <2>1
    <2>3. /\ req[r].kind = "fill" /\ req[r].pc = "acking" /\ req[r].session = req[t].session
          /\ Active(req[r])
      BY <1>1, <2>1, <2>2 DEF Fits, Credentials, Active, IsUse, Over
    <2>4. t \in Request /\ Shown(req[t]) /\ d = req[t].doc
      BY <1>1, <1>2, <2>1, <2>3, ListOfWatch DEF Requests
    <2>5. \A q \in Request : Calm(req[q], req'[q], session')
      BY <1>6 DEF Quiet, Calms
    <2>6. ASSUME NEW x \in Request
          PROVE  /\ Shown(req'[x]) <=> Shown(req[x])
                 /\ Shown(req[x]) => req'[x].doc = req[x].doc /\ req'[x].session = req[x].session
      BY <2>5 DEF Calm, Steady, Shown
    <2>7. Filled'
      <3>1. ASSUME NEW f \in filled'
            PROVE  /\ Shown(req'[f.token]) /\ f.doc = req'[f.token].doc
                   /\ f.session = req'[f.token].session
        <4>1. CASE f \in filled
          <5>1. f.token \in Request
            BY <1>1, <4>1 DEF PastTyped
          <5>2. Shown(req[f.token]) /\ f.doc = req[f.token].doc /\ f.session = req[f.token].session
            BY <1>1, <4>1 DEF Filled
          <5> QED
            BY <2>6, <5>1, <5>2
        <4>2. CASE f = [token |-> t, doc |-> d, session |-> req[r].session]
          BY <2>3, <2>4, <2>6, <4>2
        <4> QED
          BY <2>2, <3>1, <4>1, <4>2
      <3> QED
        BY <3>1 DEF Filled
    <2>8. PInv'
      <3>1. Links' /\ Turns
        BY <1>1, <1>7, RelinksTurns
      <3>2. Sessions' /\ OneUse' /\ Credentials'
        BY <1>6, <3>1, CalmsKeep DEF Quiet
      <3> QED
        BY <2>7, <3>1, <3>2 DEF PInv
    <2>9. /\ req'[r].mail = "none" /\ ~Proceeds(req'[r]) /\ ~Proceeds(req[r])
          /\ \A q \in Request \ {r} : req'[q] = req[q]
      BY <1>1, <1>5, <2>2, <2>3 DEF Proceeds, Using
    <2>10. ASSUME NEW x \in Request PROVE TargetOf(x)' = TargetOf(x)
      BY <2>6, SameTarget
    <2>11. ASSUME NEW x \in Request \ {t}
           PROVE  StatusOf(x)' = StatusOf(x) /\ GivenTo(x)' = GivenTo(x)
      <3>1. (InUse(x)' <=> InUse(x)) /\ (OnItsWay(x)' <=> OnItsWay(x))
        BY <2>1, <2>9 DEF InUse, OnItsWay
      <3>2. StatusOf(x)' = StatusOf(x)
        BY <1>4, <2>6, <2>8, <3>1, SameStatus
      <3>3. {f \in filled' : f.token = x} = {f \in filled : f.token = x}
        BY <2>2
      <3> QED
        BY <3>2, <3>3 DEF GivenTo
    <2>12. StatusOf(t) = "sent" /\ StatusOf(t)' = "spent"
      <3>1. OnItsWay(t)
        BY <2>1, <2>2 DEF OnItsWay
      <3>2. StatusOf(t) = "sent" /\ t \notin grants /\ ~InUse(t)
        BY <2>4, <3>1, StatusIs DEF StatusFits
      <3>3. t \notin grants' /\ ~InUse(t)'
        BY <1>4, <2>9, <3>2 DEF InUse
      <3>4. ~OnItsWay(t)'
        <4>1. ASSUME NEW q \in Request \ {r}, req[q].mail = "fill", req[q].uses = t PROVE FALSE
          <5>1. Active(req[q])
            BY <1>1, <4>1 DEF Requests, Fits, Credentials, Active, IsUse, Over
          <5> QED
            BY <1>1, <2>1, <2>3, <4>1, <5>1 DEF OneUse
        <4> QED
          BY <2>9, <4>1 DEF OnItsWay
      <3>5. Shown(req'[t])
        BY <2>4, <2>6
      <3> QED
        BY <2>4, <2>8, <3>2, <3>3, <3>4, <3>5, StatusIsThen
    <2>13. GivenTo(t)' = TargetOf(t)
      <3>1. \A f \in filled' : f.token = t => f.doc = req[t].doc /\ f.session = req[t].session
        BY <2>4, <2>6, <2>7 DEF Filled
      <3>2. PICK f : f = [token |-> t, doc |-> d, session |-> req[r].session]
        OBVIOUS
      <3>3. f \in filled' /\ f.token = t
        BY <2>2, <3>2
      <3>4. {<<g.doc, g.session>> : g \in {g \in filled' : g.token = t}}
              = {<<req[t].doc, req[t].session>>}
        BY <3>1, <3>3
      <3> QED
        BY <2>4, <3>4 DEF GivenTo, TargetOf, ListShown, Shown, At
    <2>14. [Capability!Next]_Capability!vars
      BY <1>4, <2>4, <2>10, <2>11, <2>12, <2>13, SameOpened, Grants
    <2> QED
      BY <2>8, <2>14 DEF Maps
  <1> QED
    BY <1>8, <1>9

-----------------------------------------------------------------------------
(* The refinement *)

LEMMA InitMaps == Init => PInv /\ Capability!Init
  <1> SUFFICES ASSUME Init PROVE PInv /\ Capability!Init
    OBVIOUS
  <1>1. \A r \in Request : req[r] = NoRequest
    BY DEF Init
  <1>2. PInv
    BY <1>1
    DEF Init, PInv, Links, Sessions, OneUse, Credentials, Filled, NoRequest, Shown, IsUse, Active,
        HasCredential
  <1>3. \A t \in Request : ~Shown(req[t]) /\ ~ListShown(t)
    BY <1>1 DEF Shown, ListShown, NoRequest
  <1>4. \A t \in Request : StatusOf(t) = "unissued"
    BY <1>2, <1>3, InitXInv, StatusIs DEF StatusFits
  <1>5. \A t \in Request : TargetOf(t) = {} /\ GivenTo(t) = {}
    BY <1>3 DEF Init, TargetOf, GivenTo
  <1>6. Capability!Init
    <2>1. /\ [t \in Request |-> StatusOf(t)] = [t \in Request |-> "unissued"]
          /\ [t \in Request |-> TargetOf(t)] = [t \in Request |-> {}]
          /\ [t \in Request |-> GivenTo(t)] = [t \in Request |-> {}]
          /\ Opened = {}
      BY <1>4, <1>5 DEF Init, Opened, SessionLive
    <2> QED
      BY <2>1 DEF Capability!Init, StatusOf, TargetOf, GivenTo, Opened
  <1> QED
    BY <1>2, <1>6

LEMMA NextMaps == XInv /\ XInv' /\ PInv /\ [Next]_vars => Maps
  <1> SUFFICES ASSUME XInv, XInv', PInv, [Next]_vars PROVE Maps
    OBVIOUS
  <1>1. CASE Page
    BY <1>1, TabMaps, ConnectedMaps, ContentMessageMaps, InjectMaps DEF Page
  <1>2. CASE Time
    BY <1>2, TimeMaps
  <1>3. ASSUME NEW r \in Request, Starts(r) PROVE Maps
    BY <1>3, StartListMaps, StartUseMaps, StartReviewMaps, SessionMissingMaps DEF Starts
  <1>4. ASSUME NEW r \in Request, Handler(r) PROVE Maps
    BY <1>4, TargetMaps, CheckMaps, RegisterMaps, AskMaps, IssueGrantMaps, SendMaps, ArmMaps,
       EndsMap, WaitTimerMaps, SessionMissingMaps
    DEF Handler
  <1>5. ASSUME NEW p \in Pairing, Port(p) PROVE Maps
    BY <1>5, CompanionMaps, HelloMaps, LocksMap, AnswerMaps DEF Port
  <1>6. ASSUME NEW p \in Pairing, Pair(p) PROVE Maps
    BY <1>6, StartPairMaps, CompanionMaps, LocksMap DEF Pair
  <1>7. CASE UNCHANGED vars
    <2>1. UNCHANGED <<session, pairing, opening, page, grants, req, filled, lapsed>>
      BY <1>7 DEF vars, worker, link, ports, past, history
    <2> QED
      BY <2>1, SameLinks, ElsewhereMaps
  <1> QED
    BY <1>1, <1>2, <1>3, <1>4, <1>5, <1>6, <1>7 DEF Next

\* Each list the popup shows comes with one permission (grants.ts Capabilities),
\* for the document and the session the list was made in: it is consumed by the
\* first request that names it and ends in at most one credential, filled into
\* that document and answered in that session, however tabs are navigated,
\* sessions end and pages answer late while the handlers of the worker wait.
THEOREM ExtensionImplementsCapability == Spec => ImplementsCapability
  <1>1. Init => PInv /\ Capability!Init
    BY InitMaps
  <1>2. XInv /\ XInv' /\ PInv /\ [Next]_vars => PInv' /\ [Capability!Next]_Capability!vars
    BY NextMaps DEF Maps
  <1> QED
    BY <1>1, <1>2, Invariance, PTL DEF Spec, ImplementsCapability, Capability!Spec
=============================================================================
