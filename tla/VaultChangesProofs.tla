-------------------------- MODULE VaultChangesProofs --------------------------
(***************************************************************************)
(* Proofs about VaultChanges, for any logins and CSV files and any number  *)
(* of views, saves, sessions and locks.                                    *)
(*                                                                         *)
(* Its steps are steps of VaultSession (ChangesRefine), whose invariant    *)
(* holds therefore.  On top of it: an open view belongs to the session of  *)
(* the page and has stored nothing yet, a document follows the one it was  *)
(* made from, and the one that is being sealed was made from the stored    *)
(* one.  A view never makes an item twice, and so ids stay unique.         *)
(***************************************************************************)
EXTENDS VaultChanges, VaultSessionProofs

(* The inductive invariant *)

\* Every document has its maker.
Makers == Len(by) = edits

\* The views that are open.
LiveViews == {dialog.view, csv.view, review.view} \ {0}

\* They were opened in the session of the page, which no lock has begun to end;
\* the review still offers what it showed.
ViewsLive ==
  /\ \A v \in LiveViews : born[v].session = current
  /\ LiveViews # {} => current # 0 /\ ~lock.on
  /\ dialog.kind = "none" <=> dialog.view = 0
  /\ csv.stage # "none" => csv.view # 0
  /\ review # NoReview => /\ review.view # 0 /\ review.login \in Login
                          /\ review.seen = born[review.view].sight

\* They are different, and none has stored anything.
ViewsDiffer ==
  /\ dialog.view \in LiveViews => dialog.view \notin {csv.view, review.view}
  /\ csv.view \in LiveViews => csv.view # review.view

\* The rows of a file have different numbers.
RowsDiffer == \A q, r \in csv.rows : q.row = r.row => q = r

SavedViews == {saved[n] : n \in DOMAIN saved}

NotSavedYet == LiveViews \cap SavedViews = {}

SavedOnce == \A m, n \in DOMAIN saved : saved[m] = saved[n] => m = n

\* A change is made in the session its view was opened in.
MadeWhereBorn ==
  \A e \in DOMAIN by : by[e].view # 0 => born[by[e].view].session = by[e].session

Writing == \E s \in DOMAIN session : session[s].writes # <<>>

\* The view of the document that is being sealed has stored nothing either; a
\* review is over by then, and a save under way.
WritingOnce ==
  Writing /\ by[edits].view # 0 =>
    save # 0 /\ by[edits].view \notin SavedViews \cup {review.view}

\* What was made from a document replaces only what its maker may replace ...
Follows(items, change, next) == \A i \in items \ next : MayReplace(change, i)

Derived ==
  \A e \in DOMAIN by :
    by[e].from < e /\ Follows(docs[by[e].from], by[e], docs[e])

\* ... and an approved update only what its review showed.
SeenOnly ==
  \A e \in DOMAIN by : by[e].kind = "update" =>
    /\ by[e].view # 0
    /\ docs[by[e].from] \ docs[e] \subseteq born[by[e].view].sight

\* The document that is being sealed was made from the stored one.
MadeFromStored ==
  Writing /\ history.imported = 0 /\ ~history.stale => by[edits].from = stored.edit

\* With n documents, items have different ids, no item is newer than the
\* documents, and those that a sync brought are numbered as they came.
WellNumbered(items, n) ==
  /\ \A i, j \in items : i.id = j.id => i = j
  /\ \A i \in items : i.made <= n /\ (i.id[1] = 0 => i.id[2] <= n + 1)

DocsNumbered == \A e \in 0..edits : WellNumbered(docs[e], edits)

\* An item was there from the beginning, or came by a sync or a view that has
\* stored its change.
Known(items, known) == \A i \in items : i.id[1] \in {0} \cup known

DocsKnown ==
  /\ \A e \in {0, shown.edit, stored.edit, sync.doc.edit, auth.envelope.edit} :
       Known(docs[e], SavedViews)
  /\ Writing => Known(docs[edits], SavedViews \cup {by[edits].view})

FormKnown ==
  dialog.kind = "form" =>
    /\ dialog.item.id[1] \in {0, dialog.view} \cup SavedViews
    /\ dialog.item.id[1] = 0 => dialog.item.id[2] <= edits + 1

CInv ==
  /\ IInv
  /\ ChangesTypeOK /\ Makers
  /\ ViewsLive /\ ViewsDiffer /\ RowsDiffer /\ NotSavedYet /\ SavedOnce
  /\ MadeWhereBorn /\ WritingOnce
  /\ SeenOnly
  /\ Derived /\ MadeFromStored
  /\ DocsNumbered /\ DocsKnown /\ FormKnown

-----------------------------------------------------------------------------
(* The steps of VaultSession *)

\* A step that changes items is a step of the page, or changes nothing of it.
LEMMA PageStep == ASSUME [ChangesNext]_changeVars PROVE [Next]_vars
  <1>1. CASE UNCHANGED changeVars
    BY <1>1 DEF changeVars
  <1>2. CASE \/ OpenForm \/ OpenDelete \/ CloseDialog \/ CsvRead \/ CancelCsv
             \/ CancelReview \/ ApproveRefused
             \/ \E login \in Login : Offer(login)
             \/ \E file \in CsvFiles : ChooseCsv(file)
    BY <1>2
    DEF OpenForm, OpenDelete, CloseDialog, CsvRead, CancelCsv, CancelReview,
        ApproveRefused, Offer, ChooseCsv
  <1>3. CASE \/ ConfirmDelete \/ ApproveNew
             \/ \E login \in Login : SubmitForm(login)
             \/ \E item \in Items : Favourite(item)
             \/ \E strategy \in {"skip", "import-all"} : ImportCsv(strategy)
             \/ \E item \in review.seen : ApproveUpdate(item)
    BY <1>3
    DEF ConfirmDelete, ApproveNew, SubmitForm, Favourite, ImportCsv,
        ApproveUpdate, Change, Next
  <1>4. CASE Pull \/ Leaves \/ Behind \/ \E s \in DOMAIN session : Stores(s)
    BY <1>4 DEF Pull, Leaves, Behind, Stores, Next, Settle
  <1> QED
    BY <1>1, <1>2, <1>3, <1>4 DEF ChangesNext

\* Whatever holds of the page holds of the page with its items.
THEOREM ChangesRefine == ChangesSpec => Spec
  <1>1. ChangesInit => Init
    BY DEF ChangesInit
  <1>2. [ChangesNext]_changeVars => [Next]_vars
    BY PageStep
  <1> QED
    BY <1>1, <1>2, PTL DEF ChangesSpec, Spec

\* So a page seals with a living key and shows what is stored, whatever views,
\* imports, reviews and pulls change its items.
THEOREM ChangesKeepPage == ChangesSpec => [](SealsHaveKey /\ ShownIsStored)
  BY ChangesRefine, KeyOutlivesSeals, PageShowsStored, PTL

-----------------------------------------------------------------------------
(* The operations on items *)

LEMMA UpdatedItems ==
  ASSUME NEW items \in SUBSET Item, NEW item, NEW login \in Login,
         edits \in Nat, WellNumbered(items, edits)
  PROVE  LET next == Updated(items, item, login) IN
         /\ next \in SUBSET Item /\ WellNumbered(next, edits + 1)
         /\ \A i \in items \ next : i.id = item.id
         /\ \A known : Known(items, known) => Known(next, known)
  <1> DEFINE new(i) == IF i.id = item.id
                       THEN [i EXCEPT !.login = login, !.made = edits + 1] ELSE i
             next == Updated(items, item, login)
  <1>1. next = {new(i) : i \in items}
    BY DEF Updated
  <1>2. \A i \in items :
          /\ new(i) \in Item /\ new(i).id = i.id
          /\ i.made <= new(i).made /\ new(i).made <= edits + 1
    <2> TAKE i \in items
    <2>1. i \in Item /\ i.made \in Nat /\ i.made <= edits /\ edits + 1 \in Nat
      BY DEF Item, WellNumbered
    <2>2. CASE i.id = item.id
      <3>1. new(i) = [i EXCEPT !.login = login, !.made = edits + 1]
        BY <2>2
      <3> HIDE DEF new
      <3>2. new(i) \in Item /\ new(i).id = i.id /\ new(i).made = edits + 1
        BY <2>1, <3>1 DEF Item
      <3> QED
        BY <2>1, <3>2
    <2>3. CASE i.id # item.id
      BY <2>1, <2>3
    <2> QED
      BY <2>2, <2>3
  <1>3. \A i \in items : i.id[1] = 0 => i.id[2] <= edits + 1
    BY DEF WellNumbered
  <1>9. \A i \in items : i.id # item.id => new(i) = i
    OBVIOUS
  <1>4. \A i \in items : i.id[2] \in Nat
    BY DEF Item
  <1>5. \A i, j \in items : new(i).id = new(j).id => new(i) = new(j)
    BY <1>2 DEF WellNumbered
  <1> HIDE DEF new
  <1>6. next \in SUBSET Item /\ WellNumbered(next, edits + 1)
    BY <1>1, <1>2, <1>3, <1>4, <1>5 DEF WellNumbered
  <1>7. \A i \in items \ next : i.id = item.id
    <2> TAKE i \in items \ next
    <2>1. new(i) # i
      BY <1>1
    <2> QED
      BY <2>1, <1>9
  <1>8. \A known : Known(items, known) => Known(next, known)
    BY <1>1, <1>2 DEF Known
  <1> QED
    BY <1>6, <1>7, <1>8

LEMMA AddedItems ==
  ASSUME NEW items \in SUBSET Item, NEW id \in Nat \X Nat, NEW login \in Login,
         edits \in Nat, WellNumbered(items, edits),
         \A i \in items : i.id # id,
         id[1] = 0 => id[2] <= edits + 2
  PROVE  LET next == Added(items, id, login) IN
         /\ next \in SUBSET Item /\ WellNumbered(next, edits + 1)
         /\ items \subseteq next
         /\ \A known : Known(items, known) => Known(next, known \cup {id[1]})
  <1> DEFINE item == [id |-> id, login |-> login, made |-> edits + 1]
             next == Added(items, id, login)
  <1>1. next = items \cup {item}
    BY DEF Added
  <1>2. item \in Item /\ item.id = id /\ item.made = edits + 1
    BY DEF Item
  <1>3. \A i \in items : i.made \in Nat /\ i.made <= edits /\ i.id[2] \in Nat
    BY DEF Item, WellNumbered
  <1> HIDE DEF item
  <1>4. WellNumbered(next, edits + 1)
    BY <1>1, <1>2, <1>3 DEF WellNumbered
  <1>5. items \subseteq next
    BY <1>1
  <1>6. \A known : Known(items, known) => Known(next, known \cup {id[1]})
    BY <1>1, <1>2 DEF Known
  <1> QED
    BY <1>1, <1>2, <1>4, <1>5, <1>6

LEMMA RemovedItems ==
  ASSUME NEW items \in SUBSET Item, NEW id,
         edits \in Nat, WellNumbered(items, edits)
  PROVE  LET next == {i \in items : i.id # id} IN
         /\ next \in SUBSET Item /\ WellNumbered(next, edits + 1)
         /\ \A i \in items \ next : i.id = id
         /\ \A known : Known(items, known) => Known(next, known)
  <1> DEFINE next == {i \in items : i.id # id}
  <1>1. \A i \in items : i.made \in Nat /\ i.id[2] \in Nat
    BY DEF Item
  <1>2. WellNumbered(next, edits + 1)
    BY <1>1 DEF WellNumbered
  <1>3. \A i \in items \ next : i.id = id
    OBVIOUS
  <1>4. \A known : Known(items, known) => Known(next, known)
    BY DEF Known
  <1> QED
    BY <1>2, <1>3, <1>4

-----------------------------------------------------------------------------
(* The views *)

Kinds == {"sync", "form", "delete", "favourite", "csv", "create", "update"}
SeenItem == [id : Nat \X Nat, login : Login \cup {NoLogin}, made : Nat]
View == [session : DOMAIN session, sight : SUBSET Item]
Maker == [kind : Kinds, view : 0..Len(born), from : 0..edits, session : DOMAIN session,
          seen : SeenItem]

ViewsTyped ==
  /\ dialog \in [kind : {"none", "form", "delete"}, view : 0..Len(born),
                 item : SeenItem]
  /\ csv \in [stage : {"none", "reading", "preview"}, view : 0..Len(born),
              rows : SUBSET Row]
  /\ review \in [view : 0..Len(born), login : Login \cup {NoLogin},
                 seen : SUBSET Item]

\* Views are only added.
BornGrows ==
  /\ born' \in Seq(View) /\ Len(born') <= MaxViews
  /\ Len(born) \in Nat /\ Len(born') \in Nat /\ Len(born) <= Len(born')
  /\ DOMAIN born = 1..Len(born) /\ DOMAIN born' = 1..Len(born')
  /\ \A v \in DOMAIN born : born'[v] = born[v]

LEMMA BornStays == ASSUME CInv, UNCHANGED born PROVE BornGrows
  BY LenProperties DEF CInv, ChangesTypeOK, BornGrows, View

LEMMA Counted == ASSUME TypeOK PROVE edits \in Nat /\ 0 \in 0..edits
  BY ConstantsAssumption DEF TypeOK, ConstantsAssumption

LEMMA ItemsTyped ==
  ASSUME CInv
  PROVE  /\ Items \in SUBSET Item /\ WellNumbered(Items, edits)
         /\ Known(Items, SavedViews)
         /\ edits \in Nat /\ shown.edit \in 0..edits
  <1>1. edits \in Nat
    BY Counted DEF CInv, ChangesTypeOK
  <1>2. shown.edit \in 0..edits
    BY <1>1 DEF CInv, IInv, TypeOK, Numbered, Envelope
  <1>3. Items \in SUBSET Item
    BY <1>2 DEF CInv, ChangesTypeOK, Items
  <1>4. WellNumbered(Items, edits)
    BY <1>2 DEF CInv, DocsNumbered, Items
  <1>5. Known(Items, SavedViews)
    BY DEF CInv, DocsKnown, Items
  <1> QED
    BY <1>1, <1>2, <1>3, <1>4, <1>5

LEMMA SavedBorn == ASSUME CInv PROVE SavedViews \subseteq DOMAIN born
  BY LenProperties, ElementOfSeq DEF CInv, ChangesTypeOK, SavedViews

LEMMA BornAdded ==
  ASSUME CInv, current # 0, NEW v, Opens(v)
  PROVE  /\ BornGrows
         /\ v = Len(born) + 1 /\ v \in DOMAIN born'
         /\ born'[v].session = current /\ born'[v].sight = Items
         /\ v \notin SavedViews
  <1> DEFINE x == [session |-> current, sight |-> Items]
  <1>1. /\ born \in Seq(View) /\ Len(born) < MaxViews /\ MaxViews \in Nat
        /\ x \in View /\ born' = Append(born, x)
        /\ v = Len(born) + 1
    BY ChangesAssumption, ItemsTyped
    DEF CInv, ChangesTypeOK, TypeOK, Opens, ChangesAssumption, View
  <1>5. x.session = current /\ x.sight = Items
    OBVIOUS
  <1> HIDE DEF x
  <1>2. /\ Len(born) \in Nat /\ DOMAIN born = 1..Len(born)
        /\ born' \in Seq(View) /\ Len(born') = Len(born) + 1
        /\ \A w \in 1..Len(born) : born'[w] = born[w]
        /\ born'[Len(born) + 1] = x
    BY <1>1, LenProperties, AppendProperties
  <1>3. DOMAIN born' = 1..Len(born')
    BY <1>2, LenProperties
  <1>4. v \notin SavedViews
    BY <1>1, <1>2, SavedBorn
  <1> QED
    BY <1>1, <1>2, <1>3, <1>4, <1>5 DEF BornGrows

\* What is typed stays typed when there are more views, documents and sessions.
LEMMA MoreTyped ==
  ASSUME CInv, BornGrows, DOMAIN session \subseteq DOMAIN session',
         edits <= edits', edits' \in Nat
  PROVE  /\ by \in Seq(Maker) /\ by \in Seq(Maker') /\ saved \in Seq(DOMAIN born')
         /\ Maker \subseteq Maker'
         /\ \A v \in 0..Len(born) : v \in 0..Len(born')
  <1>1. /\ \A v \in 0..Len(born) : v \in 0..Len(born')
        /\ DOMAIN born \subseteq DOMAIN born'
    BY DEF BornGrows
  <1>2. edits \in Nat
    BY Counted DEF CInv, ChangesTypeOK
  <1>3. Maker \subseteq Maker'
    BY <1>1, <1>2 DEF Maker, Kinds, SeenItem
  <1>4. by \in Seq(Maker) /\ saved \in Seq(DOMAIN born)
    BY DEF CInv, ChangesTypeOK, Maker, Kinds, SeenItem
  <1> HIDE DEF Maker
  <1> QED
    BY <1>1, <1>3, <1>4, SeqMonotonic

\* A review that stays offers what it showed.
LEMMA ReviewStays ==
  ASSUME CInv, BornGrows, review' \in {review, NoReview}
  PROVE  /\ LiveViews \subseteq DOMAIN born
         /\ review'.view \in {0, review.view}
         /\ review' # NoReview =>
              /\ review'.view # 0 /\ review'.login \in Login
              /\ review'.seen = born'[review'.view].sight
  <1>1. /\ dialog.view \in 0..Len(born) /\ csv.view \in 0..Len(born)
        /\ review.view \in 0..Len(born)
    BY DEF CInv, ChangesTypeOK
  <1>2. LiveViews \subseteq DOMAIN born
    BY <1>1 DEF LiveViews, BornGrows
  <1>3. CASE review' = NoReview
    BY <1>2, <1>3 DEF NoReview
  <1>4. CASE review' = review /\ review # NoReview
    <2>1. /\ review.view # 0 /\ review.login \in Login
          /\ review.seen = born[review.view].sight
      BY <1>4 DEF CInv, ViewsLive
    <2>2. born'[review.view] = born[review.view]
      BY <1>1, <2>1 DEF BornGrows
    <2> QED
      BY <1>2, <1>4, <2>1, <2>2
  <1> QED
    BY <1>3, <1>4

\* Steps that open, change or close views, and nothing else.
LEMMA ViewStepKeeps ==
  ASSUME CInv, UNCHANGED <<vars, docs, saved, by>>, BornGrows,
         ViewsTyped', ViewsLive', ViewsDiffer', RowsDiffer', NotSavedYet', FormKnown',
         review'.view \in {0, review.view} \/ review'.view > Len(born)
  PROVE  CInv'
  <1>1. IInv'
    BY QuietKeeps DEF CInv
  <1>2. UNCHANGED <<stored, session, current, shown, save, sync, auth, edits,
                 history>>
    BY DEF vars
  <1>3. edits \in Nat
    BY Counted DEF CInv, ChangesTypeOK
  <1>4. by' \in Seq(Maker') /\ saved' \in Seq(DOMAIN born') /\ by \in Seq(Maker)
    BY <1>2, <1>3, MoreTyped
  <1>5. ChangesTypeOK'
    <2>1. TypeOK' /\ docs' \in [0..edits' -> SUBSET Item]
      BY <1>1, <1>2 DEF IInv, CInv, ChangesTypeOK
    <2>2. born' \in Seq(View') /\ Len(born') <= MaxViews
      BY <1>2 DEF BornGrows, View
    <2> QED
      BY <1>2, <1>4, <2>1, <2>2
      DEF ViewsTyped, ChangesTypeOK, Maker, Kinds, SeenItem, View
  <1>6. \A e \in DOMAIN by : by[e].view \in 0..Len(born)
    <2>1. \A e \in DOMAIN by : by[e] \in Maker
      BY <1>4, LenProperties
    <2>2. \A m \in Maker : m.view \in 0..Len(born)
      BY DEF Maker
    <2> QED
      BY <2>1, <2>2
  <1>7. Makers' /\ SavedOnce' /\ SeenOnly' /\ Derived' /\ MadeFromStored'
    <2>1. SeenOnly'
      BY <1>6 DEF CInv, SeenOnly, BornGrows
    <2> QED
      BY <1>2, <2>1
      DEF CInv, Makers, SavedOnce, Derived, MadeFromStored, Writing
  <1>8. MadeWhereBorn'
    BY <1>6 DEF CInv, MadeWhereBorn, BornGrows
  <1>9. DocsNumbered' /\ DocsKnown'
    BY <1>2 DEF CInv, DocsNumbered, DocsKnown, SavedViews, Writing
  <1>10. WritingOnce'
    <2>1. Writing => edits \in DOMAIN by
      <3>1. ASSUME NEW s \in DOMAIN session, session[s].writes # <<>>
            PROVE  edits \in 1..Len(by)
        BY <1>3, <3>1, Pending DEF CInv, Makers
      <3> QED
        BY <1>4, <3>1, LenProperties DEF Writing
    <2>2. Writing' = Writing /\ SavedViews' = SavedViews
      BY <1>2 DEF Writing, SavedViews
    <2> QED
      BY <1>2, <1>6, <2>1, <2>2 DEF CInv, WritingOnce, BornGrows
  <1> QED
    BY <1>1, <1>5, <1>7, <1>8, <1>9, <1>10 DEF CInv

-----------------------------------------------------------------------------
(* Making a document *)

\* The documents and their makers, after one more.
LEMMA DocMade ==
  ASSUME CInv, NEW items \in SUBSET Item, NEW kind \in Kinds,
         NEW v \in Nat, NEW from \in 0..edits, NEW s \in DOMAIN session,
         NEW seen \in SeenItem,
         edits' = edits + 1, docs' = NextDoc(items), by' = Made(kind, v, from, s, seen),
         WellNumbered(items, edits + 1),
         Follows(docs[from], [kind |-> kind, seen |-> seen], items), BornGrows,
         kind = "update" => v # 0 /\ docs[from] \ items \subseteq born'[v].sight
  PROVE  /\ docs' \in [0..edits' -> SUBSET Item]
         /\ \A e \in 0..edits : docs'[e] = docs[e]
         /\ docs'[edits + 1] = items
         /\ Len(by') = edits + 1 /\ DOMAIN by' = DOMAIN by \cup {edits + 1}
         /\ \A e \in DOMAIN by : by'[e] = by[e] /\ e \in 1..edits
         /\ by'[edits + 1] = [kind |-> kind, view |-> v, from |-> from,
                              session |-> s, seen |-> seen]
         /\ Makers' /\ SeenOnly' /\ Derived' /\ DocsNumbered'
  <1> DEFINE x == [kind |-> kind, view |-> v, from |-> from, session |-> s,
                   seen |-> seen]
  <1>1. edits \in Nat
    BY Counted DEF CInv, ChangesTypeOK
  <1>2. docs \in [0..edits -> SUBSET Item]
    BY DEF CInv, ChangesTypeOK
  <1>3. /\ docs' \in [0..edits' -> SUBSET Item]
        /\ \A e \in 0..edits : docs'[e] = docs[e]
        /\ docs'[edits + 1] = items
    BY <1>1, <1>2 DEF NextDoc
  <1>4. by \in Seq(Maker) /\ Len(by) = edits
    BY DEF CInv, ChangesTypeOK, Makers, Maker, Kinds, SeenItem
  <1>5. by' = Append(by, x)
    BY DEF Made
  <1> HIDE DEF x
  <1>6. /\ Len(by') = edits + 1 /\ DOMAIN by' = DOMAIN by \cup {edits + 1}
        /\ \A e \in DOMAIN by : by'[e] = by[e] /\ e \in 1..edits
        /\ by'[edits + 1] = x
    <2> DEFINE T == Maker \cup {x}
    <2>1. by \in Seq(T) /\ x \in T
      BY <1>4, SeqMonotonic
    <2> HIDE DEF T
    <2>2. /\ Len(by) \in Nat /\ DOMAIN by = 1..Len(by)
          /\ Len(Append(by, x)) = Len(by) + 1
          /\ DOMAIN Append(by, x) = 1..(Len(by) + 1)
          /\ \A e \in 1..Len(by) : Append(by, x)[e] = by[e]
          /\ Append(by, x)[Len(by) + 1] = x
      BY <2>1, LenProperties, AppendProperties
    <2> QED
      BY <1>1, <1>4, <1>5, <2>2
  <1>7. /\ x.kind = kind /\ x.from = from /\ x.seen = seen /\ x.view = v
    BY DEF x
  <1>8. \A e \in DOMAIN by : by[e].from \in 0..edits /\ by[e].from < e /\ e \in 0..edits
    <2>1. \A e \in DOMAIN by : by[e].from < e
      BY DEF CInv, Derived
    <2>2. \A e \in DOMAIN by : by[e] \in Maker
      BY <1>4, LenProperties
    <2>3. \A m \in Maker : m.from \in 0..edits
      BY DEF Maker
    <2> QED
      BY <1>1, <1>6, <2>1, <2>2, <2>3
  <1>9. Makers'
    BY <1>6 DEF Makers
  <1>10. SeenOnly'
    <2>1. \A e \in DOMAIN by : by[e].view # 0 => by[e].view \in DOMAIN born
      <3>1. \A e \in DOMAIN by : by[e] \in Maker
        BY <1>4, LenProperties
      <3>2. \A m \in Maker : m.view \in 0..Len(born)
        BY DEF Maker
      <3> QED
        BY <3>1, <3>2 DEF BornGrows
    <2>2. ASSUME NEW e \in DOMAIN by, by'[e].kind = "update"
          PROVE  /\ by'[e].view # 0
                 /\ docs'[by'[e].from] \ docs'[e] \subseteq born'[by'[e].view].sight
      BY <1>3, <1>6, <1>8, <2>1, <2>2 DEF CInv, SeenOnly, BornGrows
    <2>3. x.kind = "update" =>
            /\ x.view # 0
            /\ docs'[x.from] \ docs'[edits + 1] \subseteq born'[x.view].sight
      BY <1>1, <1>3, <1>7
    <2> QED
      BY <1>6, <2>2, <2>3 DEF SeenOnly
  <1>11. Derived'
    <2>1. ASSUME NEW e \in DOMAIN by
          PROVE  by'[e].from < e /\ Follows(docs'[by'[e].from], by'[e], docs'[e])
      BY <1>3, <1>6, <1>8 DEF CInv, Derived, Follows, MayReplace
    <2>2. x.from < edits + 1 /\ Follows(docs'[x.from], x, docs'[edits + 1])
      BY <1>1, <1>3, <1>7 DEF Follows, MayReplace
    <2> QED
      BY <1>6, <2>1, <2>2 DEF Derived, Follows, MayReplace
  <1>12. DocsNumbered'
    <2>1. \A e \in 0..edits : WellNumbered(docs[e], edits + 1)
      <3>1. \A e \in 0..edits : \A i \in docs[e] : i.made \in Nat /\ i.id[2] \in Nat
        BY <1>2 DEF Item
      <3> QED
        BY <1>1, <3>1 DEF CInv, DocsNumbered, WellNumbered
    <2>2. \A e \in 0..(edits + 1) : WellNumbered(docs'[e], edits + 1)
      BY <1>1, <1>3, <2>1
    <2>3. 0..edits' = 0..(edits + 1) /\ edits' = edits + 1
      OBVIOUS
    <2> QED
      BY <2>2, <2>3 DEF DocsNumbered, WellNumbered
  <1> QED
    BY <1>3, <1>6, <1>9, <1>10, <1>11, <1>12 DEF x

\* A step that makes a document of view v, or of a sync (v is 0).
LEMMA DocKeeps ==
  ASSUME CInv, IInv', NEW items \in SUBSET Item, NEW kind \in Kinds,
         NEW v \in Nat, NEW from \in 0..edits, NEW s \in DOMAIN session,
         NEW seen \in SeenItem,
         edits' = edits + 1, docs' = NextDoc(items), by' = Made(kind, v, from, s, seen),
         WellNumbered(items, edits + 1),
         Follows(docs[from], [kind |-> kind, seen |-> seen], items),
         Known(items, SavedViews \cup {v}),
         kind = "update" => v # 0 /\ docs[from] \ items \subseteq born'[v].sight,
         history.imported = 0 /\ ~history.stale => from = stored.edit,
         BornGrows,
         v # 0 => v \in DOMAIN born' /\ born'[v].session = s /\ v \notin SavedViews
                    /\ v # review'.view /\ save' # 0,
         DOMAIN session' = DOMAIN session,
         UNCHANGED <<stored, shown, sync, auth, current, lock, dialog, csv, saved>>,
         review' \in {review, NoReview},
         history'.imported = history.imported, history'.stale = history.stale
  PROVE  CInv'
  <1>1. /\ docs' \in [0..edits' -> SUBSET Item]
        /\ \A e \in 0..edits : docs'[e] = docs[e]
        /\ docs'[edits + 1] = items
        /\ Len(by') = edits + 1 /\ DOMAIN by' = DOMAIN by \cup {edits + 1}
        /\ \A e \in DOMAIN by : by'[e] = by[e] /\ e \in 1..edits
        /\ by'[edits + 1] = [kind |-> kind, view |-> v, from |-> from,
                             session |-> s, seen |-> seen]
        /\ Makers' /\ SeenOnly' /\ Derived' /\ DocsNumbered'
    BY DocMade
  <1>2. edits \in Nat
    BY Counted DEF CInv, ChangesTypeOK
  <1>3. /\ by \in Seq(Maker) /\ by \in Seq(Maker') /\ saved' \in Seq(DOMAIN born')
        /\ \A w \in 0..Len(born) : w \in 0..Len(born')
    BY <1>2, MoreTyped
  <1>4. v \in 0..Len(born')
    BY DEF BornGrows
  <1>5. ViewsTyped'
    <2>1. ViewsTyped
      BY DEF CInv, ChangesTypeOK, ViewsTyped, SeenItem
    <2>2. NoReview \in [view : 0..Len(born'), login : Login \cup {NoLogin},
                        seen : SUBSET Item]
      BY DEF BornGrows, NoReview
    <2>3. review' \in [view : 0..Len(born'), login : Login \cup {NoLogin},
                       seen : SUBSET Item]
      BY <1>3, <2>1, <2>2 DEF ViewsTyped
    <2> QED
      BY <1>3, <2>1, <2>3 DEF ViewsTyped, SeenItem
  <1>6. ChangesTypeOK'
    <2> DEFINE x == [kind |-> kind, view |-> v, from |-> from, session |-> s,
                     seen |-> seen]
    <2>1. x \in Maker'
      BY <1>2, <1>4 DEF Maker, Kinds, SeenItem
    <2>2. by' = Append(by, x)
      BY DEF Made
    <2> HIDE DEF x
    <2>3. by' \in Seq(Maker')
      BY <1>3, <2>1, <2>2, AppendProperties
    <2>4. TypeOK' /\ born' \in Seq(View') /\ Len(born') <= MaxViews
      BY DEF IInv, BornGrows, View
    <2> QED
      BY <1>1, <1>3, <1>5, <2>3, <2>4
      DEF ChangesTypeOK, ViewsTyped, Maker, Kinds, SeenItem, View
  <1>7. ViewsLive' /\ ViewsDiffer' /\ NotSavedYet'
    <2>1. /\ LiveViews \subseteq DOMAIN born
          /\ review'.view \in {0, review.view}
          /\ review' # NoReview =>
               /\ review'.view # 0 /\ review'.login \in Login
               /\ review'.seen = born'[review'.view].sight
      BY ReviewStays
    <2>2. LiveViews' \subseteq LiveViews
      BY <2>1 DEF LiveViews
    <2>4. ViewsLive'
      BY <2>1, <2>2 DEF CInv, ViewsLive, BornGrows
    <2>5. ViewsDiffer'
      BY <2>1 DEF CInv, ViewsDiffer, LiveViews
    <2>6. NotSavedYet'
      BY <2>2 DEF CInv, NotSavedYet, SavedViews
    <2> QED
      BY <2>4, <2>5, <2>6
  <1>8. SavedOnce' /\ RowsDiffer'
    BY DEF CInv, SavedOnce, RowsDiffer
  <1>9. MadeWhereBorn'
    <2>1. \A e \in DOMAIN by : by[e] \in Maker
      BY <1>3, LenProperties
    <2>2. \A m \in Maker : m.view \in 0..Len(born)
      BY DEF Maker
    <2> QED
      BY <1>1, <2>1, <2>2 DEF CInv, MadeWhereBorn, BornGrows
  <1>10. WritingOnce' /\ MadeFromStored'
    BY <1>1 DEF WritingOnce, MadeFromStored, SavedViews
  <1>11. DocsKnown' /\ FormKnown'
    <2>1. \A e \in {0, shown.edit, stored.edit, sync.doc.edit, auth.envelope.edit} :
            e \in 0..edits
      <3>1. \A e \in {shown, stored, sync.doc, auth.envelope} :
              e.edit \in Nat /\ e.edit <= edits
        BY DEF CInv, IInv, TypeOK, Numbered, Envelope
      <3> QED
        BY <1>2, <3>1
    <2>2. DocsKnown'
      BY <1>1, <2>1 DEF CInv, DocsKnown, SavedViews
    <2>3. dialog.item.id[2] \in Nat
      BY DEF CInv, ChangesTypeOK
    <2>4. FormKnown'
      BY <1>2, <2>3 DEF CInv, FormKnown, SavedViews
    <2> QED
      BY <2>2, <2>4
  <1> QED
    BY <1>1, <1>6, <1>7, <1>8, <1>9, <1>10, <1>11 DEF CInv

\* A change the user makes in a view.
LEMMA ChangeKeeps ==
  ASSUME CInv, NEW items \in SUBSET Item, NEW kind \in Kinds,
         NEW v \in Nat \ {0}, NEW seen \in SeenItem,
         Change(kind, v, seen, items),
         WellNumbered(items, edits + 1),
         Follows(Items, [kind |-> kind, seen |-> seen], items),
         Known(items, SavedViews \cup {v}),
         kind = "update" => Items \ items \subseteq born'[v].sight,
         BornGrows, v \in DOMAIN born', born'[v].session = current,
         v \notin SavedViews,
         v # review'.view,
         UNCHANGED <<dialog, csv, saved>>, review' \in {review, NoReview}
  PROVE  CInv'
  <1>1. IInv'
    BY PersistKeeps DEF CInv, Change
  <1>2. /\ current # 0 /\ ~lock.on /\ ~sync.on /\ save = 0
        /\ UNCHANGED <<stored, status, current, shown, sync, auth, lock>>
        /\ history' = [history EXCEPT !.wanted =
             [vault |-> session[current].vault, edit |-> edits + 1]]
        /\ docs' = NextDoc(items)
        /\ by' = Made(kind, v, shown.edit, current, seen)
    BY DEF Change, Persist
  <1>3. /\ edits' = edits + 1 /\ edits \in Nat /\ save' = edits + 1
        /\ current \in DOMAIN session /\ DOMAIN session' = DOMAIN session
    <2>1. current \in DOMAIN session
      BY <1>2 DEF CInv, IInv, TypeOK
    <2>2. session[current].writes = <<>>
      BY <1>2, <2>1, Pending DEF CInv
    <2> QED
      BY <2>1, <2>2, Queued DEF CInv, Change, Persist
  <1>4. /\ history'.imported = history.imported /\ history'.stale = history.stale
    BY <1>2 DEF CInv, IInv, TypeOK
  <1>5. shown.edit \in 0..edits
    BY DEF CInv, IInv, TypeOK, Numbered, Envelope
  <1>6. history.imported = 0 /\ ~history.stale => shown.edit = stored.edit
    BY <1>2 DEF CInv, IInv, OneSession, Fresh
  <1> QED
    BY <1>1, <1>2, <1>3, <1>4, <1>5, <1>6, DocKeeps DEF Items

-----------------------------------------------------------------------------
(* Opening and closing views *)

\* The page is open when a button is enabled or an offer is shown.
LEMMA OpenPage ==
  ASSUME CInv, status = "unlocked"
  PROVE  current # 0
  BY DEF CInv, IInv, OneSession

\* A new view is in none of the others' places.
LEMMA OpenFormKeeps == ASSUME CInv, OpenForm \/ OpenDelete PROVE CInv'
  <1>1. PICK v \in 1..MaxViews :
          /\ Opens(v)
          /\ \/ \E item \in Items \cup {NewLogin(v)} :
                  dialog' = [kind |-> "form", view |-> v, item |-> item]
             \/ \E item \in Items :
                  dialog' = [kind |-> "delete", view |-> v, item |-> item]
    BY DEF OpenForm, OpenDelete
  <1>2. /\ status = "unlocked" /\ ~lock.on /\ dialog = NoDialog
        /\ UNCHANGED <<vars, docs, csv, review, saved, by>>
    BY DEF OpenForm, OpenDelete, Enabled
  <1>3. /\ BornGrows
        /\ v = Len(born) + 1 /\ v \in DOMAIN born'
        /\ born'[v].session = current /\ born'[v].sight = Items
        /\ v \notin SavedViews /\ current # 0
    BY <1>1, <1>2, BornAdded, OpenPage
  <1>4. /\ v \in Nat \ {0} /\ v > Len(born)
        /\ \A w \in 0..Len(born) : w \in 0..Len(born') /\ w # v
        /\ v \in 0..Len(born')
    BY <1>3 DEF BornGrows
  <1>5. PICK kind \in {"form", "delete"}, item \in Items \cup {NewLogin(v)} :
          dialog' = [kind |-> kind, view |-> v, item |-> item]
    BY <1>1
  <1>6. /\ item \in SeenItem
        /\ item.id[1] \in {0, v} \cup SavedViews
        /\ item.id[1] = 0 => item.id[2] <= edits + 1
    <2>1. CASE item \in Items
      BY <2>1, ItemsTyped DEF Item, SeenItem, WellNumbered, Known
    <2>2. CASE item = NewLogin(v)
      BY <1>4, <2>2 DEF NewLogin, NoItem, SeenItem
    <2> QED
      BY <2>1, <2>2
  <1>7. ViewsTyped
    BY DEF CInv, ChangesTypeOK, ViewsTyped, SeenItem
  <1>8. ViewsTyped'
    BY <1>2, <1>4, <1>5, <1>6, <1>7 DEF ViewsTyped, SeenItem
  <1>9. /\ dialog.view = 0 /\ dialog'.view = v /\ dialog'.kind = kind
        /\ dialog'.item = item
    BY <1>2, <1>5 DEF NoDialog
  <1>10. /\ csv.view \in 0..Len(born) /\ review.view \in 0..Len(born)
         /\ csv'.view # v /\ review'.view # v
    BY <1>2, <1>4, <1>7 DEF ViewsTyped
  <1>11. LiveViews' = LiveViews \cup {v} /\ LiveViews \subseteq DOMAIN born
    BY <1>2, <1>4, <1>9, <1>10 DEF LiveViews, BornGrows
  <1>12. ViewsLive'
    <2>1. review' # NoReview =>
            /\ review'.view # 0 /\ review'.login \in Login
            /\ review'.seen = born'[review'.view].sight
      BY <1>2, <1>3, ReviewStays
    <2> QED
      BY <1>2, <1>3, <1>5, <1>9, <1>11, <2>1 DEF CInv, ViewsLive, BornGrows, vars
  <1>13. ViewsDiffer'
    BY <1>2, <1>9, <1>10, <1>11 DEF CInv, ViewsDiffer, LiveViews
  <1>14. NotSavedYet'
    BY <1>2, <1>3, <1>11 DEF CInv, NotSavedYet, SavedViews
  <1>15. FormKnown' /\ RowsDiffer'
    BY <1>2, <1>6, <1>9 DEF FormKnown, SavedViews, vars, CInv, RowsDiffer
  <1> QED
    BY <1>2, <1>3, <1>8, <1>12, <1>13, <1>14, <1>15, ViewStepKeeps

LEMMA ChooseCsvKeeps ==
  ASSUME CInv, NEW file \in CsvFiles, ChooseCsv(file)
  PROVE  CInv'
  <1>1. PICK v \in 1..MaxViews :
          /\ Opens(v)
          /\ csv' = [stage |-> "reading", view |-> v, rows |-> Rows(file, Items)]
    BY DEF ChooseCsv
  <1>2. /\ status = "unlocked" /\ ~lock.on
        /\ UNCHANGED <<vars, docs, dialog, review, saved, by>>
    BY DEF ChooseCsv, Enabled
  <1>3. /\ BornGrows
        /\ v = Len(born) + 1 /\ v \in DOMAIN born'
        /\ born'[v].session = current /\ born'[v].sight = Items
        /\ v \notin SavedViews /\ current # 0
    BY <1>1, <1>2, BornAdded, OpenPage
  <1>4. /\ v \in Nat \ {0} /\ v > Len(born)
        /\ \A w \in 0..Len(born) : w \in 0..Len(born') /\ w # v
        /\ v \in 0..Len(born')
    BY <1>3 DEF BornGrows
  <1>5. Rows(file, Items) \in SUBSET Row
    <2>1. file \in Seq(Login \cup {NoLogin})
      BY ChangesAssumption DEF ChangesAssumption
    <2>2. \A n \in DOMAIN file : n \in Nat /\ file[n] \in Login \cup {NoLogin}
      BY <2>1, LenProperties
    <2>3. ASSUME NEW n \in DOMAIN file, file[n] # NoLogin
          PROVE  [row |-> n, login |-> file[n],
                  duplicate |-> \/ \E i \in Items : i.login = file[n]
                                \/ \E m \in 1..(n - 1) : file[m] = file[n]] \in Row
      <3>1. (\/ \E i \in Items : i.login = file[n]
             \/ \E m \in 1..(n - 1) : file[m] = file[n]) \in BOOLEAN
        OBVIOUS
      <3> QED
        BY <2>2, <2>3, <3>1 DEF Row
    <2> QED
      BY <2>3 DEF Rows
  <1>6. ViewsTyped
    BY DEF CInv, ChangesTypeOK, ViewsTyped, SeenItem
  <1>7. ViewsTyped'
    BY <1>1, <1>2, <1>4, <1>5, <1>6 DEF ViewsTyped, SeenItem
  <1>8. csv'.view = v /\ csv'.stage # "none"
    BY <1>1
  <1>9. /\ dialog.view \in 0..Len(born) /\ review.view \in 0..Len(born)
        /\ dialog'.view # v /\ review'.view # v
    BY <1>2, <1>4, <1>6 DEF ViewsTyped
  <1>10. LiveViews' \subseteq LiveViews \cup {v} /\ LiveViews \subseteq DOMAIN born
    BY <1>2, <1>4, <1>6, <1>8, <1>9 DEF LiveViews, BornGrows, ViewsTyped
  <1>11. ViewsLive'
    <2>1. review' # NoReview =>
            /\ review'.view # 0 /\ review'.login \in Login
            /\ review'.seen = born'[review'.view].sight
      BY <1>2, <1>3, ReviewStays
    <2> QED
      BY <1>2, <1>3, <1>4, <1>8, <1>10, <2>1 DEF CInv, ViewsLive, BornGrows, vars
  <1>12. ViewsDiffer'
    BY <1>2, <1>4, <1>8, <1>9 DEF CInv, ViewsDiffer, LiveViews
  <1>13. NotSavedYet'
    BY <1>2, <1>3, <1>10 DEF CInv, NotSavedYet, SavedViews
  <1>14. FormKnown' /\ RowsDiffer'
    <2>1. FormKnown'
      BY <1>2 DEF CInv, FormKnown, SavedViews, vars
    <2>2. csv'.rows = Rows(file, Items)
      BY <1>1
    <2>3. \A q \in Rows(file, Items) :
            /\ q.login = file[q.row]
            /\ q = [row |-> q.row, login |-> file[q.row],
                    duplicate |-> \/ \E i \in Items : i.login = file[q.row]
                                  \/ \E m \in 1..(q.row - 1) : file[m] = file[q.row]]
      BY DEF Rows
    <2>4. \A q, r \in Rows(file, Items) : q.row = r.row => q = r
      <3> SUFFICES ASSUME NEW q \in Rows(file, Items), NEW r \in Rows(file, Items),
                          q.row = r.row
                   PROVE  q = r
        OBVIOUS
      <3> DEFINE n == q.row
      <3>1. q = [row |-> n, login |-> file[n],
                 duplicate |-> \/ \E i \in Items : i.login = file[n]
                               \/ \E m \in 1..(n - 1) : file[m] = file[n]]
        BY <2>3
      <3>2. r = [row |-> n, login |-> file[n],
                 duplicate |-> \/ \E i \in Items : i.login = file[n]
                               \/ \E m \in 1..(n - 1) : file[m] = file[n]]
        BY <2>3
      <3> QED
        BY <3>1, <3>2
    <2> QED
      BY <2>1, <2>2, <2>4 DEF RowsDiffer
  <1> QED
    BY <1>2, <1>3, <1>7, <1>11, <1>12, <1>13, <1>14, ViewStepKeeps

LEMMA OfferKeeps ==
  ASSUME CInv, NEW login \in Login, Offer(login)
  PROVE  CInv'
  <1>1. PICK v \in 1..MaxViews :
          /\ Opens(v)
          /\ review' = [view |-> v, login |-> login, seen |-> Items]
    BY DEF Offer
  <1>2. /\ status = "unlocked" /\ ~lock.on
        /\ UNCHANGED <<vars, docs, dialog, csv, saved, by>>
    BY DEF Offer
  <1>3. /\ BornGrows
        /\ v = Len(born) + 1 /\ v \in DOMAIN born'
        /\ born'[v].session = current /\ born'[v].sight = Items
        /\ v \notin SavedViews /\ current # 0
    BY <1>1, <1>2, BornAdded, OpenPage
  <1>4. /\ v \in Nat \ {0} /\ v > Len(born)
        /\ \A w \in 0..Len(born) : w \in 0..Len(born') /\ w # v
        /\ v \in 0..Len(born')
    BY <1>3 DEF BornGrows
  <1>5. ViewsTyped
    BY DEF CInv, ChangesTypeOK, ViewsTyped, SeenItem
  <1>6. ViewsTyped'
    BY <1>1, <1>2, <1>4, <1>5, ItemsTyped DEF ViewsTyped, SeenItem
  <1>7. review'.view = v
    BY <1>1
  <1>8. /\ dialog.view \in 0..Len(born) /\ csv.view \in 0..Len(born)
        /\ dialog'.view # v /\ csv'.view # v
    BY <1>2, <1>4, <1>5 DEF ViewsTyped
  <1>9. LiveViews' \subseteq LiveViews \cup {v} /\ LiveViews \subseteq DOMAIN born
    BY <1>2, <1>4, <1>5, <1>7, <1>8 DEF LiveViews, BornGrows, ViewsTyped
  <1>10. ViewsLive'
    BY <1>1, <1>2, <1>3, <1>4, <1>7, <1>9 DEF CInv, ViewsLive, BornGrows, vars
  <1>11. ViewsDiffer'
    BY <1>2, <1>4, <1>7, <1>8 DEF CInv, ViewsDiffer, LiveViews
  <1>12. NotSavedYet'
    BY <1>2, <1>3, <1>9 DEF CInv, NotSavedYet, SavedViews
  <1>13. FormKnown' /\ RowsDiffer'
    BY <1>2 DEF CInv, FormKnown, SavedViews, vars, RowsDiffer
  <1> QED
    BY <1>2, <1>3, <1>4, <1>6, <1>7, <1>10, <1>11, <1>12, <1>13, ViewStepKeeps

LEMMA CloseKeeps ==
  ASSUME CInv, CloseDialog \/ CsvRead \/ CancelCsv \/ CancelReview \/ ApproveRefused
  PROVE  CInv'
  <1>1. /\ UNCHANGED <<vars, docs, past>>
        /\ dialog' \in {dialog, NoDialog} /\ review' \in {review, NoReview}
        /\ \/ csv' \in {csv, NoCsv}
           \/ csv.stage = "reading" /\ csv' = [csv EXCEPT !.stage = "preview"]
    BY DEF CloseDialog, CsvRead, CancelCsv, CancelReview, ApproveRefused, Consumed
  <1>2. ViewsTyped /\ BornGrows
    BY <1>1, BornStays DEF CInv, ChangesTypeOK, ViewsTyped, SeenItem, past
  <1>3. /\ NoDialog \in [kind : {"none", "form", "delete"}, view : 0..Len(born),
                         item : SeenItem]
        /\ NoCsv \in [stage : {"none", "reading", "preview"}, view : 0..Len(born),
                      rows : SUBSET Row]
        /\ NoReview \in [view : 0..Len(born), login : Login \cup {NoLogin},
                         seen : SUBSET Item]
    BY <1>2 DEF BornGrows, NoDialog, NoItem, NoCsv, NoReview, SeenItem
  <1>4. ViewsTyped'
    BY <1>1, <1>2, <1>3 DEF ViewsTyped, SeenItem, past
  <1>5. /\ dialog'.view \in {0, dialog.view} /\ review'.view \in {0, review.view}
        /\ csv'.view \in {0, csv.view}
        /\ dialog'.kind = "none" => dialog' = NoDialog \/ dialog.kind = "none"
        /\ csv'.stage # "none" => csv.stage # "none" /\ csv'.view = csv.view
        /\ dialog'.kind = "form" => dialog' = dialog
    BY <1>1, <1>2 DEF ViewsTyped, NoDialog, NoCsv, NoReview
  <1>6. LiveViews' \subseteq LiveViews
    BY <1>5 DEF LiveViews
  <1>7. ViewsLive'
    BY <1>1, <1>5, <1>6 DEF CInv, ViewsLive, NoDialog, NoReview, past, vars
  <1>8. ViewsDiffer'
    BY <1>5 DEF CInv, ViewsDiffer, LiveViews
  <1>9. NotSavedYet'
    BY <1>1, <1>6 DEF CInv, NotSavedYet, SavedViews, past
  <1>10. FormKnown' /\ RowsDiffer'
    BY <1>1, <1>2, <1>5
    DEF CInv, FormKnown, SavedViews, past, vars, RowsDiffer, NoCsv, ViewsTyped
  <1> QED
    BY <1>1, <1>2, <1>4, <1>5, <1>7, <1>8, <1>9, <1>10, ViewStepKeeps DEF past

-----------------------------------------------------------------------------
(* The changes *)

\* An open view may be saved.
LEMMA LiveView ==
  ASSUME CInv, NEW v \in LiveViews
  PROVE  /\ v \in Nat \ {0} /\ v \in DOMAIN born /\ born[v].session = current
         /\ v \notin SavedViews
  BY BornStays DEF CInv, ChangesTypeOK, LiveViews, ViewsLive, NotSavedYet, BornGrows

LEMMA SubmitFormKeeps ==
  ASSUME CInv, NEW login \in Login, SubmitForm(login)
  PROVE  CInv'
  <1> DEFINE v == dialog.view
             next == Replaced(Items, dialog.item, login)
  <1>1. /\ dialog.kind = "form" /\ Change("form", v, dialog.item, next)
        /\ UNCHANGED <<views, born, saved>>
    BY DEF SubmitForm
  <1>2. v \in LiveViews
    BY <1>1 DEF CInv, ViewsLive, LiveViews
  <1>3. /\ v \in Nat \ {0} /\ v \in DOMAIN born /\ born[v].session = current
        /\ v \notin SavedViews
    BY <1>2, LiveView
  <1>4. BornGrows /\ v # review.view
    BY <1>1, <1>2, BornStays DEF CInv, ViewsDiffer, views
  <1>5. dialog.item \in SeenItem
    BY DEF CInv, ChangesTypeOK, SeenItem
  <1>6. /\ Items \in SUBSET Item /\ WellNumbered(Items, edits)
        /\ Known(Items, SavedViews) /\ edits \in Nat
    BY ItemsTyped
  <1> DEFINE change == [kind |-> "form", seen |-> dialog.item]
  <1>7. /\ next \in SUBSET Item /\ WellNumbered(next, edits + 1)
        /\ Follows(Items, change, next) /\ Known(next, SavedViews \cup {v})
    <2>1. CASE \E i \in Items : i.id = dialog.item.id
      <3>1. next = Updated(Items, dialog.item, login)
        BY <2>1 DEF Replaced
      <3> HIDE DEF next
      <3>2. /\ next \in SUBSET Item /\ WellNumbered(next, edits + 1)
            /\ Follows(Items, change, next) /\ Known(next, SavedViews)
        BY <1>6, <3>1, UpdatedItems DEF Follows, MayReplace
      <3> QED
        BY <3>2 DEF Known
    <2>2. CASE ~ \E i \in Items : i.id = dialog.item.id
      <3> DEFINE id == dialog.item.id
      <3>1. next = Added(Items, id, login)
        BY <2>2 DEF Replaced
      <3>2. /\ id \in Nat \X Nat /\ id[1] \in {0, v} \cup SavedViews
            /\ id[1] = 0 => id[2] <= edits + 2
        BY <1>1, <1>5, <1>6 DEF SeenItem, CInv, FormKnown
      <3>3. \A i \in Items : i.id # id
        BY <2>2
      <3> HIDE DEF next, id
      <3>4. /\ next \in SUBSET Item /\ WellNumbered(next, edits + 1)
            /\ Follows(Items, change, next)
            /\ Known(next, SavedViews \cup {id[1]})
        BY <1>6, <3>1, <3>2, <3>3, AddedItems DEF Follows
      <3> QED
        BY <3>2, <3>4 DEF Known
    <2> QED
      BY <2>1, <2>2
  <1> HIDE DEF v, next
  <1> QED
    BY <1>1, <1>3, <1>4, <1>5, <1>7, ChangeKeeps DEF Kinds, views

LEMMA ConfirmDeleteKeeps == ASSUME CInv, ConfirmDelete PROVE CInv'
  <1> DEFINE v == dialog.view
             next == {i \in Items : i.id # dialog.item.id}
  <1>1. /\ dialog.kind = "delete" /\ Change("delete", v, dialog.item, next)
        /\ UNCHANGED <<views, born, saved>>
    BY DEF ConfirmDelete
  <1>2. v \in LiveViews
    BY <1>1 DEF CInv, ViewsLive, LiveViews
  <1>3. /\ v \in Nat \ {0} /\ v \in DOMAIN born /\ born[v].session = current
        /\ v \notin SavedViews
    BY <1>2, LiveView
  <1>4. BornGrows /\ v # review.view
    BY <1>1, <1>2, BornStays DEF CInv, ViewsDiffer, views
  <1>5. dialog.item \in SeenItem
    BY DEF CInv, ChangesTypeOK, SeenItem
  <1>6. /\ next \in SUBSET Item /\ WellNumbered(next, edits + 1)
        /\ Follows(Items, [kind |-> "delete", seen |-> dialog.item], next)
        /\ Known(next, SavedViews)
    BY ItemsTyped, RemovedItems DEF Follows, MayReplace
  <1> HIDE DEF v, next
  <1>7. Known(next, SavedViews \cup {v})
    BY <1>6 DEF Known
  <1> QED
    BY <1>1, <1>3, <1>4, <1>5, <1>6, <1>7, ChangeKeeps DEF Kinds, views

LEMMA FavouriteKeeps ==
  ASSUME CInv, NEW item \in Items, Favourite(item)
  PROVE  CInv'
  <1> DEFINE next == Updated(Items, item, item.login)
  <1>1. PICK v \in 1..MaxViews : Opens(v) /\ Change("favourite", v, item, next)
    BY DEF Favourite
  <1>2. current # 0 /\ UNCHANGED <<views, saved>>
    BY OpenPage DEF Favourite, Enabled
  <1>3. /\ BornGrows
        /\ v = Len(born) + 1 /\ v \in DOMAIN born'
        /\ born'[v].session = current /\ born'[v].sight = Items
        /\ v \notin SavedViews
    BY <1>1, <1>2, BornAdded
  <1>4. v # review.view /\ v \in Nat \ {0}
    BY <1>3 DEF CInv, ChangesTypeOK, BornGrows
  <1>5. /\ Items \in SUBSET Item /\ WellNumbered(Items, edits)
        /\ Known(Items, SavedViews) /\ edits \in Nat
    BY ItemsTyped
  <1>6. item \in SeenItem /\ item.login \in Login
    BY <1>5 DEF Item, SeenItem
  <1>7. /\ next \in SUBSET Item /\ WellNumbered(next, edits + 1)
        /\ Follows(Items, [kind |-> "favourite", seen |-> item], next)
        /\ Known(next, SavedViews)
    <2>1. /\ next \in SUBSET Item /\ WellNumbered(next, edits + 1)
          /\ \A i \in Items \ next : i.id = item.id
          /\ Known(next, SavedViews)
      BY <1>5, <1>6, UpdatedItems
    <2> HIDE DEF next
    <2>2. \A i \in Items \ next : i = item
      BY <1>5, <2>1 DEF WellNumbered
    <2> QED
      BY <2>1, <2>2 DEF Follows, MayReplace
  <1> HIDE DEF next
  <1>8. Known(next, SavedViews \cup {v})
    BY <1>7 DEF Known
  <1> QED
    BY <1>1, <1>2, <1>3, <1>4, <1>6, <1>7, <1>8, ChangeKeeps DEF Kinds, views

LEMMA ImportCsvKeeps ==
  ASSUME CInv, NEW strategy \in {"skip", "import-all"}, ImportCsv(strategy)
  PROVE  CInv'
  <1> DEFINE v == csv.view
             rows == Chosen(strategy)
             new(r) == [id |-> <<v, r.row>>, login |-> r.login, made |-> edits + 1]
             next == WithRows(Items, rows)
  <1>1. /\ csv.stage = "preview" /\ Change("csv", v, NoItem, next)
        /\ UNCHANGED <<views, born, saved>>
    BY DEF ImportCsv
  <1>2. v \in LiveViews
    BY <1>1 DEF CInv, ViewsLive, LiveViews
  <1>3. /\ v \in Nat \ {0} /\ v \in DOMAIN born /\ born[v].session = current
        /\ v \notin SavedViews
    BY <1>2, LiveView
  <1>4. BornGrows /\ v # review.view
    BY <1>1, <1>2, BornStays DEF CInv, ViewsDiffer, views
  <1>5. NoItem \in SeenItem
    BY DEF NoItem, SeenItem
  <1>6. /\ Items \in SUBSET Item /\ WellNumbered(Items, edits)
        /\ Known(Items, SavedViews) /\ edits \in Nat
    BY ItemsTyped
  <1>7. next = Items \cup {new(r) : r \in rows}
    BY DEF WithRows
  <1>8. \A r \in rows : r \in Row /\ r.row \in Nat /\ r.login \in Login
    BY DEF Chosen, CInv, ChangesTypeOK, Row
  <1>9. \A r \in rows :
          /\ new(r) \in Item /\ new(r).made = edits + 1
          /\ new(r).id[1] = v /\ new(r).id[2] = r.row
    BY <1>3, <1>6, <1>8 DEF Item
  <1>10. \A q, r \in rows : q.row = r.row => q = r
    BY DEF Chosen, CInv, RowsDiffer
  <1>11. \A i \in Items :
           /\ i.made \in Nat /\ i.made <= edits /\ i.id[2] \in Nat
           /\ i.id[1] # v /\ (i.id[1] = 0 => i.id[2] <= edits + 1)
    BY <1>3, <1>6 DEF Known, WellNumbered, Item
  <1> HIDE DEF new, rows, v
  <1>12. next \in SUBSET Item
    BY <1>6, <1>7, <1>9
  <1>13. WellNumbered(next, edits + 1)
    <2>1. ASSUME NEW i \in next, NEW j \in next, i.id = j.id
          PROVE  i = j
      <3>1. CASE i \in Items /\ j \in Items
        BY <1>6, <2>1, <3>1 DEF WellNumbered
      <3>2. CASE i \notin Items /\ j \notin Items
        <4>1. PICK q \in rows : i = new(q)
          BY <1>7, <3>2
        <4>2. PICK r \in rows : j = new(r)
          BY <1>7, <3>2
        <4> QED
          BY <1>9, <1>10, <2>1, <4>1, <4>2
      <3>3. CASE (i \in Items) # (j \in Items)
        BY <1>7, <1>9, <1>11, <2>1, <3>3
      <3> QED
        BY <3>1, <3>2, <3>3
    <2>2. ASSUME NEW i \in next
          PROVE  i.made <= edits + 1 /\ (i.id[1] = 0 => i.id[2] <= edits + 2)
      BY <1>3, <1>6, <1>7, <1>9, <1>11, <2>2
    <2> QED
      BY <1>6, <2>1, <2>2 DEF WellNumbered
  <1>14. Follows(Items, [kind |-> "csv", seen |-> NoItem], next)
    BY <1>7 DEF Follows
  <1>15. Known(next, SavedViews \cup {v})
    BY <1>6, <1>7, <1>9 DEF Known
  <1> HIDE DEF next
  <1> QED
    BY <1>1, <1>3, <1>4, <1>5, <1>12, <1>13, <1>14, <1>15, ChangeKeeps
    DEF Kinds, views

LEMMA ApproveKeeps ==
  ASSUME CInv, ApproveNew \/ \E item \in review.seen : ApproveUpdate(item)
  PROVE  CInv'
  <1> DEFINE v == review.view
  <1>1. /\ review # NoReview /\ review' = NoReview
        /\ UNCHANGED <<dialog, csv, born, saved>>
    BY DEF ApproveNew, ApproveUpdate, Consumed
  <1>2. v \in LiveViews
    BY <1>1 DEF CInv, ViewsLive, LiveViews
  <1>3. /\ v \in Nat \ {0} /\ v \in DOMAIN born /\ born[v].session = current
        /\ v \notin SavedViews
    BY <1>2, LiveView
  <1>4. BornGrows /\ v # review'.view
    BY <1>1, <1>3, BornStays DEF NoReview
  <1>5. /\ Items \in SUBSET Item /\ WellNumbered(Items, edits)
        /\ Known(Items, SavedViews) /\ edits \in Nat
    BY ItemsTyped
  <1>6. review.login \in Login
    BY <1>1 DEF CInv, ViewsLive
  <1>7. CASE ApproveNew
    <2> DEFINE id == <<v, 1>>
               next == Added(Items, id, review.login)
    <2>1. Change("create", v, NoItem, next)
      BY <1>7 DEF ApproveNew
    <2>2. id \in Nat \X Nat /\ id[1] = v /\ id[2] = 1
      BY <1>3
    <2>3. \A i \in Items : i.id # id
      BY <1>3, <1>5, <2>2 DEF Known
    <2> HIDE DEF id, v
    <2>4. /\ next \in SUBSET Item /\ WellNumbered(next, edits + 1)
          /\ Follows(Items, [kind |-> "create", seen |-> NoItem], next)
          /\ Known(next, SavedViews \cup {v})
      BY <1>3, <1>5, <1>6, <2>2, <2>3, AddedItems DEF Follows
    <2>5. NoItem \in SeenItem
      BY DEF NoItem, SeenItem
    <2> HIDE DEF next
    <2> QED
      BY <1>1, <1>3, <1>4, <2>1, <2>4, <2>5, ChangeKeeps DEF Kinds
  <1>8. ASSUME NEW item \in review.seen, ApproveUpdate(item)
        PROVE  CInv'
    <2> DEFINE next == Updated(Items, item, review.login)
    <2>1. item \in Items /\ Change("update", v, item, next)
      BY <1>8 DEF ApproveUpdate, SameObject
    <2>2. item \in SeenItem
      BY <1>5, <2>1 DEF Item, SeenItem
    <2>3. /\ next \in SUBSET Item /\ WellNumbered(next, edits + 1)
          /\ Follows(Items, [kind |-> "update", seen |-> item], next)
          /\ Known(next, SavedViews)
          /\ Items \ next \subseteq {item}
      <3>1. /\ next \in SUBSET Item /\ WellNumbered(next, edits + 1)
            /\ \A i \in Items \ next : i.id = item.id
            /\ Known(next, SavedViews)
        BY <1>5, <1>6, UpdatedItems
      <3> HIDE DEF next
      <3>2. Items \ next \subseteq {item}
        BY <1>5, <2>1, <3>1 DEF WellNumbered
      <3> QED
        BY <3>1, <3>2 DEF Follows, MayReplace
    <2>5. Items \ next \subseteq born'[v].sight
      BY <1>1, <1>8, <2>3 DEF CInv, ViewsLive
    <2> HIDE DEF next, v
    <2>4. Known(next, SavedViews \cup {v})
      BY <2>3 DEF Known
    <2> QED
      BY <1>1, <1>3, <1>4, <2>1, <2>2, <2>3, <2>4, <2>5, ChangeKeeps DEF Kinds
  <1> QED
    BY <1>7, <1>8

-----------------------------------------------------------------------------
(* The page behind *)

\* Steps of the page that make no document: whatever is open stays, or the
\* screen of the vault goes.
LEMMA PageKeeps ==
  ASSUME CInv, IInv', UNCHANGED <<docs, past, edits>>,
         DOMAIN session \subseteq DOMAIN session',
         UNCHANGED views \/ ViewsGo,
         LiveViews' # {} => current' = current /\ lock'.on = lock.on,
         \A e \in {shown'.edit, stored'.edit, sync'.doc.edit, auth'.envelope.edit} :
           e \in {0, shown.edit, stored.edit, sync.doc.edit, auth.envelope.edit},
         Writing' => Writing /\ save' = save /\ history'.stale = history.stale
                       /\ (history'.imported = 0 =>
                             history.imported = 0 /\ stored' = stored)
  PROVE  CInv'
  <1>1. edits \in Nat /\ BornGrows
    BY Counted, BornStays DEF CInv, ChangesTypeOK, past
  <1>2. ViewsTyped
    BY DEF CInv, ChangesTypeOK, ViewsTyped, SeenItem
  <1>3. ViewsTyped'
    <2>1. /\ NoDialog \in [kind : {"none", "form", "delete"}, view : 0..Len(born),
                           item : SeenItem]
          /\ NoCsv \in [stage : {"none", "reading", "preview"}, view : 0..Len(born),
                        rows : SUBSET Row]
          /\ NoReview \in [view : 0..Len(born), login : Login \cup {NoLogin},
                           seen : SUBSET Item]
      BY <1>1 DEF BornGrows, NoDialog, NoItem, NoCsv, NoReview, SeenItem
    <2> QED
      BY <1>2, <2>1 DEF ViewsGo, ViewsTyped, SeenItem, past, views
  <1>4. /\ by' \in Seq(Maker') /\ saved' \in Seq(DOMAIN born')
        /\ born' \in Seq(View')
    <2>1. by' \in Seq(Maker') /\ saved' \in Seq(DOMAIN born')
      BY <1>1, MoreTyped DEF past
    <2>2. View \subseteq View'
      BY DEF View
    <2> QED
      BY <1>1, <2>1, <2>2, SeqMonotonic DEF BornGrows
  <1>5. ChangesTypeOK'
    <2>1. TypeOK' /\ docs' \in [0..edits' -> SUBSET Item]
      BY DEF IInv, CInv, ChangesTypeOK
    <2>2. Len(born') <= MaxViews
      BY <1>1 DEF BornGrows
    <2> QED
      BY <1>3, <1>4, <2>1, <2>2
      DEF ViewsTyped, ChangesTypeOK, Maker, Kinds, SeenItem, View
  <1>6. ViewsLive' /\ ViewsDiffer' /\ NotSavedYet' /\ RowsDiffer' /\ FormKnown'
    <2>1. CASE UNCHANGED views
      BY <2>1
      DEF views, past, CInv, ViewsLive, LiveViews, ViewsDiffer, NotSavedYet,
          SavedViews, RowsDiffer, FormKnown
    <2>2. CASE ViewsGo
      <3>1. /\ dialog'.view = 0 /\ csv'.view = 0 /\ review' = NoReview
            /\ review'.view = 0
            /\ dialog'.kind = "none" /\ csv'.stage = "none" /\ csv'.rows = {}
        BY <2>2 DEF ViewsGo, NoDialog, NoCsv, NoReview
      <3> QED
        BY <3>1
        DEF ViewsLive, LiveViews, ViewsDiffer, NotSavedYet, RowsDiffer, FormKnown
    <2> QED
      BY <2>1, <2>2
  <1>7. Makers' /\ SavedOnce' /\ SeenOnly' /\ Derived' /\ DocsNumbered'
          /\ MadeWhereBorn'
    BY DEF past, CInv, Makers, SavedOnce, SeenOnly, Derived, DocsNumbered,
           MadeWhereBorn
  <1>8. MadeFromStored'
    BY DEF past, CInv, MadeFromStored
  <1>9. WritingOnce'
    <2>1. review'.view \in {0, review.view}
      BY DEF views, ViewsGo, NoReview
    <2>2. SavedViews' = SavedViews /\ by' = by
      BY DEF past, SavedViews
    <2> QED
      BY <2>1, <2>2 DEF CInv, WritingOnce
  <1>10. DocsKnown'
    <2>1. SavedViews' = SavedViews /\ by' = by
      BY DEF past, SavedViews
    <2> QED
      BY <2>1 DEF CInv, DocsKnown
  <1> QED
    BY <1>5, <1>6, <1>7, <1>8, <1>9, <1>10 DEF CInv

LEMMA WritingHasPage == ASSUME IInv, Writing PROVE current # 0
  BY Pending DEF Writing

\* A lock that begins and an import that ends take the screen with them.
LEMMA LeavesKeeps == ASSUME CInv, Leaves PROVE CInv'
  <1>1. IInv'
    BY RequestLockKeeps, ImportDoneKeeps DEF CInv, Leaves
  <1>2. /\ ViewsGo /\ UNCHANGED <<docs, past>>
        /\ UNCHANGED <<stored, sync, auth, edits, history>>
    BY DEF Leaves, RequestLock, ImportDone
  <1>3. LiveViews' = {}
    BY <1>2 DEF ViewsGo, LiveViews, NoDialog, NoCsv, NoReview
  <1>4. CASE RequestLock
    <2>1. shown' = shown /\ save' = save
      BY <1>4 DEF RequestLock
    <2>2. /\ DOMAIN session' = DOMAIN session
          /\ \A t \in DOMAIN session : session'[t].writes = session[t].writes
      <3>1. CASE session' = session
        BY <3>1
      <3>2. CASE session' # session
        BY <1>4, <3>2, Closes DEF CInv, RequestLock
      <3> QED
        BY <3>1, <3>2
    <2>3. Writing' => Writing
      BY <2>2 DEF Writing
    <2> QED
      BY <1>1, <1>2, <1>3, <2>1, <2>2, <2>3, PageKeeps
  <1>5. CASE ImportDone
    <2>1. current' = 0 /\ shown'.edit = 0
      BY <1>5 DEF ImportDone, NoVault
    <2>2. DOMAIN session' = DOMAIN session
      BY <1>5 DEF ImportDone, Destroyed
    <2>3. ~Writing'
      <3>1. 0 \notin DOMAIN session'
        BY <1>1, LenProperties DEF IInv, TypeOK
      <3>2. Writing' => current' \in DOMAIN session'
        BY <1>1 DEF Writing, IInv, OneWrite
      <3> QED
        BY <2>1, <3>1, <3>2
    <2> QED
      BY <1>1, <1>2, <1>3, <2>1, <2>2, <2>3, PageKeeps
  <1> QED
    BY <1>4, <1>5 DEF Leaves

LEMMA BehindKeeps == ASSUME CInv, Behind PROVE CInv'
  <1>1. UNCHANGED <<docs, views, past>> /\ IInv /\ TypeOK /\ ViewsLive
    BY DEF Behind, CInv, IInv
  <1>2. LiveViews' = LiveViews
    BY <1>1 DEF views, LiveViews
  <1>3. CASE \/ Authenticate \/ AuthenticateFails \/ StartSync
             \/ ChooseBackup \/ DropImport \/ AskToReplace
    <2>1. IInv'
      BY <1>1, <1>3, QuietKeeps
    <2>2. /\ UNCHANGED <<stored, session, current, shown, save, lock, edits, history>>
          /\ sync'.doc \in {sync.doc, shown}
          /\ auth'.envelope \in {auth.envelope, stored, NoVault}
      BY <1>3
      DEF Authenticate, AuthenticateFails, StartSync, ChooseBackup, DropImport,
          AskToReplace, NoAuth
    <2>3. NoVault.edit = 0 /\ Writing' = Writing
      BY <2>2 DEF NoVault, Writing
    <2> QED
      BY <1>1, <2>1, <2>2, <2>3, PageKeeps
  <1>4. CASE EndSync \/ SyncFails
    <2>1. IInv'
      BY <1>1, <1>4, QuietKeeps
    <2>2. /\ sync.on /\ session[sync.session].writes = <<>>
          /\ sync' = NoSync /\ shown' \in {shown, sync.doc}
          /\ UNCHANGED <<stored, session, current, auth, lock, edits>>
      BY <1>4 DEF EndSync, SyncFails
    <2>3. ~Writing /\ Writing' = Writing
      BY <1>1, <2>2, Pending DEF Writing
    <2>4. sync'.doc.edit = 0
      BY <2>2 DEF NoSync, NoVault
    <2> QED
      BY <1>1, <2>1, <2>2, <2>3, <2>4, PageKeeps
  <1>5. CASE AuthenticateDone
    <2> DEFINE opened == IF auth.create THEN NewVault ELSE Unlocked
               x == [state |-> IF Revoked THEN "destroyed" ELSE "open",
                     vault |-> opened.vault, writes |-> <<>>]
    <2>1. IInv'
      BY <1>1, <1>5, AuthenticateDoneKeeps
    <2>2. /\ current = 0 /\ auth' = NoAuth /\ session' = Append(session, x)
          /\ stored' \in {stored, opened} /\ shown' \in {shown, opened}
          /\ UNCHANGED <<sync, lock, edits, history>>
      BY <1>1, <1>5 DEF AuthenticateDone, IInv, OneSession
    <2>3. /\ opened \in Envelope /\ opened.edit \in {0, auth.envelope.edit}
          /\ auth'.envelope.edit = 0
      BY <1>1, <2>2 DEF TypeOK, NewVault, Unlocked, Envelope, NoAuth, NoVault
    <2>4. x \in Session /\ x.writes = <<>>
      BY <2>3 DEF Session, Envelope
    <2>5. LiveViews = {} /\ ~Writing
      BY <1>1, <2>2, WritingHasPage DEF ViewsLive
    <2> HIDE DEF x, opened
    <2>6. /\ DOMAIN session' = DOMAIN session \cup {Len(session) + 1}
          /\ \A t \in DOMAIN session : session'[t] = session[t]
          /\ session'[Len(session) + 1].writes = <<>>
      BY <1>1, <2>2, <2>4, SessionAdded DEF TypeOK
    <2>7. ~Writing'
      BY <2>5, <2>6 DEF Writing
    <2> QED
      BY <1>1, <1>2, <2>1, <2>2, <2>3, <2>5, <2>6, <2>7, PageKeeps
  <1>6. CASE LockDone
    <2>1. IInv'
      BY <1>1, <1>6, LockDoneKeeps
    <2>2. /\ lock.on /\ current' = 0 /\ shown' = NoVault
          /\ session' = Destroyed(lock.session)
          /\ UNCHANGED <<stored, sync, auth, edits>>
      BY <1>6 DEF LockDone
    <2>3. LiveViews = {} /\ DOMAIN session' = DOMAIN session /\ shown'.edit = 0
      BY <1>1, <2>2 DEF ViewsLive, Destroyed, NoVault
    <2>4. ~Writing'
      <3>1. 0 \notin DOMAIN session'
        BY <2>1, LenProperties DEF IInv, TypeOK
      <3>2. Writing' => current' \in DOMAIN session'
        BY <2>1 DEF Writing, IInv, OneWrite
      <3> QED
        BY <2>2, <3>1, <3>2
    <2> QED
      BY <1>1, <1>2, <2>1, <2>2, <2>3, <2>4, PageKeeps
  <1>7. CASE ImportBackup
    <2>1. IInv'
      BY <1>1, <1>7, ImportBackupKeeps
    <2>2. /\ stored' = [vault |-> vaults + 1, edit |-> 0] /\ shown' \in {shown, NoVault}
          /\ history' = [history EXCEPT !.wanted = NoVault, !.imported = vaults + 1]
          /\ UNCHANGED <<current, save, sync, auth, lock, edits>>
          /\ \/ UNCHANGED session
             \/ /\ current # 0
                /\ session' = [session EXCEPT ![current].state =
                                 IF @ = "open" THEN "closing" ELSE @]
      BY <1>7 DEF ImportBackup
    <2>3. stored'.edit = 0 /\ NoVault.edit = 0
      BY <2>2 DEF NoVault
    <2>4. history'.imported # 0 /\ history'.stale = history.stale
      BY <1>1, <2>2 DEF TypeOK
    <2>5. /\ DOMAIN session' = DOMAIN session
          /\ \A t \in DOMAIN session : session'[t].writes = session[t].writes
      <3>1. CASE session' = session
        BY <3>1
      <3>2. CASE session' # session
        BY <1>1, <2>2, <3>2, Closes
      <3> QED
        BY <3>1, <3>2
    <2>6. Writing' => Writing
      BY <2>5 DEF Writing
    <2> QED
      BY <1>1, <1>2, <2>1, <2>2, <2>3, <2>4, <2>5, <2>6, PageKeeps
  <1>8. ASSUME NEW s \in DOMAIN session, SealFails(s)
        PROVE  CInv'
    <2>1. IInv'
      BY <1>1, <1>8, SealFailsKeeps
    <2>2. /\ session[s].writes # <<>>
          /\ session' = [session EXCEPT ![s].writes = Tail(@)]
          /\ Sealed(s, Head(session[s].writes), FALSE)
          /\ UNCHANGED <<stored, current, auth, edits>>
      BY <1>8 DEF SealFails
    <2>3. /\ DOMAIN session' = DOMAIN session
          /\ \A t \in DOMAIN session : session'[t].writes = <<>>
      BY <1>1, <2>2, Unqueued
    <2>4. ~Writing'
      BY <2>3 DEF Writing
    <2>5. shown' = shown /\ sync'.doc = sync.doc /\ lock'.on = lock.on
      BY <1>1, <2>2, SealingEnds
    <2> QED
      BY <1>1, <2>1, <2>2, <2>3, <2>4, <2>5, PageKeeps
  <1> QED
    BY <1>3, <1>4, <1>5, <1>6, <1>7, <1>8 DEF Behind

\* A sync makes a document of the one it works with.
LEMMA PullKeeps == ASSUME CInv, Pull PROVE CInv'
  <1> DEFINE old == docs[sync.doc.edit]
             s == sync.session
  <1>1. IInv /\ TypeOK /\ IInv'
    BY SyncSealsKeeps DEF Pull, CInv, IInv
  <1>2. PICK items \in Pulled(old) : docs' = NextDoc(items)
    BY DEF Pull
  <1>3. /\ sync.on /\ session[s].writes = <<>> /\ Queue(s)
        /\ by' = Made("sync", 0, sync.doc.edit, s, NoItem)
        /\ UNCHANGED <<stored, current, shown, sync, auth, lock, history>>
        /\ UNCHANGED <<views, born, saved>>
    BY DEF Pull, SyncSeals
  <1>4. s \in DOMAIN session
    BY <1>1, <1>3 DEF IInv, TypeOK, OneWrite
  <1>5. edits' = edits + 1 /\ DOMAIN session' = DOMAIN session /\ s = current
    BY <1>1, <1>3, <1>4, Queued
  <1>6. edits \in Nat /\ sync.doc.edit \in 0..edits
    BY <1>1, Counted DEF IInv, TypeOK, Numbered, Envelope
  <1>7. old \in SUBSET Item /\ WellNumbered(old, edits) /\ Known(old, SavedViews)
    BY <1>6 DEF CInv, ChangesTypeOK, DocsNumbered, DocsKnown
  <1> DEFINE pull == [kind |-> "sync", seen |-> NoItem]
  <1> HIDE DEF old
  <1>11. Follows(old, pull, items)
    BY DEF Follows, MayReplace
  <1>8. /\ items \in SUBSET Item /\ WellNumbered(items, edits + 1)
        /\ Known(items, SavedViews \cup {0})
    <2>1. CASE \E l \in Login : items = Added(old, <<0, edits + 2>>, l)
      <3> DEFINE id == <<0, edits + 2>>
      <3>1. PICK l \in Login : items = Added(old, id, l)
        BY <2>1
      <3>2. id \in Nat \X Nat /\ id[1] = 0 /\ id[2] = edits + 2
        BY <1>6
      <3>3. \A i \in old : i.id # id
        <4>1. \A i \in old : i.id[2] \in Nat /\ (i.id[1] = 0 => i.id[2] <= edits + 1)
          BY <1>7 DEF WellNumbered, Item
        <4> QED
          BY <1>6, <3>2, <4>1
      <3> HIDE DEF id
      <3>4. /\ items \in SUBSET Item /\ WellNumbered(items, edits + 1)
            /\ Known(items, SavedViews \cup {id[1]})
        BY <1>6, <1>7, <3>1, <3>2, <3>3, AddedItems
      <3> QED
        BY <3>2, <3>4
    <2>2. CASE \E i \in old : items = Updated(old, i, i.login)
      <3>1. PICK i \in old : items = Updated(old, i, i.login)
        BY <2>2
      <3>2. i.login \in Login
        BY <1>7 DEF Item
      <3>3. /\ items \in SUBSET Item /\ WellNumbered(items, edits + 1)
            /\ Known(items, SavedViews)
        BY <1>6, <1>7, <3>1, <3>2, UpdatedItems
      <3> QED
        BY <3>3 DEF Known
    <2>3. CASE \E i \in old : items = old \ {i}
      <3>1. PICK i \in old : items = old \ {i}
        BY <2>3
      <3>2. items = {j \in old : j.id # i.id}
        BY <1>7, <3>1 DEF WellNumbered
      <3>3. /\ items \in SUBSET Item /\ WellNumbered(items, edits + 1)
            /\ Known(items, SavedViews)
        BY <1>6, <1>7, <3>2, RemovedItems
      <3> QED
        BY <3>3 DEF Known
    <2> QED
      BY <2>1, <2>2, <2>3 DEF Pulled
  <1>9. history.imported = 0 /\ ~history.stale => sync.doc.edit = stored.edit
    BY <1>1, <1>3 DEF IInv, Fresh
  <1>10. BornGrows /\ NoItem \in SeenItem
    BY <1>3, BornStays DEF NoItem, SeenItem
  <1> QED
    BY <1>1, <1>2, <1>3, <1>4, <1>5, <1>6, <1>8, <1>9, <1>10, <1>11, DocKeeps
    DEF Kinds, views, old

\* A document is stored, and the view that made it closes.
LEMMA StoresKeeps ==
  ASSUME CInv, NEW s \in DOMAIN session, Stores(s)
  PROVE  CInv'
  <1> DEFINE v == by[edits].view
  <1>1. IInv /\ TypeOK /\ IInv'
    BY SealDoneKeeps DEF Stores, CInv, IInv
  <1>2. /\ session[s].writes # <<>>
        /\ session' = [session EXCEPT ![s].writes = Tail(@)]
        /\ stored' = Seal(s, Head(session[s].writes))
        /\ Sealed(s, Head(session[s].writes), TRUE)
        /\ UNCHANGED <<current, auth, edits, docs, born, by>>
    BY DEF Stores, SealDone
  <1>3. /\ Head(session[s].writes) = edits /\ edits \in Nat /\ edits # 0
        /\ save \in {0, edits} /\ Writing
    BY <1>1, <1>2, Pending DEF Writing
  <1>4. /\ DOMAIN session' = DOMAIN session
        /\ \A t \in DOMAIN session : session'[t].writes = <<>>
    BY <1>1, <1>2, Unqueued
  <1>5. ~Writing'
    BY <1>4 DEF Writing
  <1>6. /\ stored'.edit = edits
        /\ shown'.edit \in {shown.edit, edits}
        /\ sync'.doc.edit \in {sync.doc.edit, edits}
        /\ lock'.on = lock.on
    BY <1>1, <1>2, <1>3, SealingEnds
  <1>7. /\ SavedViewCloses(edits)
        /\ saved' = IF v = 0 THEN saved ELSE Append(saved, v)
    BY <1>3 DEF Stores
  <1>8. /\ edits \in DOMAIN by /\ v \in 0..Len(born)
        /\ v # 0 => save = edits /\ v \notin SavedViews /\ v # review.view
    <2>1. by \in Seq(Maker) /\ Len(by) = edits
      BY DEF CInv, ChangesTypeOK, Makers, Maker, Kinds, SeenItem
    <2>2. edits \in DOMAIN by /\ by[edits] \in Maker
      BY <1>3, <2>1, LenProperties
    <2>3. \A m \in Maker : m.view \in 0..Len(born)
      BY DEF Maker
    <2> QED
      BY <1>3, <2>2, <2>3 DEF CInv, WritingOnce
  <1> HIDE DEF v
  <1>9. /\ dialog' = NoDialog \/ (dialog' = dialog /\ (v # 0 => dialog.view # v))
        /\ csv' = NoCsv \/ (csv' = csv /\ (v # 0 => csv.view # v))
        /\ review' = review
    BY <1>7, <1>8 DEF SavedViewCloses, v
  <1>10. /\ saved' \in Seq(DOMAIN born') /\ SavedOnce'
         /\ SavedViews' = SavedViews \cup ({v} \ {0})
    <2>1. saved \in Seq(DOMAIN born) /\ born \in Seq(View)
      BY DEF CInv, ChangesTypeOK, View
    <2>2. CASE v = 0
      BY <1>2, <1>7, <2>1, <2>2 DEF CInv, SavedOnce, SavedViews
    <2>3. CASE v # 0
      <3>1. v \in DOMAIN born
        BY <1>8, <2>1, <2>3, LenProperties
      <3>2. /\ saved' \in Seq(DOMAIN born)
            /\ DOMAIN saved = 1..Len(saved) /\ Len(saved) \in Nat
            /\ DOMAIN saved' = 1..(Len(saved) + 1)
            /\ \A n \in 1..Len(saved) : saved'[n] = saved[n]
            /\ saved'[Len(saved) + 1] = v
        BY <1>7, <2>1, <2>3, <3>1, LenProperties, AppendProperties
      <3>3. DOMAIN saved' = DOMAIN saved \cup {Len(saved) + 1}
        BY <3>2
      <3>4. SavedViews' = SavedViews \cup {v}
        BY <3>2, <3>3 DEF SavedViews
      <3>5. SavedOnce'
        BY <1>8, <2>3, <3>2, <3>3 DEF CInv, SavedOnce, SavedViews
      <3> QED
        BY <1>2, <2>3, <3>2, <3>4, <3>5
    <2> QED
      BY <2>2, <2>3
  <1>11. ChangesTypeOK'
    <2>1. TypeOK' /\ docs' \in [0..edits' -> SUBSET Item]
      BY <1>1, <1>2 DEF IInv, CInv, ChangesTypeOK
    <2>2. /\ NoDialog \in [kind : {"none", "form", "delete"}, view : 0..Len(born),
                           item : SeenItem]
          /\ NoCsv \in [stage : {"none", "reading", "preview"}, view : 0..Len(born),
                        rows : SUBSET Row]
      BY <1>2, BornStays DEF BornGrows, NoDialog, NoItem, NoCsv, SeenItem
    <2>3. ViewsTyped'
      BY <1>2, <1>9, <2>2 DEF CInv, ChangesTypeOK, ViewsTyped, SeenItem
    <2>4. by' \in Seq(Maker') /\ born' \in Seq(View') /\ Len(born') <= MaxViews
      BY <1>2, <1>4 DEF CInv, ChangesTypeOK, Maker, Kinds, SeenItem, View
    <2> QED
      BY <1>10, <2>1, <2>3, <2>4
      DEF ViewsTyped, ChangesTypeOK, Maker, Kinds, SeenItem, View
  <1>12. /\ ViewsLive' /\ ViewsDiffer' /\ RowsDiffer' /\ FormKnown'
         /\ LiveViews' \subseteq LiveViews \ {v}
    <2>1. /\ NoDialog.view = 0 /\ NoCsv.view = 0 /\ NoDialog.kind = "none"
          /\ NoCsv.stage = "none" /\ NoCsv.rows = {}
      BY DEF NoDialog, NoCsv
    <2>2. /\ dialog'.view \in {0, dialog.view} /\ csv'.view \in {0, csv.view}
          /\ review'.view = review.view
          /\ v # 0 => dialog'.view # v /\ csv'.view # v /\ review'.view # v
      BY <1>8, <1>9, <2>1
    <2>3. LiveViews' \subseteq LiveViews \ {v}
      BY <2>2 DEF LiveViews
    <2>4. ViewsLive'
      BY <1>2, <1>6, <1>9, <2>1, <2>3 DEF CInv, ViewsLive
    <2>5. ViewsDiffer'
      BY <2>2 DEF CInv, ViewsDiffer, LiveViews
    <2>6. RowsDiffer'
      BY <1>9, <2>1 DEF CInv, RowsDiffer
    <2>7. FormKnown'
      BY <1>2, <1>9, <1>10, <2>1 DEF CInv, FormKnown
    <2> QED
      BY <2>3, <2>4, <2>5, <2>6, <2>7
  <1>13. NotSavedYet'
    BY <1>10, <1>12 DEF CInv, NotSavedYet
  <1>14. WritingOnce' /\ MadeFromStored'
    BY <1>5 DEF WritingOnce, MadeFromStored
  <1>15. /\ Makers' /\ MadeWhereBorn' /\ SeenOnly' /\ Derived'
         /\ DocsNumbered'
    BY <1>2 DEF CInv, Makers, MadeWhereBorn, SeenOnly, Derived, DocsNumbered
  <1>16. DocsKnown'
    <2>1. \A e \in {0, shown.edit, stored.edit, sync.doc.edit, auth.envelope.edit} :
            Known(docs[e], SavedViews')
      BY <1>10 DEF CInv, DocsKnown, Known
    <2>2. Known(docs[edits], SavedViews')
      BY <1>3, <1>10 DEF CInv, DocsKnown, Known, v
    <2> QED
      BY <1>2, <1>5, <1>6, <2>1, <2>2 DEF DocsKnown
  <1> QED
    BY <1>1, <1>10, <1>11, <1>12, <1>13, <1>14, <1>15, <1>16 DEF CInv

-----------------------------------------------------------------------------
(* The invariant *)

LEMMA CInvInit == ASSUME ChangesInit PROVE CInv
  <1>1. IInv /\ TypeOK
    BY IInvInit DEF ChangesInit, IInv
  <1>2. /\ edits = 0 /\ session = <<>> /\ lock = NoLock /\ current = 0
        /\ shown.edit = 0 /\ stored.edit = 0 /\ sync.doc.edit = 0
        /\ auth.envelope.edit = 0
    BY DEF ChangesInit, Init, NoSync, NoAuth, NoVault
  <1>3. /\ dialog = NoDialog /\ csv = NoCsv /\ review = NoReview
        /\ born = <<>> /\ saved = <<>> /\ by = <<>>
    BY DEF ChangesInit
  <1>4. /\ dialog.view = 0 /\ csv.view = 0 /\ review.view = 0
        /\ dialog.kind = "none" /\ csv.stage = "none" /\ csv.rows = {}
    BY <1>3 DEF NoDialog, NoCsv, NoReview
  <1>5. PICK items \in {{}} \cup
                 {{[id |-> <<0, 1>>, login |-> l, made |-> 0]} : l \in Login} :
          docs = [e \in {0} |-> items]
    BY DEF ChangesInit
  <1>6. /\ items \in SUBSET Item /\ WellNumbered(items, 0) /\ Known(items, {})
    BY <1>5 DEF Item, WellNumbered, Known
  <1>7. /\ Len(born) = 0 /\ Len(by) = 0 /\ DOMAIN by = {} /\ DOMAIN saved = {}
        /\ 0..0 = {0} /\ ~Writing /\ LiveViews = {}
    BY <1>2, <1>3, <1>4 DEF Writing, LiveViews
  <1>8. ViewsTyped
    BY <1>3, <1>7
    DEF ViewsTyped, NoDialog, NoCsv, NoReview, NoItem, SeenItem
  <1>9. /\ saved \in Seq(DOMAIN born) /\ born \in Seq(View)
        /\ by \in Seq(Maker)
    BY <1>3
  <1>10. docs \in [0..edits -> SUBSET Item] /\ docs[0] = items
    BY <1>2, <1>5, <1>6, <1>7
  <1>11. ChangesTypeOK
    BY <1>1, <1>7, <1>8, <1>9, <1>10, ChangesAssumption
    DEF ViewsTyped, ChangesTypeOK, Maker, Kinds, SeenItem, ChangesAssumption
  <1>12. /\ Makers /\ ViewsLive /\ ViewsDiffer /\ RowsDiffer /\ NotSavedYet
         /\ SavedOnce /\ MadeWhereBorn /\ WritingOnce /\ SeenOnly
         /\ Derived /\ MadeFromStored /\ FormKnown
    BY <1>2, <1>3, <1>4, <1>7
    DEF Makers, ViewsLive, ViewsDiffer, RowsDiffer, NotSavedYet, SavedOnce,
        MadeWhereBorn, WritingOnce, SeenOnly, Derived, MadeFromStored,
        FormKnown
  <1>13. DocsNumbered
    BY <1>2, <1>6, <1>7, <1>10 DEF DocsNumbered
  <1>14. DocsKnown
    BY <1>2, <1>6, <1>7, <1>10 DEF DocsKnown, Known
  <1> QED
    BY <1>1, <1>11, <1>12, <1>13, <1>14 DEF CInv

LEMMA CInvNext == ASSUME CInv, [ChangesNext]_changeVars PROVE CInv'
  <1>1. CASE UNCHANGED changeVars
    <2>1. UNCHANGED <<vars, docs, saved, by>> /\ UNCHANGED views /\ UNCHANGED past
      BY <1>1 DEF changeVars, views, past
    <2>2. IInv'
      BY <2>1, QuietKeeps DEF CInv
    <2> QED
      BY <2>1, <2>2, PageKeeps DEF vars, Writing
  <1>2. CASE OpenForm \/ OpenDelete
    BY <1>2, OpenFormKeeps
  <1>3. CASE CloseDialog \/ CsvRead \/ CancelCsv \/ CancelReview \/ ApproveRefused
    BY <1>3, CloseKeeps
  <1>4. CASE ConfirmDelete \/ Pull \/ Leaves \/ Behind
    BY <1>4, ConfirmDeleteKeeps, PullKeeps, LeavesKeeps, BehindKeeps
  <1>5. CASE \E login \in Login : SubmitForm(login) \/ Offer(login)
    BY <1>5, SubmitFormKeeps, OfferKeeps
  <1>6. CASE \E item \in Items : Favourite(item)
    BY <1>6, FavouriteKeeps
  <1>7. CASE \E file \in CsvFiles : ChooseCsv(file)
    BY <1>7, ChooseCsvKeeps
  <1>8. CASE \E strategy \in {"skip", "import-all"} : ImportCsv(strategy)
    BY <1>8, ImportCsvKeeps
  <1>9. CASE ApproveNew \/ \E item \in review.seen : ApproveUpdate(item)
    BY <1>9, ApproveKeeps
  <1>10. CASE \E s \in DOMAIN session : Stores(s)
    BY <1>10, StoresKeeps
  <1> QED
    BY <1>1, <1>2, <1>3, <1>4, <1>5, <1>6, <1>7, <1>8, <1>9, <1>10 DEF ChangesNext

LEMMA ChangesInvariance == ChangesSpec => []CInv
  BY CInvInit, CInvNext, PTL DEF ChangesSpec

-----------------------------------------------------------------------------
(* What follows *)

\* The types of the items, the views and the histories.
THEOREM ChangesTyped == ChangesSpec => []ChangesTypeOK
  <1>1. CInv => ChangesTypeOK
    BY DEF CInv
  <1> QED
    BY <1>1, ChangesInvariance, PTL

\* However often a save failed and was tried again, a view stores one change, and
\* in the session it was opened in (vault-app.tsx: persist, lock).
THEOREM OneChangeOfAView == ChangesSpec => []ViewsAreGoodOnce
  <1>1. CInv => ViewsAreGoodOnce
    BY DEF CInv, MadeWhereBorn, SavedOnce, ViewsAreGoodOnce
  <1> QED
    BY <1>1, ChangesInvariance, PTL

\* A document of the page is stored over another of its vault only by the end of
\* a sealing, and that one was made from the stored one.
LEMMA Stored ==
  ASSUME CInv, [ChangesNext]_changeVars, Supersedes
  PROVE  /\ stored'.edit \in DOMAIN by /\ by[stored'.edit].from = stored.edit
         /\ Superseded = docs[by[stored'.edit].from] \ docs[stored'.edit]
  <1>1. CASE \E s \in DOMAIN session : Stores(s)
    <2>1. PICK s \in DOMAIN session : Stores(s)
      BY <1>1
    <2>2. /\ session[s].writes # <<>>
          /\ stored' = Seal(s, Head(session[s].writes))
      BY <2>1 DEF Stores, SealDone
    <2>3. /\ stored'.edit = edits /\ edits \in 1..Len(by) /\ Writing
      BY <2>2, Pending DEF Seal, Writing, CInv, Makers
    <2>4. edits \in DOMAIN by /\ by[edits].from = stored.edit
      BY <2>3, LenProperties DEF CInv, ChangesTypeOK, MadeFromStored, Supersedes
    <2> QED
      BY <2>3, <2>4 DEF Superseded
  <1>2. CASE ~\E s \in DOMAIN session : Stores(s)
    <2>1. \/ stored' = stored
          \/ stored'.vault = vaults + 1
      <3>1. CASE Behind
        <4>1. AuthenticateDone => stored' \in {stored, NewVault}
          BY DEF AuthenticateDone
        <4>2. ImportBackup => stored'.vault = vaults + 1
          BY DEF ImportBackup
        <4>3. \/ AuthenticateDone \/ ImportBackup \/ stored' = stored
          BY <3>1
          DEF Behind, Authenticate, AuthenticateFails, StartSync, EndSync, SyncFails,
              LockDone, ChooseBackup, DropImport, AskToReplace, SealFails
        <4> QED
          BY <4>1, <4>2, <4>3 DEF NewVault
      <3>2. CASE ~Behind
        BY <1>2, <3>2
        DEF ChangesNext, changeVars, vars, OpenForm, OpenDelete, SubmitForm,
            ConfirmDelete, CloseDialog, Favourite, ChooseCsv, CsvRead, ImportCsv,
            CancelCsv, Offer, CancelReview, ApproveNew, ApproveUpdate,
            ApproveRefused, Change, Persist, Pull, SyncSeals, Leaves, RequestLock,
            ImportDone
      <3> QED
        BY <3>1, <3>2
    <2>2. stored.vault \in Nat /\ stored.vault <= vaults /\ vaults \in Nat
      BY DEF CInv, IInv, TypeOK, Numbered, Envelope
    <2> QED
      BY <2>1, <2>2 DEF Supersedes
  <1> QED
    BY <1>1, <1>2

\* Whatever is pulled, edited and saved while a review is open, the update its
\* user approves replaces only what it showed (submitted-login-review.ts:
\* approve; vault-app.tsx: persist).
THEOREM UpdatesAreOfWhatWasSeen == ChangesSpec => UpdatesWhatWasSeen
  <1>1. ASSUME CInv, [ChangesNext]_changeVars
        PROVE  [Supersedes /\ by[stored'.edit].kind = "update"
                  => Superseded \subseteq born[by[stored'.edit].view].sight]_changeVars
    BY <1>1, Stored DEF CInv, SeenOnly
  <1> QED
    BY <1>1, ChangesInvariance, PTL DEF ChangesSpec, UpdatesWhatWasSeen

\* Every change is made from the document it is stored over, and replaces there
\* only what it may, however views, pulls, failed saves and locks interleave
\* (vault-app.tsx: persist; vault-adapter.ts: replaceItem).
THEOREM StoredChangesStay == ChangesSpec => NoChangeReverted
  <1>1. ASSUME CInv, [ChangesNext]_changeVars
        PROVE  [Supersedes => /\ by[stored'.edit].from = stored.edit
                              /\ \A i \in Superseded :
                                   MayReplace(by[stored'.edit], i)]_changeVars
    BY <1>1, Stored DEF CInv, Derived, Follows
  <1> QED
    BY <1>1, ChangesInvariance, PTL DEF ChangesSpec, NoChangeReverted
=============================================================================
