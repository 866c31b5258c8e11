------------------------- MODULE PracticePageProofs -------------------------
(***************************************************************************)
(* Proofs about PracticePage for any catalog and any number of requests    *)
(* under way.                                                              *)
(***************************************************************************)
EXTENDS PracticePage, TLAPS

(* A disabled action button waits for something: an answer to its own      *)
(* action, or to a load, which enables both.                               *)
ButtonInv ==
    current # None /\ ~failed =>
        \A a \in Actions \intersect disabled :
            \E s \in Slot : pending[s].kind \in {a, "load"}

(* The inductive invariant. *)
IInv == TypeOK /\ PageIsConsistent /\ ButtonInv

-----------------------------------------------------------------------------
(* A request that is under way is not "no request", and a slot that is     *)
(* waited for keeps it so.                                                 *)
LEMMA RequestFacts ==
    ASSUME TypeOK, NEW s \in Slot
    PROVE  /\ pending[s].kind = "none" <=> pending[s] = NoRequest
           /\ pending[s].kind # "none" => pending[s].day \in Day
           /\ pending[s].kind \in {"none", "load", "check", "run"}
  BY DEF TypeOK, Request, NoRequest, Actions

LEMMA InitInv == Init => IInv
<1> HAVE Init
<1>1. TypeOK
  BY PageAssumption DEF Init, TypeOK, NoList, NoContent, Hidden, NoRequest,
     Tabs, loadCompleted
<1>2. PageIsConsistent /\ ButtonInv
  BY DEF Init, PageIsConsistent, ButtonInv, NoList, loadCompleted
<1> QED
  BY <1>1, <1>2 DEF IInv

(* Sending and answering keep the requests well typed and touch one slot. *)
LEMMA SendFacts ==
    ASSUME TypeOK, NEW s \in Slot, NEW kind \in {"load"} \union Actions,
           NEW day \in Day, Send(s, kind, day)
    PROVE  /\ pending' \in [Slot -> Request \union {NoRequest}]
           /\ pending'[s].kind = kind
           /\ \A t \in Slot : pending[t].kind # "none" => pending'[t] = pending[t]
<1>1. pending \in [Slot -> Request \union {NoRequest}] /\ pending[s] = NoRequest
      /\ pending' = [pending EXCEPT ![s] = [kind |-> kind, day |-> day]]
  BY DEF TypeOK, Send
<1>2. [kind |-> kind, day |-> day] \in Request
  BY DEF Request
<1>3. pending' \in [Slot -> Request \union {NoRequest}]
  BY <1>1, <1>2
<1>4. \A t \in Slot : pending[t].kind # "none" => pending'[t] = pending[t]
  BY <1>1 DEF NoRequest
<1> QED
  BY <1>1, <1>3, <1>4

LEMMA AnsweredFacts ==
    ASSUME TypeOK, NEW s \in Slot, Answered(s)
    PROVE  /\ pending' \in [Slot -> Request \union {NoRequest}]
           /\ \A t \in Slot \ {s} : pending'[t] = pending[t]
  BY DEF TypeOK, Answered

(* renderDetail shows one exercise everywhere. *)
LEMMA RenderFacts ==
    ASSUME NEW day \in Day, NEW t \in Tabs, NEW done \in SUBSET Day,
           renderDetail(day, t, done)
    PROVE  /\ disabled' = {}
           /\ listed' \in [shown : BOOLEAN, active : Day \union {None}, done : SUBSET Day]
           /\ listed'.active = day /\ listed'.done = done /\ unsaved' = FALSE
           /\ content' \in [day : Day, tab : Tabs]
           /\ content' = [day |-> day, tab |-> t]
  BY DEF renderDetail, renderContent, renderList

-----------------------------------------------------------------------------
(* A click that loads an exercise, and the first load. *)
LEMMA LoadInv ==
    ASSUME IInv, NEW s \in Slot, NEW day \in Day, loadExercise(s, day),
           up' \in {"starting", "ready", "unavailable"},
           UNCHANGED <<listed, current, tab, content, marks, unsaved>>
    PROVE  IInv'
<1> USE DEF IInv
<1>1. /\ pending' \in [Slot -> Request \union {NoRequest}]
      /\ pending'[s].kind = "load"
  BY SendFacts DEF loadExercise
<1>2. TypeOK'
  BY <1>1 DEF TypeOK, loadExercise, marks, Buttons
<1>3. PageIsConsistent'
  BY DEF PageIsConsistent, marks
<1>4. ButtonInv'
  BY <1>1 DEF ButtonInv
<1> QED
  BY <1>2, <1>3, <1>4

LEMMA LoadComesInv ==
    ASSUME IInv, NEW s \in Slot, LoadComes(s)
    PROVE  IInv'
<1> USE DEF IInv
<1> DEFINE day == pending[s].day
<1>1. day \in Day
  BY RequestFacts DEF LoadComes
<1>2. "readme" \in Tabs /\ completed \in SUBSET Day
  BY DEF Tabs, TypeOK
<1>3. /\ disabled' = {}
      /\ listed' \in [shown : BOOLEAN, active : Day \union {None}, done : SUBSET Day]
      /\ listed'.active = day /\ listed'.done = completed /\ unsaved' = FALSE
      /\ content' \in [day : Day, tab : Tabs]
      /\ content' = [day |-> day, tab |-> "readme"]
  BY <1>1, <1>2, RenderFacts DEF LoadComes
<1>4. /\ current' = day /\ tab' = "readme"
      /\ UNCHANGED <<up, completed, stored, result, failed>>
  BY DEF LoadComes, marks
<1>5. pending' \in [Slot -> Request \union {NoRequest}]
  BY AnsweredFacts DEF LoadComes
<1> HIDE DEF day
<1>6. TypeOK'
  BY <1>1, <1>2, <1>3, <1>4, <1>5 DEF TypeOK
<1>7. PageIsConsistent'
  BY <1>3, <1>4 DEF PageIsConsistent
<1>8. ButtonInv'
  BY <1>3 DEF ButtonInv
<1> QED
  BY <1>6, <1>7, <1>8

LEMMA LoadFailsInv ==
    ASSUME IInv, NEW s \in Slot, LoadFails(s)
    PROVE  IInv'
<1> USE DEF IInv
<1>1. pending' \in [Slot -> Request \union {NoRequest}]
  BY AnsweredFacts DEF LoadFails
<1>2. TypeOK'
  BY <1>1 DEF TypeOK, LoadFails, view, marks
<1>3. PageIsConsistent' /\ ButtonInv'
  BY DEF LoadFails, PageIsConsistent, ButtonInv, view, marks
<1> QED
  BY <1>2, <1>3

LEMMA ClickActionInv ==
    ASSUME IInv, NEW s \in Slot, NEW action \in Actions, ClickAction(s, action)
    PROVE  IInv'
<1> USE DEF IInv
<1>1. current \in Day
  BY DEF TypeOK, ClickAction
<1>2. /\ pending' \in [Slot -> Request \union {NoRequest}]
      /\ pending'[s].kind = action
      /\ \A t \in Slot : pending[t].kind # "none" => pending'[t] = pending[t]
  BY <1>1, SendFacts DEF ClickAction
<1>3. TypeOK'
  BY <1>2 DEF TypeOK, ClickAction, marks, Buttons
<1>4. PageIsConsistent'
  BY DEF ClickAction, PageIsConsistent, marks
<1>5. ButtonInv'
  <2> SUFFICES ASSUME current' # None, ~failed', NEW a \in Actions \intersect disabled'
               PROVE  \E t \in Slot : pending'[t].kind \in {a, "load"}
    BY DEF ButtonInv
  <2>1. CASE a = action
    BY <1>2, <2>1
  <2>2. CASE a # action
    <3>1. a \in Actions \intersect disabled /\ current # None /\ ~failed
      BY <2>2 DEF ClickAction
    <3>2. PICK t \in Slot : pending[t].kind \in {a, "load"}
      BY <3>1 DEF ButtonInv
    <3>3. pending[t].kind # "none"
      BY <3>2 DEF Actions
    <3> QED
      BY <1>2, <3>2, <3>3
  <2> QED
    BY <2>1, <2>2
<1> QED
  BY <1>3, <1>4, <1>5

(* The end of an action, whether or not its answer was an error. *)
LEMMA ActionEndsInv ==
    ASSUME IInv, NEW s \in Slot, pending[s].kind \in Actions, Answered(s),
           disabled' = disabled \ {pending[s].kind},
           result' \in [day : Day, action : Actions] \union {Hidden},
           UNCHANGED <<up, listed, current, tab, content, marks, failed, unsaved>>
    PROVE  IInv'
<1> USE DEF IInv
<1>1. /\ pending' \in [Slot -> Request \union {NoRequest}]
      /\ \A t \in Slot \ {s} : pending'[t] = pending[t]
  BY AnsweredFacts
<1>2. TypeOK'
  BY <1>1 DEF TypeOK, marks
<1>3. PageIsConsistent'
  BY DEF PageIsConsistent, marks
<1>4. ButtonInv'
  <2> SUFFICES ASSUME current' # None, ~failed', NEW a \in Actions \intersect disabled'
               PROVE  \E t \in Slot : pending'[t].kind \in {a, "load"}
    BY DEF ButtonInv
  <2>1. /\ a \in Actions \intersect disabled /\ current # None /\ ~failed
        /\ a # pending[s].kind
    OBVIOUS
  <2>2. PICK t \in Slot : pending[t].kind \in {a, "load"}
    BY <2>1 DEF ButtonInv
  <2>3. t # s
    BY <2>1, <2>2 DEF Actions
  <2> QED
    BY <1>1, <2>2, <2>3
<1> QED
  BY <1>2, <1>3, <1>4

LEMMA ToggleInv ==
    ASSUME IInv, toggleCompletion
    PROVE  IInv'
<1> USE DEF IInv
<1> DEFINE done == Toggled
<1>1. /\ current \in Day /\ tab \in Tabs /\ done \in SUBSET Day
  BY DEF TypeOK, toggleCompletion, Toggled
<1>2. /\ completed' = done /\ stored' = done /\ renderDetail(current, tab, done)
      /\ UNCHANGED <<up, current, tab, result, pending, failed>>
  BY DEF toggleCompletion, persistCompleted
<1> HIDE DEF done
<1>3. /\ disabled' = {}
      /\ listed' \in [shown : BOOLEAN, active : Day \union {None}, done : SUBSET Day]
      /\ listed'.active = current /\ listed'.done = done /\ unsaved' = FALSE
      /\ content' \in [day : Day, tab : Tabs]
      /\ content' = [day |-> current, tab |-> tab]
  BY <1>1, <1>2, RenderFacts
<1>4. TypeOK'
  BY <1>1, <1>2, <1>3 DEF TypeOK
<1>5. PageIsConsistent'
  BY <1>2, <1>3 DEF PageIsConsistent
<1>6. ButtonInv'
  BY <1>3 DEF ButtonInv
<1> QED
  BY <1>4, <1>5, <1>6

(* A toggle that the storage refuses changes the mark of the current       *)
(* exercise only, and nothing is drawn.                                    *)
LEMMA ThrowsInv ==
    ASSUME IInv, ToggleThrows
    PROVE  IInv'
<1> USE DEF IInv
<1>1. /\ completed' \in SUBSET Day /\ unsaved' = TRUE
      /\ \A d \in Day \ {current} : d \in completed' <=> d \in completed
      /\ UNCHANGED <<up, listed, current, tab, content, disabled, result, stored,
                     pending, failed>>
  BY DEF TypeOK, ToggleThrows, Toggled, view
<1>2. TypeOK'
  BY <1>1 DEF TypeOK
<1>3. PageIsConsistent'
  BY <1>1 DEF PageIsConsistent
<1>4. ButtonInv'
  BY <1>1 DEF ButtonInv
<1> QED
  BY <1>2, <1>3, <1>4

LEMMA ClickTabInv ==
    ASSUME IInv, NEW t \in Tabs, ClickTab(t)
    PROVE  IInv'
<1> USE DEF IInv
<1>1. TypeOK'
  BY DEF TypeOK, ClickTab, ShowTab, renderContent, marks
<1>2. PageIsConsistent' /\ ButtonInv'
  BY DEF ClickTab, ShowTab, renderContent, PageIsConsistent,
     ButtonInv, marks
<1> QED
  BY <1>1, <1>2

LEMMA ReloadInv ==
    ASSUME IInv, Reload
    PROVE  IInv'
<1> USE DEF IInv
<1>1. TypeOK'
  BY PageAssumption DEF TypeOK, Reload, NoList, NoContent, Hidden, NoRequest,
     Tabs, loadCompleted
<1>2. PageIsConsistent' /\ ButtonInv'
  BY DEF TypeOK, Reload, PageIsConsistent, ButtonInv, NoList,
     loadCompleted
<1> QED
  BY <1>1, <1>2

-----------------------------------------------------------------------------
LEMMA NextInv ==
    ASSUME IInv, [Next]_vars
    PROVE  IInv'
<1>1. ASSUME NEW s \in Slot, NEW day \in Day, ClickDay(s, day) PROVE IInv'
  BY <1>1, LoadInv DEF ClickDay, IInv, TypeOK
<1>2. ASSUME NEW s \in Slot, NEW action \in Actions, ClickAction(s, action) PROVE IInv'
  BY <1>2, ClickActionInv
<1>3. CASE toggleCompletion \/ ToggleThrows
  BY <1>3, ToggleInv, ThrowsInv
<1>4. ASSUME NEW t \in Tabs, ClickTab(t) PROVE IInv'
  BY <1>4, ClickTabInv
<1>5. CASE Reload
  BY <1>5, ReloadInv
<1>6. CASE CatalogFails
  BY <1>6 DEF CatalogFails, IInv, TypeOK, PageIsConsistent,
     ButtonInv, view, marks
<1>7. ASSUME NEW s \in Slot, CatalogComes(s) PROVE IInv'
  BY <1>7, LoadInv, PageAssumption DEF CatalogComes
<1>8. ASSUME NEW s \in Slot, LoadComes(s) PROVE IInv'
  BY <1>8, LoadComesInv
<1>9. ASSUME NEW s \in Slot, LoadFails(s) PROVE IInv'
  BY <1>9, LoadFailsInv
<1>10. ASSUME NEW s \in Slot, ActionComes(s) \/ ActionFails(s) PROVE IInv'
  <2>1. pending[s].kind \in Actions /\ pending[s].day \in Day
    BY <1>10, RequestFacts DEF ActionComes, ActionFails, IInv, Actions
  <2>2. result' \in [day : Day, action : Actions] \union {Hidden}
    <3>1. [day |-> pending[s].day, action |-> pending[s].kind]
             \in [day : Day, action : Actions]
      BY <2>1
    <3>2. CASE ActionComes(s)
      <4>1. result' = [day |-> pending[s].day, action |-> pending[s].kind]
        BY <3>2 DEF ActionComes
      <4> QED
        BY <3>1, <4>1
    <3>3. CASE ActionFails(s)
      <4>1. result' = result
        BY <3>3 DEF ActionFails
      <4> QED
        BY <4>1 DEF IInv, TypeOK
    <3> QED
      BY <1>10, <3>2, <3>3
  <2>3. /\ Answered(s) /\ disabled' = disabled \ {pending[s].kind}
        /\ UNCHANGED <<up, listed, current, tab, content, marks, failed, unsaved>>
    BY <1>10 DEF ActionComes, ActionFails, Finally
  <2> QED
    BY <2>1, <2>2, <2>3, ActionEndsInv
<1>11. CASE UNCHANGED vars
  BY <1>11 DEF vars, IInv, TypeOK, PageIsConsistent, ButtonInv,
     view, marks
<1> QED
  BY <1>1, <1>2, <1>3, <1>4, <1>5, <1>6, <1>7, <1>8, <1>9, <1>10, <1>11
     DEF Next, User, Server

(* IInv holds in every state of the page. *)
THEOREM Invariance == Spec => []IInv
<1> QED
  BY InitInv, NextInv, PTL DEF Spec

(* The state of the page is well typed for any catalog and any number of   *)
(* requests under way.                                                     *)
THEOREM TypeCorrect == Spec => []TypeOK
<1>1. IInv => TypeOK
  BY DEF IInv
<1> QED
  BY <1>1, Invariance, PTL

(* The list, the text and the marks on the page are always of one          *)
(* exercise, the current one (renderDetail, renderContent, renderList).    *)
THEOREM PageStaysConsistent == Spec => []PageIsConsistent
<1>1. IInv => PageIsConsistent
  BY DEF IInv
<1> QED
  BY <1>1, Invariance, PTL

(* When all answers are in and the last load did not fail, both action     *)
(* buttons can be clicked (loadExercise, executeCurrent, renderDetail).    *)
THEOREM ButtonsAlwaysComeBack == Spec => []ButtonsComeBack
<1>1. IInv => ButtonsComeBack
  <2>1. \A s \in Slot : pending[s] = NoRequest => pending[s].kind = "none"
    BY DEF NoRequest
  <2>2. \A a \in Actions : a # "none"
    BY DEF Actions
  <2> QED
    BY <2>1, <2>2 DEF IInv, ButtonInv, ButtonsComeBack, Quiet
<1> QED
  BY <1>1, Invariance, PTL
=============================================================================
