---------------------------- MODULE PracticePage ----------------------------
(***************************************************************************)
(* basic/web/app.js: the page of the practice site.  The user clicks while *)
(* requests are under way, and answers come in any order; each await is a  *)
(* point where other events run.  localStorage outlives the page.          *)
(***************************************************************************)
EXTENDS Integers, FiniteSets

CONSTANTS Day,       \* the days of the catalog
          First,     \* the day that is loaded at the start
          Slot,      \* bound: requests under way at a time
          None       \* no day, no request

ASSUME PageAssumption ==
    First \in Day /\ None \notin Day

VARIABLES
    up,         \* "starting" (the catalog is awaited), "ready", "unavailable"
    listed,     \* what renderList has put on the page: see NoList
    current,    \* state.current
    tab,        \* state.activeTab
    content,    \* the text on the page: whose, and which tab's
    completed,  \* state.completed
    stored,     \* localStorage
    disabled,   \* the buttons that are disabled
    result,     \* the result panel: hidden, or of a day and an action
    pending,    \* per slot, a request under way
    failed,     \* history: a load has failed since the last click
    unsaved     \* history: setItem has thrown since the list was drawn

view == <<listed, current, tab, content, disabled, result>>
marks == <<completed, stored>>
vars == <<up, view, marks, pending, failed, unsaved>>

Actions == {"check", "run"}
Buttons == Actions \union {"mark"}
Tabs == {"readme", "header", "source"}
Hidden == [day |-> None, action |-> "none"]
Request == [kind : {"load"} \union Actions, day : Day]
NoRequest == [kind |-> "none", day |-> None]
NoList == [shown |-> FALSE, active |-> None, done |-> {}]
NoContent == [day |-> None, tab |-> "none"]

(* A page just opened; loadCompleted has read localStorage. *)
loadCompleted == stored \intersect Day

Init ==
    /\ up = "starting" /\ listed = NoList /\ current = None /\ tab = "readme"
    /\ content = NoContent /\ disabled = Buttons /\ result = Hidden
    /\ pending = [s \in Slot |-> NoRequest]
    /\ stored = {} /\ completed = loadCompleted
    /\ failed = FALSE /\ unsaved = FALSE

-----------------------------------------------------------------------------
(* Rendering *)

renderList(day, done) == listed' = [shown |-> TRUE, active |-> day, done |-> done]

renderContent(day, t) == content' = [day |-> day, tab |-> t]

(* Mutant: a list that is on the page is left as it is. *)
MutRenderDetail(day, t, done) ==
    /\ disabled' = {}
    /\ renderContent(day, t)
    /\ IF listed.shown THEN UNCHANGED listed ELSE renderList(day, done)
    /\ unsaved' = FALSE

(* renderDetail of the current exercise enables all buttons. *)
renderDetail(day, t, done) ==
    /\ disabled' = {}
    /\ renderContent(day, t)
    /\ renderList(day, done)
    /\ unsaved' = FALSE

Send(s, kind, day) ==
    /\ pending[s] = NoRequest
    /\ pending' = [pending EXCEPT ![s] = [kind |-> kind, day |-> day]]

Answered(s) == pending' = [pending EXCEPT ![s] = NoRequest]

-----------------------------------------------------------------------------
(* Events *)

(* loadExercise, up to its await. *)
loadExercise(s, day) ==
    /\ Send(s, "load", day)
    /\ disabled' = disabled \union Actions
    /\ result' = Hidden
    /\ failed' = FALSE

(* start: the catalog has come, or not. *)
CatalogComes(s) ==
    /\ up = "starting"
    /\ up' = "ready"
    /\ loadExercise(s, First)
    /\ UNCHANGED <<listed, current, tab, content, marks, unsaved>>

CatalogFails ==
    /\ up = "starting"
    /\ up' = "unavailable"
    /\ UNCHANGED <<view, marks, pending, failed, unsaved>>

ClickDay(s, day) ==
    /\ listed.shown
    /\ loadExercise(s, day)
    /\ UNCHANGED <<up, listed, current, tab, content, marks, unsaved>>

LoadComes(s) ==
    /\ pending[s].kind = "load"
    /\ current' = pending[s].day
    /\ tab' = "readme"
    /\ renderDetail(pending[s].day, "readme", completed)
    /\ Answered(s)
    /\ UNCHANGED <<up, marks, result, failed>>

LoadFails(s) ==
    /\ pending[s].kind = "load"
    /\ failed' = TRUE
    /\ Answered(s)
    /\ UNCHANGED <<up, view, marks, unsaved>>

(* executeCurrent, up to its await. *)
ClickAction(s, action) ==
    /\ action \notin disabled
    /\ current # None
    /\ Send(s, action, current)
    /\ disabled' = disabled \union {action}
    /\ UNCHANGED <<up, listed, current, tab, content, result, marks, failed, unsaved>>

(* Mutant: the button comes back only after an answer. *)
MutFinally(action, ok) == IF ok THEN disabled \ {action} ELSE disabled

(* finally: the button is enabled again. *)
Finally(action, ok) == disabled \ {action}

ActionComes(s) ==
    /\ pending[s].kind \in Actions
    /\ result' = [day |-> pending[s].day, action |-> pending[s].kind]
    /\ disabled' = Finally(pending[s].kind, TRUE)
    /\ Answered(s)
    /\ UNCHANGED <<up, listed, current, tab, content, marks, failed, unsaved>>

ActionFails(s) ==
    /\ pending[s].kind \in Actions
    /\ disabled' = Finally(pending[s].kind, FALSE)
    /\ Answered(s)
    /\ UNCHANGED <<up, listed, current, tab, content, result, marks, failed, unsaved>>

persistCompleted(done) == stored' = done

(* The marks with that of the current exercise set or taken back. *)
Toggled ==
    IF current \in completed THEN completed \ {current} ELSE completed \union {current}

toggleCompletion ==
    /\ "mark" \notin disabled
    /\ current # None
    /\ completed' = Toggled
    /\ persistCompleted(Toggled)
    /\ renderDetail(current, tab, Toggled)
    /\ UNCHANGED <<up, current, tab, result, pending, failed>>

(* The storage refuses the marks (full, or not allowed on this page):      *)
(* setItem throws, and the handler ends before it draws anything.          *)
ToggleThrows ==
    /\ "mark" \notin disabled
    /\ current # None
    /\ completed' = Toggled
    /\ unsaved' = TRUE
    /\ UNCHANGED <<up, view, stored, pending, failed>>

ShowTab(t) == IF current = None THEN UNCHANGED content ELSE renderContent(current, t)

ClickTab(t) ==
    /\ tab' = t
    /\ ShowTab(t)
    /\ UNCHANGED <<up, listed, current, disabled, result, marks, pending, failed, unsaved>>

(* The page is loaded again: all that is left is localStorage. *)
Reload ==
    /\ up' = "starting" /\ listed' = NoList /\ current' = None /\ tab' = "readme"
    /\ content' = NoContent /\ disabled' = Buttons /\ result' = Hidden
    /\ pending' = [s \in Slot |-> NoRequest]
    /\ completed' = loadCompleted
    /\ failed' = FALSE /\ unsaved' = FALSE
    /\ UNCHANGED stored

-----------------------------------------------------------------------------
User ==
    \/ \E s \in Slot : \E day \in Day : ClickDay(s, day)
    \/ \E s \in Slot : \E action \in Actions : ClickAction(s, action)
    \/ toggleCompletion \/ ToggleThrows
    \/ \E t \in Tabs : ClickTab(t)
    \/ Reload

Server ==
    \/ CatalogFails
    \/ \E s \in Slot :
          \/ CatalogComes(s) \/ LoadComes(s) \/ LoadFails(s)
          \/ ActionComes(s) \/ ActionFails(s)

Next == User \/ Server

Spec == Init /\ [][Next]_vars

-----------------------------------------------------------------------------
(* Properties *)

(* Types: the content on the page and a result are always some day's. *)
TypeOK ==
    /\ up \in {"starting", "ready", "unavailable"}
    /\ listed \in [shown : BOOLEAN, active : Day \union {None}, done : SUBSET Day]
    /\ current \in Day \union {None}
    /\ tab \in Tabs
    /\ content \in [day : Day, tab : Tabs] \union {NoContent}
    /\ completed \in SUBSET Day /\ stored \in SUBSET Day
    /\ disabled \in SUBSET Buttons
    /\ result \in [day : Day, action : Actions] \union {Hidden}
    /\ pending \in [Slot -> Request \union {NoRequest}]
    /\ failed \in BOOLEAN /\ unsaved \in BOOLEAN

(* The list, the text and the marks on the page are those of one exercise, *)
(* the current one, whatever order the answers came in.  While setItem has *)
(* thrown since, the mark of that exercise, and no other, may be old.      *)
PageIsConsistent ==
    /\ listed.shown =>
          /\ listed.active = current
          /\ \A d \in Day : ~(unsaved /\ d = current) => (d \in listed.done <=> d \in completed)
    /\ current # None => content = [day |-> current, tab |-> tab]

(* All answers are in. *)
Quiet == \A s \in Slot : pending[s] = NoRequest

(* The buttons come back: when nothing is under way and the last load did  *)
(* not fail, both actions can be clicked.                                  *)
ButtonsComeBack ==
    Quiet /\ current # None /\ ~failed => Actions \intersect disabled = {}
=============================================================================
