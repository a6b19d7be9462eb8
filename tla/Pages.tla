-------------------------------- MODULE Pages --------------------------------
(* What the web client shows (apps/web): each view asks the API for what    *)
(* its query, filter or record id names, and its answers arrive whenever    *)
(* they do.  A hook gives its request a signal and aborts it when it asks   *)
(* for something else; CrudResourcePage ignores the answer of an aborted    *)
(* one; the other pages take every answer.                                  *)
EXTENDS FiniteSets

CONSTANTS Hook,      \* useGlobalSearch and the four hooks like it
          Crud,      \* the list and the detail of CrudResourcePage
          Bare,      \* jobs, read-only lists, providers, workflows, RBAC
          Clearable, \* the views that can ask for nothing
          Key,       \* what can be asked for
          Request,
          None

View == Hook \cup Crud \cup Bare
Nothing == "nothing"

VARIABLES pane,    \* what each view has asked for and shows
          loading, \* CrudResourcePage has one flag for both its views
          failed,  \* and one message
          request, \* the requests that are out
          fresh,   \* history: views whose last request was answered
          overlap  \* history: views that asked while a request was out

pagesVars == <<pane, loading, failed, request, fresh, overlap>>

PagesTypeOK ==
    /\ pane \in [View -> [asked : Key \cup {Nothing, None}, shown : Key \cup {Nothing, None},
                          status : {"idle", "loading", "ready", "error"}]]
    /\ loading \in BOOLEAN /\ failed \in BOOLEAN
    /\ request \in [Request ->
          [view : View, key : Key, at : {"sent", "headers"}, superseded : BOOLEAN] \cup {None}]
    /\ fresh \in SUBSET View /\ overlap \in SUBSET View

-----------------------------------------------------------------------------
NewPane == [asked |-> None, shown |-> None, status |-> "idle"]

Out(v) == {r \in Request : request[r] # None /\ request[r].view = v}

(* What asking again does to the requests that are out: an abort rejects a  *)
(* hook's fetch at once, and its catch drops the AbortError.                *)
Superseded(v) ==
    [r \in Request |->
        IF r \notin Out(v) THEN request[r]
        ELSE IF v \in Hook /\ request[r].at = "sent" THEN None
        ELSE [request[r] EXCEPT !.superseded = TRUE]]

(* An effect runs: a view opens, its query, filter or record changes, or    *)
(* retry asks a hook's question again.                                      *)
Asking(v, k) ==
    /\ pane[v].asked = k => v \in Hook
    /\ fresh' = fresh \ {v}
    /\ overlap' = IF Out(v) # {} THEN overlap \cup {v} ELSE overlap

Ask(v, k, r) ==
    /\ request[r] = None
    /\ Asking(v, k)
    /\ request' = [Superseded(v) EXCEPT ![r] =
          [view |-> v, key |-> k, at |-> "sent", superseded |-> FALSE]]
    /\ pane' = [pane EXCEPT ![v].asked = k,
                            ![v].status = IF v \in Hook THEN "loading" ELSE @]
    /\ loading' = (loading \/ v \in Crud)
    /\ failed' = (failed /\ v \notin Crud)

(* search_cleared, and a page that has no record id. *)
Clear(v) ==
    /\ v \in Clearable /\ pane[v].asked # Nothing
    /\ Asking(v, Nothing)
    /\ request' = Superseded(v)
    /\ pane' = [pane EXCEPT ![v] = [asked |-> Nothing, shown |-> Nothing, status |-> "idle"]]
    /\ UNCHANGED <<loading, failed>>

(* Another route: the page is unmounted, and nothing reaches it any more. *)
Leave(V) ==
    /\ V \in {{v} : v \in Hook \cup Bare} \cup {Crud}
    /\ \E v \in V : pane[v] # NewPane
    /\ pane' = [v \in View |-> IF v \in V THEN NewPane ELSE pane[v]]
    /\ request' = [r \in Request |->
          IF request[r] # None /\ request[r].view \in V THEN None ELSE request[r]]
    /\ loading' = (loading /\ V # Crud)
    /\ failed' = (failed /\ V # Crud)
    /\ fresh' = fresh \ V /\ overlap' = overlap \ V

-----------------------------------------------------------------------------
Headers(r) ==
    /\ request[r] # None /\ request[r].at = "sent"
    /\ request' = [request EXCEPT ![r].at = "headers"]
    /\ UNCHANGED <<pane, loading, failed, fresh, overlap>>

Arrived(r) == request[r] # None /\ request[r].at = "headers"

(* load_succeeded, setListState, setDetailState, setJobs, setRecords, ...   *)
Apply(r) ==
    LET v == request[r].view IN
    /\ pane' = [pane EXCEPT ![v].shown = request[r].key,
                            ![v].status = IF v \in Hook THEN "ready" ELSE @]
    /\ loading' = (loading /\ v \notin Crud)
    /\ fresh' = IF request[r].superseded THEN fresh ELSE fresh \cup {v}
    /\ request' = [request EXCEPT ![r] = None]
    /\ UNCHANGED <<failed, overlap>>

(* The answer is taken, by a bare page whether or not it has asked for      *)
(* something else since; and one that every page takes.                     *)
AnswerAnyone(r) == Arrived(r) /\ Apply(r)

Answer(r) ==
    /\ Arrived(r)
    /\ request[r].superseded => request[r].view \in Bare
    /\ Apply(r)

(* CrudResourcePage ignores answers and failures after controller.abort().  *)
Ignore(r) ==
    /\ request[r] # None /\ request[r].superseded /\ request[r].view \in Crud
    /\ request' = [request EXCEPT ![r] = None]
    /\ UNCHANGED <<pane, loading, failed, fresh, overlap>>

(* A hook's abort while the body is read: requestJson takes the AbortError  *)
(* for an empty body, what is made of null throws, and load_failed reaches  *)
(* the state of the question that came after.                               *)
Stray(r) ==
    /\ Arrived(r) /\ request[r].superseded /\ request[r].view \in Hook
    /\ pane' = [pane EXCEPT ![request[r].view].status = "error"]
    /\ request' = [request EXCEPT ![r] = None]
    /\ UNCHANGED <<loading, failed, fresh, overlap>>

(* No answer, an answer that is an error, or one without a readable body. *)
Fail(r) ==
    /\ request[r] # None
    /\ request[r].superseded => request[r].view \in Bare
    /\ LET v == request[r].view IN
       /\ pane' = [pane EXCEPT ![v].status = IF v \in Hook THEN "error" ELSE @]
       /\ loading' = (loading /\ v \notin Crud)
       /\ failed' = (failed \/ v \in Crud)
       /\ request' = [request EXCEPT ![r] = None]
    /\ UNCHANGED <<fresh, overlap>>

-----------------------------------------------------------------------------
PagesInit ==
    /\ pane = [v \in View |-> NewPane]
    /\ loading = FALSE /\ failed = FALSE
    /\ request = [r \in Request |-> None]
    /\ fresh = {} /\ overlap = {}

PagesNext ==
    \/ \E v \in View, k \in Key, r \in Request : Ask(v, k, r)
    \/ \E v \in View : Clear(v)
    \/ \E V \in SUBSET View : Leave(V)
    \/ \E r \in Request : Headers(r) \/ Answer(r) \/ Ignore(r) \/ Stray(r) \/ Fail(r)

PagesSpec == PagesInit /\ [][PagesNext]_pagesVars

-----------------------------------------------------------------------------
(* A view whose last question has been answered shows the answer to it, and *)
(* a hook that says it is ready has been; a bare page, only if its requests *)
(* never overlapped.                                                        *)
ShownIsAsked ==
    /\ \A v \in fresh : v \in Bare \cap overlap \/ pane[v].shown = pane[v].asked
    /\ \A v \in Hook : pane[v].status = "ready" => v \in fresh
=============================================================================
