----------------------------- MODULE RequestList -----------------------------
(***************************************************************************)
(* The request list and the detail pane of the browser UI                  *)
(* (internal/api/ui/app.js) over the API they poll (handleList, handleGet  *)
(* and filterActiveRoutes in internal/api/api.go) and the store behind it. *)
(*                                                                         *)
(* The page has one thread, but its functions give way at every await:     *)
(* polls of the timer, a clear, a change of the filter, a reload of the    *)
(* routes and loads of the detail are all under way at the same time,      *)
(* their requests are served in any order and their answers arrive in any  *)
(* order.  A task is one chain of awaits.                                  *)
(***************************************************************************)
EXTENDS Naturals, Sequences, SequencesExt, Sublists

CONSTANTS
  Route,       \* route ids
  All,         \* the empty filter
  Task,        \* bound: what can be under way at a time
  Gestures,    \* what the user does
  Lossy,       \* whether a fetch may fail
  MaxEntries,  \* Store.maxEntries
  MaxID        \* bound: how many requests are recorded

ASSUME RequestListAssumption ==
  /\ All \notin Route
  /\ Gestures \subseteq {"filter", "clear", "routes", "select"}
  /\ Lossy \in BOOLEAN
  /\ MaxEntries \in Nat /\ MaxEntries >= 1
  /\ MaxID \in Nat

VARIABLES
  entries, nextID,  \* the store
  life,             \* of each route: new, up or gone
  rows,             \* the items of the list, top first
  knownIds, newestId, filter,
  selected,         \* selectedId and selectedRouteId
  detail,           \* what the detail pane shows
  task

server == <<entries, nextID, life>>
list == <<rows, knownIds, newestId, filter>>
pane == <<selected, detail>>
page == <<list, pane>>
vars == <<server, page, task>>

\* Of ProxyInfo: whether the list will look at the request again, which it
\* does while it is streaming or has no status.
Log == INSTANCE Store WITH Tag <- Route, Body <- {0}, NoBody <- 0,
                           Proxy <- {"open", "done"}, NoProxy <- "open"

Row == [id : 1..MaxID, route : Route, open : BOOLEAN]
Filter == Route \cup {All}
Selection == [id : 0..MaxID, route : Filter]
NoSelection == [id |-> 0, route |-> All]

\* The pane is empty, says that a load failed, or shows a request, which was
\* open or done when it was read.
Pane == [id : 0..MaxID, says : {"empty", "failed", "open", "done"}]
Shows(id, says) == [id |-> id, says |-> says]
EmptyPane == Shows(0, "empty")
Failed == Shows(0, "failed")

(***************************************************************************)
(* A task: what it waits for, the query it has sent and the answer, the    *)
(* ids refreshActive looks for, whether it is a reload that keeps the      *)
(* selection, and the detail that is loaded.                               *)
(***************************************************************************)
TaskState ==
  [pc : {"free", "clear", "cleared", "routes", "loaded",
         "ask", "listed", "answered", "reask", "relisted", "reanswered",
         "get", "found", "got"},
   after : 0..MaxID, filter : Filter, items : Seq(Row), ids : SUBSET (1..MaxID),
   keep : BOOLEAN, routes : SUBSET Route, shown : Pane]

Nothing == [pc |-> "free", after |-> 0, filter |-> All, items |-> <<>>, ids |-> {},
            keep |-> FALSE, routes |-> {}, shown |-> EmptyPane]

TypeOK ==
  /\ Log!TypeOK
  /\ life \in [Route -> {"new", "up", "gone"}]
  /\ rows \in Seq(Row)
  /\ knownIds \in SUBSET (1..MaxID)
  /\ newestId \in 0..MaxID
  /\ filter \in Filter
  /\ selected \in Selection /\ detail \in Pane
  /\ task \in [Task -> TaskState]

-----------------------------------------------------------------------------
(***************************************************************************)
(* The server.                                                             *)
(***************************************************************************)

\* A request is recorded; its route was up when it was matched, and may have
\* been deleted since.
Record(r) ==
  /\ nextID < MaxID /\ life[r] # "new"
  /\ Log!Add(r)
  /\ UNCHANGED <<life, page, task>>

\* A request comes to its end.
Close(id) ==
  /\ Log!UpdateProxy(id, "done")
  /\ UNCHANGED <<life, page, task>>

RouteChange(r) ==
  /\ life' = [life EXCEPT ![r] = IF @ = "new" THEN "up" ELSE "gone"]
  /\ UNCHANGED <<entries, nextID, page, task>>

Tags(f) == IF f = All THEN Route ELSE {f}
Item(e) == [id |-> e.id, route |-> e.tag, open |-> e.proxy = "open"]

\* handleList reads the store ...
ServeList(t) ==
  /\ task[t].pc \in {"ask", "reask"}
  /\ LET found == Log!ListAfter(task[t].after, Tags(task[t].filter))
     IN  task' = [task EXCEPT
           ![t].pc = IF @ = "ask" THEN "listed" ELSE "relisted",
           ![t].items = [i \in DOMAIN found |-> Item(found[i])]]
  /\ UNCHANGED <<server, page>>

\* ... and then the routes: filterActiveRoutes.
ServeActive(t) ==
  /\ task[t].pc \in {"listed", "relisted"}
  /\ task' = [task EXCEPT
       ![t].pc = IF @ = "listed" THEN "answered" ELSE "reanswered",
       ![t].items = Sublist(@, {i \in DOMAIN @ : life[@[i].route] = "up"})]
  /\ UNCHANGED <<server, page>>

ServeClear(t) ==
  /\ task[t].pc = "clear"
  /\ Log!Clear
  /\ task' = [task EXCEPT ![t].pc = "cleared"]
  /\ UNCHANGED <<life, page>>

ServeRoutes(t) ==
  /\ task[t].pc = "routes"
  /\ task' = [task EXCEPT ![t].pc = "loaded",
                          ![t].routes = {r \in Route : life[r] = "up"}]
  /\ UNCHANGED <<server, page>>

\* Requests a reader of the API may see, and what is read of them.
Listed(id) ==
  /\ Log!Held(id)
  /\ life[entries[Log!Position(id)].tag] = "up"
Says(id) == entries[Log!Position(id)].proxy

\* handleGet finds the entry and its route, or answers 404 ...
ServeGet(t) ==
  /\ task[t].pc = "get"
  /\ LET id == task[t].shown.id
     IN  task' = [task EXCEPT
           ![t].pc = IF Listed(id) THEN "found" ELSE "got",
           ![t].shown = IF Listed(id) THEN Shows(id, Says(id)) ELSE Failed]
  /\ UNCHANGED <<server, page>>

\* ... and reads the entry then, without the lock.  One that left the store
\* in between still says what it said.
ServeEntry(t) ==
  /\ task[t].pc = "found"
  /\ LET id == task[t].shown.id
     IN  task' = [task EXCEPT
           ![t].pc = "got",
           ![t].shown = IF Log!Held(id) THEN Shows(id, Says(id)) ELSE @]
  /\ UNCHANGED <<server, page>>

Serve(t) == \/ ServeList(t) \/ ServeActive(t) \/ ServeClear(t)
            \/ ServeRoutes(t) \/ ServeGet(t) \/ ServeEntry(t)

-----------------------------------------------------------------------------
(***************************************************************************)
(* The page.                                                               *)
(***************************************************************************)
PassesFilter(route) == filter = All \/ filter = route

IdsOf(items) == {items[i].id : i \in DOMAIN items}

\* (Faulty variant: the id to ask from instead of the last one shown.)
MaxOfNext(ids) == 1 + CHOOSE m \in ids \cup {0} : \A id \in ids : id <= m
MaxOf(ids) == CHOOSE m \in ids \cup {0} : \A id \in ids : id <= m

\* The start of poll: what it asks for depends on the list as it is now.
\* (Faulty variant: it asks for what comes after the next request.)
QuerySkipping(after, f) ==
  [Nothing EXCEPT !.pc = "ask", !.filter = f,
                  !.after = IF after < MaxID THEN after + 1 ELSE after]

Query(after, f) ==
  [Nothing EXCEPT !.pc = "ask", !.filter = f, !.after = after]

\* (Faulty variant: the ids are still known.)
EmptyRows == rows' = <<>> /\ newestId' = 0 /\ UNCHANGED knownIds

EmptyList == rows' = <<>> /\ newestId' = 0 /\ knownIds' = {}

ClearSelection == selected' = NoSelection /\ detail' = EmptyPane

\* selectionMatchesFilter, with the filter that is being set.
SelectionMatches(f) ==
  selected # NoSelection /\ (f = All \/ selected.route = f)

\* resetRequestList, and the poll that follows it.
Reload(t, f, keep) ==
  /\ EmptyList
  /\ filter' = f
  /\ IF keep THEN UNCHANGED pane ELSE ClearSelection
  /\ task' = [task EXCEPT ![t] = [Query(0, f) EXCEPT !.keep = keep]]

Start(t, pc) == task' = [task EXCEPT ![t] = [Nothing EXCEPT !.pc = pc]]

\* The end of a chain.  A reload that kept the selection drops it when its
\* row is not in the list.
\* (Faulty variant: it does not look.)
EndKeeping(t, ids) == Start(t, "free") /\ UNCHANGED selected

End(t, ids) ==
  /\ Start(t, "free")
  /\ selected' = IF task[t].keep /\ selected.id \notin ids THEN NoSelection ELSE selected

\* What that does to the pane, after it has come to show what is given.
PaneAfter(t, ids, shown) ==
  IF task[t].keep /\ selected.id \notin ids THEN EmptyPane ELSE shown

\* The timer.
Tick(t) ==
  /\ task[t].pc = "free"
  /\ task' = [task EXCEPT ![t] = Query(newestId, filter)]
  /\ UNCHANGED <<server, page>>

\* The user picks a route, or all, in the filter.
PickFilter(t) ==
  /\ "filter" \in Gestures /\ task[t].pc = "free"
  /\ \E f \in {All} \cup {r \in Route : life[r] # "new"} :
       Reload(t, f, SelectionMatches(f))
  /\ UNCHANGED server

\* The user clears the requests, or does what loads the routes again.
PressClear(t) ==
  /\ "clear" \in Gestures /\ task[t].pc = "free"
  /\ Start(t, "clear")
  /\ UNCHANGED <<server, page>>

LoadRoutes(t) ==
  /\ "routes" \in Gestures /\ task[t].pc = "free"
  /\ Start(t, "routes")
  /\ UNCHANGED <<server, page>>

\* The user picks a row.  loadDetail is not awaited.
Load(id) == [Nothing EXCEPT !.pc = "get", !.shown.id = id]

Click(t) ==
  /\ "select" \in Gestures /\ task[t].pc = "free"
  /\ \E i \in DOMAIN rows :
       /\ selected' = [id |-> rows[i].id, route |-> rows[i].route]
       /\ task' = [task EXCEPT ![t] = Load(rows[i].id)]
  /\ UNCHANGED <<server, list, detail>>

Cleared(t) ==
  /\ task[t].pc = "cleared"
  /\ Reload(t, filter, FALSE)
  /\ UNCHANGED server

\* syncRouteFilter drops the filter when its route is gone.
RoutesLoaded(t) ==
  /\ task[t].pc = "loaded"
  /\ LET f == IF filter \in task[t].routes THEN filter ELSE All
     IN  Reload(t, f, SelectionMatches(f))
  /\ UNCHANGED server

\* updateListItem, for the rows whose ids are among those given.
\* (Faulty variant: a row once marked as streaming keeps the mark.)
UpdateMarked(rs, items, ids) ==
  [i \in DOMAIN rs |->
     [rs[i] EXCEPT !.open =
        @ \/ \E item \in Range(items) : item.id = rs[i].id /\ item.open]]

Update(rs, items, ids) ==
  [i \in DOMAIN rs |->
     [rs[i] EXCEPT !.open =
        IF rs[i].id \in ids \cap IdsOf(items)
          THEN \E item \in Range(items) : item.id = rs[i].id /\ item.open
          ELSE @]]

\* (Faulty variant: the answer is shown whatever the filter has become.)
WantedAll(items) == items
Wanted(items) == Sublist(items, {i \in DOMAIN items : PassesFilter(items[i].route)})

\* prependRequests puts the new items on top one by one, the last on top.
Prepended(items) ==
  LET wanted == Wanted(items)
      fresh == Sublist(wanted, {i \in DOMAIN wanted : wanted[i].id \notin knownIds})
  IN  Reverse(fresh) \o Update(rows, wanted, knownIds)

\* refreshActive asks for the whole list if a row is still open.
OpenIds(rs) == {rs[i].id : i \in {j \in DOMAIN rs : rs[j].open}}

\* The answer of a poll: the first items, or more of them.
Receive(t) ==
  /\ task[t].pc = "answered"
  /\ LET items == task[t].items
         shown == IF newestId = 0 THEN Wanted(items) ELSE Prepended(items)
         ids == IdsOf(shown)
     IN  /\ rows' = shown
         /\ knownIds' = ids \cup (IF newestId = 0 THEN {} ELSE knownIds)
         /\ newestId' = MaxOf(ids \cup {newestId})
         /\ IF OpenIds(shown) = {}
              THEN End(t, ids) /\ detail' = PaneAfter(t, ids, detail)
              ELSE /\ task' = [task EXCEPT ![t] =
                        [Nothing EXCEPT !.pc = "reask", !.filter = filter,
                                        !.ids = OpenIds(shown), !.keep = task[t].keep]]
                   /\ UNCHANGED pane
  /\ UNCHANGED <<server, filter>>

\* refreshActive goes through the items that are left.  When it meets the
\* selected request and that has ended, it loads its detail before it goes on.
\* (Faulty variant: it updates the rows only.)
Walk(t, items, shown) ==
  LET Awaited == {i \in DOMAIN items : /\ items[i].id \in task[t].ids
                                      /\ items[i].id = selected.id
                                      /\ ~items[i].open}
  IN  IF Awaited = {}
        THEN /\ rows' = Update(rows, items, task[t].ids)
             /\ End(t, IdsOf(rows))
             /\ detail' = PaneAfter(t, IdsOf(rows), shown)
        ELSE LET i == CHOOSE i \in Awaited : TRUE
             IN  /\ rows' = Update(rows, SubSeq(items, 1, i), task[t].ids)
                 /\ task' = [task EXCEPT ![t].pc = "get",
                                         ![t].items = SubSeq(items, i + 1, Len(items)),
                                         ![t].shown = Shows(items[i].id, "open")]
                 /\ detail' = shown
                 /\ UNCHANGED selected

Refresh(t) ==
  /\ task[t].pc = "reanswered"
  /\ Walk(t, task[t].items, detail)
  /\ UNCHANGED <<server, knownIds, newestId, filter>>

\* The answer of loadDetail is shown, whatever is selected by now.
LoadDetail(t) ==
  /\ task[t].pc = "got"
  /\ Walk(t, task[t].items, task[t].shown)
  /\ UNCHANGED <<server, knownIds, newestId, filter>>

Deliver(t) == \/ Cleared(t) \/ RoutesLoaded(t) \/ Receive(t)
              \/ Refresh(t) \/ LoadDetail(t)

\* A fetch fails.  poll catches it, and what awaits poll goes on; loadDetail
\* shows that it failed; the others show an error and end.
Fail(t) ==
  /\ Lossy /\ task[t].pc # "free"
  /\ IF task[t].pc \in {"get", "found", "got"}
       THEN Walk(t, task[t].items, Failed)
       ELSE /\ End(t, IdsOf(rows))
            /\ detail' = PaneAfter(t, IdsOf(rows), detail)
            /\ UNCHANGED rows
  /\ UNCHANGED <<server, knownIds, newestId, filter>>

-----------------------------------------------------------------------------
\* The page when it has loaded without any routes.
Init ==
  /\ Log!Init
  /\ life = [r \in Route |-> "new"]
  /\ rows = <<>> /\ knownIds = {} /\ newestId = 0 /\ filter = All
  /\ selected = NoSelection /\ detail = EmptyPane
  /\ task = [t \in Task |-> Nothing]

Gesture(t) == PickFilter(t) \/ PressClear(t) \/ LoadRoutes(t) \/ Click(t)

Next ==
  \/ \E r \in Route : Record(r) \/ RouteChange(r)
  \/ \E id \in 1..MaxID : Close(id)
  \/ \E t \in Task : Tick(t) \/ Gesture(t) \/ Serve(t) \/ Deliver(t) \/ Fail(t)

Spec == Init /\ [][Next]_vars

\* The timer fires, the server answers and the page takes the answer.
Fairness ==
  /\ WF_vars(\E t \in Task : Tick(t))
  /\ \A t \in Task : WF_vars(Serve(t)) /\ WF_vars(Deliver(t))

FairSpec == Spec /\ Fairness

-----------------------------------------------------------------------------
(***************************************************************************)
(* Properties.                                                             *)
(***************************************************************************)

\* However polls and reloads overlap, a request has one row at most, the page
\* knows the ids of its rows, and the next poll asks for what comes after the
\* newest of them (poll, prependRequests, resetRequestList).
ListConsistent ==
  /\ \A i, j \in DOMAIN rows : rows[i].id = rows[j].id => i = j
  /\ knownIds = IdsOf(rows)
  /\ newestId = MaxOf(IdsOf(rows))

\* The list never shows a request of a route that is filtered out, though
\* answers to polls with an earlier filter still arrive (passesFilter).
RowsPassFilter == \A i \in DOMAIN rows : PassesFilter(rows[i].route)

\* The selection never outlives its row or the filter: what is selected has a
\* row, or a reload that will look for it is under way, and the filter lets it
\* pass (selectionMatchesFilter, reloadRequests, clearRequests).
SelectionListed ==
  selected # NoSelection =>
    /\ PassesFilter(selected.route)
    /\ selected.id \in knownIds \/ \E t \in Task : task[t].keep

Ended(id) == Says(id) = "done"

Listing(t) == task[t].pc \in {"ask", "listed", "answered"} /\ task[t].after = 0

\* README: requests appear in the request list.  No poll asks for requests
\* older than newestId, so none of those may be missing once the answer to the
\* full listing is there.  It holds as long as the filter is left alone.
NothingMissed ==
  filter = All /\ (\A t \in Task : ~Listing(t)) =>
    \A id \in 1..newestId : Listed(id) => id \in knownIds

\* Every request appears in the list unless it is evicted, cleared or its
\* route is deleted first, with any number of reloads going on (poll).
RequestsAppear ==
  \A id \in 1..MaxID : Listed(id) ~> (id \in knownIds \/ ~Listed(id))

\* A row does not say streaming or pending for ever when its request has
\* ended, though an older answer may put it back for a while (refreshActive).
RowsSettle ==
  \A id \in 1..MaxID :
    <>[](Listed(id) /\ Ended(id)) =>
      <>[](\A i \in DOMAIN rows : rows[i].id = id => ~rows[i].open)

(***************************************************************************)
(* What the documents say and the code does not do.                        *)
(***************************************************************************)

\* docs/plan-proxy-streaming.md: the detail, if open, shows the final status
\* after the single reload that follows the end of the stream.
DetailSettles ==
  \A id \in 1..MaxID :
    <>[](selected.id = id /\ Listed(id) /\ Ended(id)) =>
      <>[](detail = Shows(id, "done"))

\* README and docs/plan-routes.md: Clear clears all requests.  What is neither
\* kept nor evicted was cleared, and is not in the list when nothing that was
\* asked before the clear is still under way.
ClearedStayCleared ==
  (\A t \in Task : task[t].pc = "free") =>
    \A id \in IdsOf(rows) : Log!Held(id) \/ id + MaxEntries <= nextID

=============================================================================
