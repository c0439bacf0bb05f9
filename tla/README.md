# A verification development for funneltap

funneltap publishes local services through `tailscale funnel`. It keeps a table
of routes (mount path to upstream target), starts one funnel mount per route,
receives the public requests on an intercept server, records each one, forwards
it to its upstream, and shows what it recorded in a browser UI. These TLA+
modules model the parts of it that change state. TLC checks them on small
instances, and TLAPS proves the invariants that matter most for every instance.

All line numbers are those of the repository. `PROJECT.json` maps every
definition to the lines it stands for and lists the hazards and the findings.

## Inventory

| Component | State | Operations | Talks to |
|---|---|---|---|
| Route registry, `internal/routes/registry.go` | `order` and `byID` under `mu`, an RWMutex | `Add`, `Delete`, `ActivateCheckpoint`, `StopAll`, `List`, `Get`, `Match` | runs tailscale and writes the recovery file with the lock held |
| Recovery file, `recovery.go` | one JSON file | `Read`, `Write`, `Delete`, `Exists` | written by the registry; removed by the dismiss handler and by `main`, without a lock |
| Mount paths, `path.go` | none | `NormalizePath`, `PathsOverlap`, `InternalPrefix` | `Add`, `Match`, restore |
| Funnel CLI, `internal/funnel` | the mounts tailscaled serves; they outlive the process | `StartPath`, `StopPath` | external command, no timeout |
| Request store, `internal/store` | a bounded list of entries and the last id | `Add`, `FinalizeBody`, `UpdateProxy`, `Get`, `ListAfter`, `Clear` | written by the intercept handler, read by the API |
| Intercept handler, `internal/intercept` | one context per request, a reader that captures its body | `ServeHTTP` and the callbacks of `httputil.ReverseProxy` | `Match`, the store, upstreams |
| API server, `internal/api/api.go` | none of its own | 9 handlers | registry, recovery file, store |
| Browser UI, `internal/api/ui/app.js` | the rows of the list, `knownIds`, `newestId`, `filterRouteId`, the selection and its detail, the dialogs | a timer that polls, clear, filter, select, routes, recovery | polls the API |
| Lifecycle, `cmd/funneltap` | the main goroutine | boot, wait for a signal, `StopAll`, remove the file, exit | everything |
| Configuration and targets, `internal/config` | none | `Load`, `ParseTarget`, `FormatTarget` | `Add`, restore, boot |
| Test streaming backend, `scripts/` | none | a server for trying streams by hand | no part of the program |

What is hard about it:

* **Concurrency.** API handlers run concurrently. The lock serializes the
  registry, but a restore takes it once per route, and the dismiss handler and
  the shutdown work on the same file without it. A request is served by two
  goroutines that share the captured body. The page has one thread that gives
  way at every `await`.
* **Failure.** A tailscale command or a write may fail in the middle of an add,
  a delete, a restore or a rollback. The process may die anywhere, which leaves
  mounts and a file to the next one.
* **Ordering.** Three callbacks overwrite the record of one request. Answers to
  overlapping polls are applied in the order in which they arrive.
* **Boundaries.** Eviction from the store, the limit on bodies, mount paths at
  the edges ("/", several slashes, one path that begins with another), and
  targets with an IPv6 address, without a host or without a port.

What makes each part correct:

* Registry: no two routes conflict, map and list agree, mounts and file are those
  of the table between two calls, a failed restore leaves nothing, and readers
  see whole routes come and go.
* Recovery: what is left on disk has no conflicts, a restore adds what it read as
  converting it again leaves it or fails for that, and what it adds is what the
  user was shown.
* Paths, targets: one route per request, its own; what is kept of a target is
  read back as the same origin.
* Store: ids in order, bounded, nothing returns; polls are exact.
* Intercept: bodies bounded and whole, the record tells what the client got, and
  late amendments reach their own entry.
* UI: the list agrees with its indexes, misses nothing and settles, and what is
  selected is listed.

## Modules

| Module | What it is | Uses |
|---|---|---|
| `Registry` | routes, checkpoint file, mounts, API calls that change them, life of the process | |
| `RouteTable` | abstract: what readers of the registry see | |
| `RecoveryPage` | the recovery prompt of the page over the registry | `Registry`, `Sublists` |
| `RegistryProofs` | theorems about `Registry`, whatever fails | `Registry`, `SequenceFacts` |
| `RegistryFaultProofs` | theorems about `Registry` that depend on what may fail | `RegistryProofs` |
| `RecoveryPageProofs` | theorems about restores and about `RecoveryPage` | `RecoveryPage`, `RegistryFaultProofs` |
| `Store` | the request store | `Sublists` |
| `RequestLog` | abstract: a set of recorded requests, some of them kept | |
| `StoreProofs` | theorems about `Store` | `Store`, `SequenceFacts` |
| `Intercept` | a request from its arrival to what is recorded of it | `Store` |
| `InterceptProofs` | theorems about `Intercept` | `Intercept`, `StoreProofs` |
| `Routing` | mount paths and `Match`, on strings | |
| `Targets` | targets on strings, and restores of paths and targets | `Routing` |
| `RoutingProofs` | theorems about both | `Targets`, `SequenceFacts` |
| `RequestList` | the list and the detail of the UI over the API they poll and the store | `Store`, `Sublists` |
| `RequestListProofs` | theorems about `RequestList` | `RequestList`, `StoreProofs`, `SequenceFacts` |
| `Sublists` | the elements of a sequence that pass a test, in their order | |
| `SequenceFacts` | lemmas on sequences, sublists, prefixes and sets of numbers | `Sublists` |
| `MC*` | instances for TLC: model values, sets, symmetry | |

Beside some definitions stands a *faulty variant*, named so in its comment and
used by no specification. It is the same operation with a plausible bug; put in
the place of the real one it must break the property it is listed with, which
shows that the property watches that code.

### Registry

One step is what happens between two points where something else can happen:
taking the lock, one run of tailscale, one system call on the file.

| Variable | Code |
|---|---|
| `order`, `byID` | `Registry.order`; `Registry.byID` as the set of its values |
| `mu` | the writer that holds `Registry.mu` (a set with at most one handler) |
| `mounts` | per path: off, live (started by this process) or stale (by a dead one) |
| `file` | absent, empty (truncated), garbled (part of a write) or full, with its checkpoints |
| `call` | per handler goroutine: the API call, its next step, what it has done and has left to do |
| `main` | the main goroutine, with the snapshot of `StopAll` |

* `AddCall`, `DeleteCall`, `RestoreCall`, `DismissCall`: a request arrives at a
  handler of `api.go`. `RestoreCall` reads the file and converts all of it
  (`RestoreFromCheckpoint`), and is refused as a whole when one route of it cannot
  be converted; `AddCall` may be refused for its input before it reaches the
  registry. `POST /routes` is run as a restore of one route that is not converted
  beforehand: both go through `Add`, and only a longer list can roll back.
* `AddRefuse`, `AddLock`, `AddStart`, `SaveOpen`, `SaveWrite`, `AddUndo`: `Registry.Add` (78-126)
  with the two system calls of `os.WriteFile` and the undo of a failed save.
* `DeleteLock`, `DeleteStop`, then the same save: `Registry.Delete` (128-152), also
  for the deletes of a rollback (202-204).
* `Signal`, `Snapshot`, `StopNext`, `RemoveFile`, `Exit`: `main.go` 73-86 with
  `StopAll`. The handlers go on meanwhile: the servers are closed last.
* `Crash` and `Boot`: the process dies at any point and starts again. The file
  and the mounts survive, and live mounts become stale.

Which steps may fail (`Faults`) and which calls are made (`Ops`) are parameters,
so that each run asks one question. Paths and targets are model values. What is
typed and what is kept differ by the conversions `NormalizePath` and `ParseTarget`,
which are parameters: partial functions, so that they may refuse a value, and
not idempotent, so that a value that is converted again may change once more or
be refused then. `Add` converts what it is given and so does a restore before it,
which is why a restored route has been converted twice more. Which kept paths
conflict is the parameter `Overlap`. The instances take the values from the code:
"/api//" is kept as "/api/", and that is restored as "/api"; "/x" is kept as
"http://", which cannot be restored. What the conversions and the relation are on
strings is the subject of `Routing` and `Targets`.

`RouteTable` is the abstract specification: a set of routes without conflicts
from which whole routes appear and disappear one at a time, and all at once
when the process ends. The refinement maps it to the routes that are not hidden
behind the lock by an unfinished save: a reader never sees a route whose save
then fails.

### RecoveryPage

The page of `init` and `checkRecovery` (`app.js`), which is the registry's only
client here. `page` is what it waits for, `preview` the routes its dialog lists.
`handleRecoveryGet` is two steps, `ServeExists` and `ServePreview`, since it looks for
the file and reads it without a lock; the second converts what it lists, and
there is no prompt when that fails. `PressRestore`, `PressDismiss` and
`ChangeRoutes` are calls of `Registry` that the page makes in the states in which it
has the button; `Escape`, `Answer`, `NoAnswer` and `LoadFails` are what becomes of
them. `Background` is every step the server takes by itself, crashes and restarts
included: the page outlives the process.

### Store and RequestLog

Every operation holds the lock from start to end and is one action. What an
entry keeps of a request when it arrives never changes and is one value, its
tag. `RequestLog` promises: ids are given once and in order, late amendments
reach the request they name or nothing, and what is dropped stays dropped.

### Intercept

A request has two goroutines. The *handler* runs `ServeHTTP`: `Arrive` (with
`Classify`), `RefuseAdd` and `Refuse` (413 for an announced length), `RecordAdd`, `Mark`
(streaming), then the reverse proxy, which calls `modifyResponse` (`Respond`) or
`errorHandler` (`TooLarge`, `Fail`, `ErrorBody`), copies the response (`CopyEnd`,
`CopyAbort`), and `Finish` (`FinalizeBody` or `finishStream`). The *writer* is the
transport's: `ReadChunk` and `StoreChunk` are the two halves of
`captureReader.Read`, and it may still run when the round trip is over. The
bytes that `capture.bytes()` returns in the middle of a `Write` to the buffer are
chosen among the outcomes of that race (`Bytes`). `CopyAbort` is the panic with
`http.ErrAbortHandler` by which the reverse proxy ends a response it cannot copy.
Of a body only the length counts. A `Read` takes any part of what is left, so that
a chunk may begin below the limit and end above it. A request may ask for an
upgrade without being classified as a websocket; when the upstream answers it
with 101 and the upgrade fails, `errorHandler` runs after `modifyResponse`, and both
write the record of an inspected request.

### Routing and Targets

Paths are sequences of characters, so that `NormalizePath`, `PathsOverlap`,
`InternalPrefix` and `Match` do what they do in the code. The state is a table built
by `Add` and `Delete`; `Targets` adds `Restore`, which normalizes every path twice
more, and the target of the route that was added last.

`ParseTarget` and `FormatTarget` are operators on strings as well, and so is what
they use of `net`, `net/netip` and `net/url` (marked external): where a host is split
from its port, what an IPv6 address is, and what a URL may not contain. One
symbol stands for either scheme, one for "localhost", one for a digit and one
for a letter, as far as the code tells them apart.

### RequestList

The server side is the store, whether each route is new, up or gone, and the
two steps of `handleList` (the store, then `filterActiveRoutes`) and of `handleGet`
(the store, then the registry). On the page, `rows`, `knownIds`, `newestId`, `filter` and
`selected` are the variables of `app.js`, `detail` is what the detail pane shows, and
a *task* is one chain of awaits: a poll with the refresh behind it, a clear, a
load of the routes, or a load of the detail. The code between two awaits is one
action, because the page has one thread. Answers arrive in any order, and with
`Lossy` a fetch may fail. A row is `open` while it is marked as streaming or has
no status, which is when `refreshActive` looks at it again.

## What the runs show

Bounds are in the `.cfg` files. Counters are bounded in the guards: `MaxID` (how
many requests are recorded), `MaxSize` (the length of a body), `MaxLen` and `MaxRoutes`
(strings and tables), `Task` (what is under way on the page at a time).

| Run | Instance | Shows |
|---|---|---|
| `registry_funnel_faults` | 2 handlers, 5 paths, of which three conflict with others and two change when they are converted, 4 ids; starts and stops of mounts may fail; all calls, crashes, shutdown; 1.0 million states | no conflicting routes, mounts are those of the routes, the checkpoint is exact and its routes do not conflict as stored |
| `registry_file_faults` | 2 handlers, 3 paths of which two conflict with the third, a target and one that `Add` refuses, 4 ids; opens, writes and removals of the file may fail; 665,000 | map and list agree and mounts match, the undo of a failed save included; a checkpoint that can be read covers the table, a failed restore leaves none of its routes, readers see the abstract `RouteTable` |
| `registry_recovery` | `RecoveryPage`: 1 handler, 6 paths and 3 targets, which converting again changes, makes conflict or refuses, 2 ids; no failures but crashes; the page may be reloaded; 1.4 million | a restore plans what it read as converting it twice leaves it, keeps to that, saves it, and fails only for a route that does not convert or a conflict in the plan, whatever point the last process died at; when the list the user agreed to converts to itself, a restore that succeeds adds no route that is not in it |
| `registry_liveness` | 2 handlers, 2 paths, failing mounts, fair; 167,000 | every call is answered, a signal ends the process |
| `store` | 3 entries, 6 requests, two tags; 2,400 | ids consecutive, length bounded, polls exact, what is gone stays gone, `RequestLog` implemented |
| `intercept` | 2 connections, limit 1, bodies of up to 2 in chunks of any length, 2 entries, 3 requests; 3.9 million | no body over the limit in memory, bodies whole, outcome and stream flag true, late amendments reach their own entry |
| `routing` | `Targets`: paths of up to 4 characters over "/", "a", blank; 3 routes; targets of up to 4 characters, with a scheme or without, IPv6 forms and every format `README.md` lists; restores; 9,000 | each request that has a mount and a slash before it goes to one route, its own, with the rest of its path; documented targets are kept as documented; what is kept is restored as the same origin |
| `request_list` | 2 routes, 2 tasks, 2 requests, filters, clears and changes of routes, lost fetches; 993,000 | no duplicate rows, known ids and newest id true to the rows, only rows that pass the filter |
| `request_selection` | the same with selections and their detail, 1 request; 367,000 | a selected request is in the list, with its route |
| `request_list_live` | 1 route, clears and reloads, fair; 80,000 | no request below the newest is missed, every kept request appears, rows settle |
| `intercept_tunnel_error` | violation | see *Divergences* |
| `routing_targets` | violation | see *Divergences* |

Why the bounds are enough: a conflict, a rollback and a dismiss in the middle
of a write need two calls at a time, and a rollback that undoes something needs
a restore of two routes, so two handlers and three paths reach every pair of
operations in every order; the theorems below take over for larger instances.
The two further paths of `registry_funnel_faults` are "/api/" and "/api//", so that
what is typed, what is kept and what is restored are three different paths. In
`registry_recovery` two ids are enough for a restore that fails at its second
route and rolls back its first; "/api /" is there because it conflicts with
"/api" only when it has been converted twice, in the middle of a restore, and
"/x" because it is accepted once and refused from then on.
In `store`, 6 requests through 3 places evict, clear and evict again. In
`intercept`, a limit of 1 and bodies of up to 2 give a body below, at and above the
limit, the last in two chunks or in one that begins below the limit and ends
above it; with 2 entries and 3 requests the entry of a request under way is
evicted. `InterceptBodies.cfg`, which is run by hand, has one connection with a
limit of 2 and bodies of up to 4, where such a chunk also comes after one that was
kept (61,000 states). In `routing`, four characters are
enough for a mount, a slash, and one more segment, and for two trailing slashes;
for targets they are enough for a host, a colon and two more characters, with
the scheme, "localhost" and the IPv6 forms beside. A path and a target never meet
in the code, so that only one of them varies at a time (`Forms`). In
`request_selection` one request is enough for the property: a row and a selection
either are of the same request or of none, and routes, filters, clears and
reloads are all there.
Handlers, ids, connections, routes and tasks are interchangeable, which the
symmetry of the larger safety runs uses; the runs with liveness use none.

Deadlock is checked in every run. Each property of a passing run has a mutant
in `PROJECT.json` that breaks it under that run's configuration.

### Fairness

* `Registry`: a goroutine that can run does, commands and system calls return
  (weak fairness on each handler's steps and on the shutdown), and
  `sync.RWMutex` starves no one: the Go documentation says that a blocked `Lock`
  keeps new readers out, and its mutex hands itself over to a waiter that has
  waited too long (strong fairness on taking the lock and on the snapshot of
  `StopAll`). That a tailscale command returns is an assumption about an external
  program: the code sets no timeout.
* `RequestList`: the timer fires (`setInterval`), the server answers, and the page
  runs the continuation of an answer (weak fairness on each). No gesture of the
  user is fair, nor is any event on the server.
* `Intercept`, `Routing`, `Targets` and `RecoveryPage` state safety only and assume no
  fairness.

## What is proved

TLAPS checks these for every value of the constants, under the assumptions
named in the modules: the conflict relation is reflexive and symmetric, what
the conversions accept they map to paths and targets (any of them, so that
nothing is taken to be stable), the limits are at least 1 as `config.Load`
demands, a path may have a character at least, "/" is one of the alphabet, and the
set of connections is finite. Every invariant and every action property of the runs has a theorem, and
so has each of the two refinements; where one holds under a further condition
only, the theorem assumes it by name.

`RegistryProofs`, for any number of handlers, paths, failures and crashes:
`TypeCorrect`, `NoConflicts` (`RoutesDisjoint`), `IndexCorrect` (`IndexAgrees`),
`CheckpointsDisjoint` (`CheckpointDisjoint`) and `RefinesRouteTable`, the refinement
(`ImplementsRouteTable`). None of these is inductive. The invariant `Inv` adds
`LockDiscipline` (the lock is held by exactly the handlers between `AddLock` or
`DeleteLock` and the end of their save, and by one at most) and `CallShape` (what
a call at each of its steps still has to do: a handler about to start a mount
has a path that conflicts with nothing in the table, one about to delete names a
route that is there, one that is saving has something to undo). The argument:
while a handler is between its check and its insertion no other has the lock,
so the check still holds; the undo of a failed save removes the last element of
the list and the same element of the map, because nobody else appended since; a
removal keeps the rest in order; and what is written to the file is the table,
which has no conflicts as it is stored. That does not make a restore succeed,
which converts the routes again. `FileShape` and `MainShape` are what reading the file and
the shutdown need. There is one lemma per action, and lemmas for what an
insertion and a removal do to the table. For the refinement each step is shown
to publish a route, to withdraw one, to end the process or to change nothing a
reader sees: an insertion is published by the write that saves it and by nothing
before, and the undo of an insertion that was never published is a stutter.

`RegistryFaultProofs` asks what holds under which failures:

* `MountsMatch` (`MountsMatchRoutes`) when the checkpoint can be written or mounts can
  be stopped. `Served` says it also in the middle of a call: a mount is started in
  the step that inserts its route, and taken down in the one that removes it. Only
  the undo of a failed save ignores whether its stop succeeded, and so the
  assumption: with both failures in one call the mount stays, and the theorem
  would be false.
* `CheckpointsExact` (`CheckpointExact`) when the checkpoint can be written. `FileCurrent`
  lets the file differ from the table only while some handler saves.
* `FailedRestoresLeaveNothing` (`RestoreAllOrNothing`) when mounts can be stopped, by
  `RolledBack`: what a failed restore has added is gone or is still to be deleted by
  its rollback, although the lock is free between two deletes.
* `ReadableCheckpointsComplete` (`ReadableCheckpointComplete`) whatever fails, by
  `Covered`: only the route of a save that has not ended may be missing from a file
  that can be read.

`RecoveryPageProofs`, for any paths and files, any crashes and reloads of the
page: `PageTypeCorrect` (`PageTypeOK`) for any number of handlers and failures, and,
when there is one call at a time (`Alone`) and no command fails (`NoFaults`),
`RestoresExact` (`RestoreIsExact`) and `RestoresAsPreviewed` (`RestoreAsPreviewed`). Both
conditions are needed: another client may add a route between two adds of a
restore, or replace the file between the preview and the click, and a command
that fails ends the restore. The run `registry_recovery` is an instance of
them. `RestoresExact` says which routes a restore plans (`Planned`: those in the table
and those still to be added, as `Add` will keep them): those of the file,
converted twice. `OneInv` adds to the invariant of the registry that a restore that
failed is rolled back, and that nobody removes the file between the truncation
and the write. One lemma per step shows that the plan stays what it is while
routes go from what is to be added into the table (`PlanStep`), and that a step
that gives up meets a route that does not convert or one that conflicts with the
plan (`ClashInPlan`). It is no claim that a restore succeeds: "/a/" beside "/a/b",
and a target kept as "http://", are in a file that `Add` accepted and make the
restore fail, as the divergences below have it.

`RestoresAsPreviewed` is about what is activated, and says that it is a subset of
the list of the dialog, provided that converting that list once more changes
nothing (`Settled`): what `RestoreFromCheckpoint` shows `Add` converts again, so for a
mount that ends in a slash the two may differ. `PageInv` adds to `OneInv` what the
page knows of the server (`Waits`), and that from the preview to the end of the
restore the file, the table and the calls have only routes of the list (`Within`).
That not all of them come back is what a crash in the middle of an earlier
restore does, and why the property says no more.

`StoreProofs`, for any length of the list and any number of requests:
`TypeCorrect`, `NeverTooLong` (`Bounded`), `AlwaysContiguous` (`Contiguous`), `PollsExact`
(`PollExact`), `NothingReturns` (`GoneIsGone`) and `ListImplementsLog`
(`ImplementsRequestLog`), the refinement. The inductive invariant is the
conjunction of type, contiguity and length. From contiguity follow which ids are
held (`HeldIds`) and that an id has one position (`PositionOfId`), so that the loops of
`FinalizeBody` and `UpdateProxy` are updates of a function from ids to records
(`LogIsList`), and that the trim drops the ids the log drops (`AddRecords`). What a
poll returns is described by counting rather than by recursion: its k-th element
is the one whose place is the k-th of those that pass (`Nth`, in `Sublists`). That
there is such a place for each k, and that they come in order, is `Ranks`; what
follows for the elements are `SublistElements` and `SublistEnds`.

`InterceptProofs`, for any number of connections, limit, body size and store:
`TypeCorrect`, `BodiesBounded` (`CaptureBounded`), `BodiesExact`, `StatusesAgree`,
`StreamFlagsExact` and `OwnEntriesAmended` (`AmendsOwnEntry`). The inductive invariant
`IInv` starts from that of the store, whose lemmas say what an added and an amended
entry do to the list. To it come `Own`, what the step a request is at says of
what it has answered; `Capture`, that what is captured trails what is
read only between the two halves of a read, and that neither is beyond the limit
unless the reader has stopped, whatever the lengths of the chunks and wherever
the handler is meanwhile;
`Recorded`, that the entry with a request's id is its own and shows what is due at
its step; and `Room`, that the bound on ids leaves one for each request that has
none yet. An action changes one request and one entry at most: `StayStep`,
`AddingStep` and `AmendingStep` say once what follows for the others.

`RoutingProofs`, about paths, for any alphabet, length of paths and number of
routes: `PathsTyped` (`TypeOK`), `OneRoute` (`MatchIsUnique`) and `MountsServed`
(`RoutesServeTheirMounts`), with restores among the steps. The inductive invariant
is that mounts begin with a slash and do not overlap. Prefixes are compared
symbol by symbol (`UnderPoints`). Two prefixes of a request that have the same
length are those of one mount (`SamePrefix`), hence the best is unique; a longer
one goes on with a slash where the shorter ends, which makes the mounts overlap,
unless the shorter is "/" (`NoneLonger`). `MountsServed` is about requests for the
mount and for what has the mount and a further slash before it (`Below`). For a
mount that is kept with a slash at its end these are not all the requests below
it: the others get a 404, as the divergences below have it.

`RoutingProofs`, about targets, for any alphabet and length of what is typed:
`OriginsComeBack` (`TargetsReturn`) and `FormatsKept` (`DocumentedTargets`). What
`ParseTarget` accepts is an `Origin`: a host name without blanks and slashes, in which
a bracket comes with a colon (`QuotedHost`: what was in brackets is an IPv6
address), and a port of digits (`TargetIsOrigin`). Such an origin, formatted and
parsed again, has the same host and port (`OriginReturns`): a plain name and a port
are parted at the last colon (`NameAndPort`, `PlainHostAndPort`), and the brackets that
`JoinHostPort` puts around an address are taken off by the parser
(`AddressAndPort`). Since `FormatTarget` looks at nothing else, what is kept is kept
from then on (`KeptReturns`), which makes `TargetInv` inductive: the target is the one
kept of what was typed. `Returns` leaves out two origins for which the
statement would be false: a missing host without a port, the divergence of
`TargetsRestorable` below, and an IPv6 address without a port. The functions of the Go library are those that
`Targets` describes; the theorems say what follows from them.

`RequestListProofs`, for any set of routes, number of tasks, store and number of
requests: `ListTypeCorrect` (`TypeOK`), `RowsAgree` (`ListConsistent`), `RowsFiltered`
(`RowsPassFilter`) and `SelectionHasRow` (`SelectionListed`), whatever the user does and
whichever fetches fail, and `NoneMissed` (`NothingMissed`). `ListInv` joins the
invariant of the store, taken from `StoreProofs` by instantiation, with the types of
the page and `TasksOK`, that an answer under way has a request at most once:
without it the first answer to a full listing could make two rows.
`SelectionInv` adds that only a reload keeps a selection without a row. `MissedInv` is
about requests that no poll will ask for again, because they are older than the
newest row or than what a poll under way asks after (`Overtaken`): each has a row, or
a full listing is under way that will bring it (`NothingLost`). `NoGaps` says that an
answer has all there is between what it was asked after and its newest request,
and `Answers` that a new request is younger than all that was ever asked
for. `NoneMissed` assumes that the filter is left alone (`FilterLeftAlone`) and that no
fetch fails (`NoLoss`). Otherwise it would be false: the answer to a poll with
an earlier filter is the last of the divergences below, and when the listing of
a reload is lost, the answer to a poll from before the reload moves `newestId`
past requests that are no longer listed.

Only model-checked is what must eventually happen: `CallsReturn`, `ShutdownCompletes`,
`RequestsAppear` and `RowsSettle`. Liveness under fairness is out of TLAPS's reach.
The properties of the divergences are violated and have no theorem.

## Divergences

Places where a document of the repository says one thing and the code does
another. Each has a property that states the document, at the end of its
module, and a configuration under which TLC finds it violated. The first two are
runs of the project and findings in `PROJECT.json`; the other configurations are
run by hand:

| Document | Code | Property, configuration |
|---|---|---|
| `README.md:57`: requests appear with their proxy status | When a tunnelled request fails, `finishStream` overwrites the recorded 502 with 200 and drops the error (`handler.go:176-189`) | `TunnelStatusAgrees`, `InterceptTunnelError` |
| `README.md:109`, `docs/plan-routes.md:281`: a prompt follows a crash, and Recover loads the routes | The URL "http://:" passes the check for a host, which is ":" (`target.go:23`), and is kept as "http://", which has none and which a restore refuses; so is "/a", which is not checked (`target.go:52`). One such route makes the whole checkpoint unreadable | `TargetsRestorable`, `RoutingTargets` |
| `docs/plan-routes.md:263-267`: the file is deleted on shutdown, on Dismiss, with the last route | A restore that fails rolls back with `Delete`, whose last save removes the file (`registry.go:202-204`, `recovery.go:44-46`): after the error there is nothing left to restore | `FailedRestoreKeepsFile`, `RegistryFailedRestore` |
| `docs/plan-routes.md:271`: the prompt is shown only on startup | The file exists whenever there are routes, and every load of the page asks (`api.go:161`) | `PromptOnlyOnStartup`, `RegistryPrompt` |
| `docs/plan-proxy-streaming.md:265`: an open detail is reloaded once when its stream ends | A reload of the list that keeps the selection may build the row after the end: the detail goes on saying that it streams (`app.js:514`) | `DetailSettles`, `RequestDetail` |
| `README.md:97`: `DELETE /requests` clears all requests | The answer to a poll from before the clear fills the emptied list again (`app.js:408-421`) | `ClearedStayCleared`, `RequestListClear` |
| `README.md:109`: routes are checkpointed; a prompt follows a crash | Dismiss removes the file while routes are active (`api.go:199-205`) | `CheckpointCoversRoutes`, `RegistryDismissLive` |
| `docs/plan-routes.md:281`: Recover loads the routes; the file is updated on subsequent adds and deletes | Each add of a restore saves the table so far; a crash in between loses the routes that are not restored yet (`registry.go:199-200`) | `RestoreKeepsRest`, `RegistryPartialRestore` |
| `README.md:59`: on Ctrl+C mounts are torn down and the file is removed | Calls are served until the end: an add after the snapshot of `StopAll` leaves a mount, one that saves after the removal leaves a file (`main.go:78-85`) | `CleanShutdown`, `RegistryShutdown` |
| `docs/plan-routes.md:279`: after a crash the checkpoint is present | The file is truncated before it is written (`recovery.go:51`): a crash in between leaves nothing to restore | `CrashKeepsRoutes`, `RegistryTornWrite` |
| `docs/plan-proxy-streaming.md:386`: `streaming` is false after close | When the copy of a response is aborted the proxy panics and `finishStream` does not run (`handler.go:110-117`) | `ClosedStreamsAreClosed`, `InterceptAbortedStream` |
| `docs/plan-proxy-streaming.md:125`: 413 before anything is forwarded | A body of unknown length is found too large after its first chunks were sent (`handler.go:206-218`) | `TooLargeNotForwarded`, `InterceptTooLarge` |
| `docs/plan-proxy-streaming.md:216`: the body is stored when the request side completes | It is stored when the proxy returns, and not at all when it panics (`handler.go:112-114`) | `CompletedBodyKept`, `InterceptAbortedBody` |
| `docs/plan-routes.md:128`: no overlaps, the match is unambiguous | "/" conflicts with no other path (`path.go:28`) | `MatchIsUnambiguous`, `RoutingRoot` |
| `docs/plan-routes.md:81`: trailing slashes are normalized | One slash is removed at a time: a mount typed with two changes again when it is restored (`path.go:17-19`) | `TableSurvivesRestore`, `RoutingSlashes` |
| `docs/plan-routes.md:81`: "/hooks" and "/hooks/" are equivalent | A mount typed with two slashes is kept with one, and `Match` asks for a further slash behind it: what is asked below "/hooks/" gets a 404 (`registry.go:224`) | `SlashMountsServe`, `RoutingMounts` |
| `README.md:57`: requests appear in the list | The answer to a poll with an earlier filter moves `newestId` past requests of other routes (`app.js:399-424`) | `NothingMissed`, `RequestListFilter` |

With two failures in one call more goes wrong, by design of the code: when the
save of an add fails and then the stop of its mount, the mount stays without a
route, which is why mounts and files fail in separate runs and why the theorems
of `RegistryFaultProofs` have assumptions.

## What is not modelled

* `config.Load`: it checks one number after the other, keeps no state, and what it
  guarantees are the assumptions of `Store` and `Intercept`.
* The argument lists of the tailscale command, the lookup of its binary, the
  public URL and `BuildUpstreamURL`, JSON, logging and rendering: conversions no
  property is about.
* The tokens of the headers that `Classify` looks at; what it decides from them is
  in `Intercept`.
* Fields of an entry that `handleGet` reads while a callback writes them: the model
  has the two steps of the handler, and reads an entry at once.
* Time: durations and timestamps. Ports and listeners, and what happens when
  another program has the port.
* More than one process on one recovery file, and more than one page on one
  process in `RecoveryPage` (`Registry` has calls of several clients).
* In `Registry` paths and targets are values with their conversions, and in
  `Intercept` bodies are lengths.
* What a restore makes of an IPv6 address without a port, which loses its
  brackets when it is kept (`target.go:63`) and may be read as another host
  (`Returns` leaves it out).
* The test streaming backend and the style sheets.

## Plan

The order was the registry with the file, the mounts and the process; the store;
the intercept handler over the store; mount paths; the list of the UI over the
API and the store; the theorems about the registry and the store; the recovery
page over the registry; the selection and the detail; targets; the theorems
about failures, the intercept handler and routing; and those about the
refinement of `RouteTable`, recovery, polls, the list and targets.

What is left, most useful first:

1. Weaker conditions for the theorems about recovery: with failing commands
   `RestoresAsPreviewed` asks what a restore that succeeds after a failed one adds.
2. A composition of `Registry` and `Intercept` over `Match`: a request whose route
   is deleted or replaced while it is forwarded keeps the target it matched.
