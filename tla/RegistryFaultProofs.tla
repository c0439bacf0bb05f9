------------------------- MODULE RegistryFaultProofs -------------------------
(***************************************************************************)
(* Theorems about Registry that depend on which of its steps may fail, for *)
(* every instance otherwise.                                               *)
(***************************************************************************)
EXTENDS RegistryProofs

\* The checkpoint can be written, so that no add is undone.
Writable == "open" \notin Faults /\ "write" \notin Faults

\* Mounts can be stopped.
Stoppable == "stop" \notin Faults

-----------------------------------------------------------------------------
(***************************************************************************)
(* What a step of a handler does to the calls.                             *)
(***************************************************************************)

\* A call arrives, is refused or its reply leaves: its handler has no step to
\* take under the lock, before or after.
LEMMA ArriveCalls ==
  ASSUME Inv, NEW h \in Handler, Arrive(h) \/ Reply(h) \/ AddRefuse(h)
  PROVE  /\ UNCHANGED <<order, mounts, main>> /\ file' \in {file, NoFile}
         /\ \A g \in Handler : g # h => call'[g] = call[g]
         /\ call[h].pc \notin Critical /\ call'[h].pc \notin Critical
<1>1. call \in [Handler -> Call]
  BY DEF Inv, TypeOK
<1>2. CASE AddCall(h)
  BY <1>1, <1>2 DEF AddCall, Accepts, Idle, Critical
<1>3. CASE DeleteCall(h)
  BY <1>1, <1>3 DEF DeleteCall, Accepts, Idle, Critical
<1>4. CASE RestoreCall(h)
  BY <1>1, <1>4 DEF RestoreCall, Accepts, Idle, Critical
<1>5. CASE DismissCall(h)
  BY <1>1, <1>5 DEF DismissCall, Accepts, Idle, Critical
<1>6. CASE Reply(h)
  BY <1>1, <1>6 DEF Reply, Idle, Critical
<1>7. CASE AddRefuse(h)
  BY <1>1, <1>7, FailAddRests DEF AddRefuse, Inv, Resting, Critical
<1> QED  BY <1>2, <1>3, <1>4, <1>5, <1>6, <1>7 DEF Arrive

\* A handler asks for the lock: it works under it next, or is refused.
LEMMA AcquireCalls ==
  ASSUME Inv, NEW h \in Handler, Acquire(h)
  PROVE  /\ UNCHANGED <<order, mounts, main, file>>
         /\ \A g \in Handler : g # h => call'[g] = call[g]
         /\ call[h].pc \notin Critical
         /\ call'[h].pc \notin Critical \/ call'[h].pc \in {"start", "stop"}
<1>1. call \in [Handler -> Call] /\ call[h].pc \notin Critical
  BY DEF Inv, TypeOK, Acquire, AddLock, DeleteLock, Critical
<1>2. UNCHANGED <<order, mounts, main, file>>
  BY DEF Acquire, AddLock, DeleteLock
<1>3. CASE AddLock(h) /\ FailAdd(h)
  BY <1>1, <1>2, <1>3, FailAddRests DEF Inv, Resting
<1>4. CASE \/ GoTo(h, "stop")
           \/ \E todo : call' = [call EXCEPT ![h].pc = "start", ![h].todo = todo]
  BY <1>1, <1>2, <1>4 DEF GoTo, Call
<1>5. CASE DeleteLock(h) /\ FinishDelete(h, FALSE)
  <2>1. call[h].todo = <<>> /\ call[h].left # <<>>
    BY <1>5 DEF DeleteLock, Inv, CallShape, ShapeOf
  <2> QED  BY <1>1, <1>2, <1>5, <2>1, FinishDeleteRests DEF Inv, Resting
<1> QED  BY <1>3, <1>4, <1>5 DEF Acquire, AddLock, DeleteLock

\* A mount is started or stopped, and its route enters or leaves the table.
LEMMA MountCalls ==
  ASSUME Inv, NEW h \in Handler, AddStart(h) \/ AddUndo(h) \/ DeleteStop(h)
  PROVE  /\ UNCHANGED <<main, file>>
         /\ \A g \in Handler : g # h => call'[g] = call[g]
         /\ call[h].pc \in Critical
         /\ \/ call'[h].pc \notin Critical /\ (order' = order \/ call[h].pc = "undo")
            \/ call'[h].pc = "save"
<1>1. call \in [Handler -> Call] /\ call[h].pc \in Critical
  BY DEF Inv, TypeOK, AddStart, AddUndo, DeleteStop, Critical
<1>2. UNCHANGED <<main, file>>
  BY DEF AddStart, AddUndo, DeleteStop
<1>3. CASE FailAdd(h) /\ (order' = order \/ call[h].pc = "undo")
  BY <1>1, <1>2, <1>3, FailAddRests DEF Inv, Resting
<1>4. CASE GoTo(h, "save")
  BY <1>1, <1>2, <1>4 DEF GoTo, Call
<1>5. CASE DeleteStop(h) /\ FinishDelete(h, FALSE) /\ order' = order
  <2>1. call[h].todo = <<>> /\ call[h].left # <<>>
    BY <1>5, Holder DEF DeleteStop, ShapeOf, Critical
  <2> QED  BY <1>1, <1>2, <1>5, <2>1, FinishDeleteRests DEF Inv, Resting
<1> QED  BY <1>3, <1>4, <1>5 DEF AddStart, AddUndo, DeleteStop

\* The checkpoint is opened or written, or that fails.
LEMMA SaveCalls ==
  ASSUME Inv, NEW h \in Handler, SaveOpen(h) \/ SaveWrite(h)
  PROVE  /\ UNCHANGED <<order, mounts, main>>
         /\ \A g \in Handler : g # h => call'[g] = call[g]
         /\ call[h].pc \in {"save", "write"}
         /\ \/ call'[h].pc = "write" /\ file' = Truncated
            \/ call'[h].pc = "undo" /\ ~Writable
            \/ /\ call'[h].pc \notin Critical
               /\ \/ order = <<>> \/ ~Writable
                  \/ file' \in {NoFile, Saved(Cps(order))}
<1>1. /\ call \in [Handler -> Call] /\ UNCHANGED <<order, mounts, main>>
      /\ call[h].pc \in {"save", "write"}
  BY DEF Inv, TypeOK, SaveOpen, SaveWrite
<1>2. ShapeOf(call[h])
  BY <1>1, Holder DEF Critical
<1>3. CASE GoTo(h, "write") /\ file' = Truncated
  BY <1>1, <1>3 DEF GoTo, Call
<1>4. ASSUME SaveSucceeds(h) \/ SaveFails(h),
             \/ order = <<>> \/ ~Writable
             \/ SaveSucceeds(h) /\ file' \in {NoFile, Saved(Cps(order))}
      PROVE  /\ \A g \in Handler : g # h => call'[g] = call[g]
             /\ \/ call'[h].pc \notin Critical
                \/ call'[h].pc = "undo" /\ ~Writable
  <2>1. CASE Adding(h) /\ FinishAdd(h)
    BY <1>1, <1>2, <2>1, FinishAddRests DEF Inv, Resting, Adding, ShapeOf
  <2>2. CASE ~Adding(h) /\ \E ok \in BOOLEAN : FinishDelete(h, ok)
    BY <1>1, <1>2, <2>2, FinishDeleteRests DEF Inv, Resting, Adding, ShapeOf
  <2>3. CASE Adding(h) /\ GoTo(h, "undo") /\ SaveFails(h)
    <3>1. call'[h].pc = "undo" /\ \A g \in Handler : g # h => call'[g] = call[g]
      BY <1>1, <2>3 DEF GoTo, Call
    <3>2. order # <<>>
      BY <1>1, <1>2, <2>3 DEF ShapeOf, Adding
    <3>3. ~SaveSucceeds(h)
      <4>1. SaveSucceeds(h) => FinishAdd(h)
        BY <2>3 DEF SaveSucceeds
      <4>2. FinishAdd(h) => call'[h].pc \notin Critical
        BY <2>3, <3>2, FinishAddRests DEF Inv, Resting, Adding
      <4> QED  BY <3>1, <4>1, <4>2 DEF Critical
    <3> QED  BY <1>4, <3>1, <3>2, <3>3
  <2> QED  BY <1>4, <2>1, <2>2, <2>3 DEF SaveSucceeds, SaveFails
<1>5. CASE SaveOpen(h)
  BY <1>1, <1>3, <1>4, <1>5 DEF SaveOpen, Fails, Writable
<1>6. CASE SaveWrite(h)
  BY <1>1, <1>4, <1>6 DEF SaveWrite, Fails, Writable, Written
<1> QED  BY <1>5, <1>6

-----------------------------------------------------------------------------
(***************************************************************************)
(* The invariant.  An add is undone only when the checkpoint cannot be     *)
(* written; a process that is gone has no route, no call and no mount of   *)
(* its own; the mounts are those of the table; and the file is that of the *)
(* table except while it is being saved.                                   *)
(***************************************************************************)
NoUndo == Writable => \A h \in Handler : call[h].pc # "undo"

GoneIsIdle ==
  ~Up => /\ order = <<>>
         /\ \A p \in Path : mounts[p] # "live"
         /\ \A h \in Handler : call[h].pc = "idle"

Routed(p) == \E i \in DOMAIN order : order[i].path = p

Served ==
  main.pc \in {"run", "snap"} =>
    \A p \in Path : mounts[p] = "live" <=> Routed(p)

Saving == \E h \in Handler : call[h].pc \in {"save", "write"}

FileCurrent ==
  order # <<>> /\ ~Saving => file \in {NoFile, Saved(Cps(order))}

FaultInv ==
  /\ Inv /\ NoUndo /\ GoneIsIdle
  /\ Writable \/ Stoppable => Served
  /\ Writable => FileCurrent

\* The properties follow from it.
LEMMA ImpliedMounts == FaultInv /\ (Writable \/ Stoppable) => MountsMatchRoutes
<1> SUFFICES ASSUME FaultInv, Served, main.pc \in {"run", "snap"}
             PROVE  {p \in Path : mounts[p] = "live"} = {order[i].path : i \in DOMAIN order}
  BY DEF FaultInv, MountsMatchRoutes
<1>1. DOMAIN order = 1..Len(order) /\ \A i \in 1..Len(order) : order[i] \in Route
  BY ElementOfSeq, LenProperties DEF FaultInv, Inv, TypeOK
<1>2. \A i \in DOMAIN order : order[i].path \in Path
  BY <1>1, KeptWithin DEF Route
<1> QED  BY <1>2 DEF Served, Routed

\* No one saves while no one holds the lock.
LEMMA ImpliedFile == FaultInv /\ Writable => CheckpointExact
<1> SUFFICES ASSUME FaultInv, Writable, mu = {}, order # <<>>
             PROVE  file \in {NoFile, Saved(Cps(order))}
  BY DEF CheckpointExact
<1>1. ~Saving
  BY DEF FaultInv, Inv, LockDiscipline, Critical, Saving
<1> QED  BY <1>1 DEF FaultInv, FileCurrent

-----------------------------------------------------------------------------
(***************************************************************************)
(* The steps that change the mounts change the table with them.            *)
(***************************************************************************)

\* A mount is started and its route enters.
LEMMA StartServed ==
  ASSUME Inv, Served, NEW cp \in Kept, Enter(cp), StartPath(cp.path), UNCHANGED main
  PROVE  Served'
<1>1. PICK id \in RouteId :
        order' = Append(order, [id |-> id, path |-> cp.path, target |-> cp.target])
  BY DEF Enter
<1> DEFINE rt == [id |-> id, path |-> cp.path, target |-> cp.target]
<1>2. rt \in Route /\ rt.path = cp.path
  BY DEF Kept, Route
<1>3. order' = Append(order, rt) /\ order \in Seq(Route)
  BY <1>1 DEF Inv, TypeOK
<1> HIDE DEF rt
<1>4. /\ DOMAIN order' = 1..(Len(order) + 1) /\ Len(order) \in Nat
      /\ DOMAIN order = 1..Len(order)
      /\ \A i \in 1..Len(order) : order'[i] = order[i]
      /\ order'[Len(order) + 1] = rt
  BY <1>2, <1>3, AppendProperties, LenProperties
<1> DEFINE n == Len(order)
<1> HIDE DEF n
<1>5. /\ \A i \in 1..(n + 1) : i \in 1..n \/ i = n + 1
      /\ n + 1 \in 1..(n + 1) /\ \A i \in 1..n : i \in 1..(n + 1)
  BY <1>4 DEF n
<1>6. \A p : Routed(p)' <=> Routed(p) \/ p = cp.path
  BY <1>2, <1>4, <1>5 DEF Routed, n
<1>7. \A p \in Path : mounts'[p] = IF p = cp.path THEN "live" ELSE mounts[p]
  BY DEF StartPath, Inv, TypeOK
<1> QED  BY <1>6, <1>7 DEF Served

\* A mount is stopped and its route leaves.
LEMMA StopServed ==
  ASSUME Inv, Served, NEW i \in 1..Len(order), order' \in Seq(Route),
         Len(order') = Len(order) - 1,
         \A j \in 1..(Len(order) - 1) :
           order'[j] = IF j < i THEN order[j] ELSE order[j + 1],
         StopPath(order[i].path), UNCHANGED main
  PROVE  Served'
<1> DEFINE n == Len(order)
           from(j) == IF j < i THEN j ELSE j + 1
<1>1. n \in Nat /\ DOMAIN order = 1..n
  BY LenProperties DEF Inv, TypeOK
<1>2. DOMAIN order' = 1..(n - 1)
  BY LenProperties
<1>3. i \in 1..n /\ \A j \in 1..(n - 1) : order'[j] = order[from(j)]
  OBVIOUS
<1>4. \A j \in 1..n : order[j] \in Route
  BY <1>1, ElementOfSeq DEF Inv, TypeOK
<1> HIDE DEF n
<1>5. \A j \in 1..(n - 1) : from(j) \in 1..n /\ from(j) # i
  BY <1>1, <1>3
<1>6. \A m \in 1..n : m # i => \E j \in 1..(n - 1) : from(j) = m
  <2> SUFFICES ASSUME NEW m \in 1..n, m # i
               PROVE  \E j \in 1..(n - 1) : from(j) = m
    OBVIOUS
  <2>1. CASE m < i
    <3>1. m \in 1..(n - 1) /\ from(m) = m
      BY <2>1, <1>1, <1>3
    <3> QED  BY <3>1
  <2>2. CASE m > i
    <3>1. m - 1 \in 1..(n - 1) /\ from(m - 1) = m
      BY <2>2, <1>1, <1>3
    <3> QED  BY <3>1
  <2> QED  BY <1>1, <1>3, <2>1, <2>2
<1> HIDE DEF from
<1>7. \A m \in 1..n : m # i => order[m].path # order[i].path
  BY <1>1, <1>3, <1>4, KeptWithin, OverlapAssumption DEF Inv, RoutesDisjoint, Route
<1>8. \A p : Routed(p)' <=> Routed(p) /\ p # order[i].path
  <2> TAKE p
  <2>1. Routed(p)' => Routed(p) /\ p # order[i].path
    BY <1>1, <1>2, <1>3, <1>5, <1>7 DEF Routed
  <2>2. ASSUME Routed(p), p # order[i].path
        PROVE  Routed(p)'
    <3>1. PICK m \in 1..n : order[m].path = p /\ m # i
      BY <1>1, <2>2 DEF Routed
    <3>2. PICK j \in 1..(n - 1) : from(j) = m
      BY <1>6, <3>1
    <3> QED  BY <1>2, <1>3, <3>1, <3>2 DEF Routed
  <2> QED  BY <2>1, <2>2
<1>9. \A p \in Path : mounts'[p] = IF p = order[i].path THEN "off" ELSE mounts[p]
  BY DEF StopPath, Inv, TypeOK
<1> QED  BY <1>8, <1>9 DEF Served

\* A step of a handler that works on a mount keeps them together, if an add
\* that is undone stops its mount.
LEMMA MountServed ==
  ASSUME FaultInv, Writable \/ Stoppable, NEW h \in Handler,
         AddStart(h) \/ AddUndo(h) \/ DeleteStop(h)
  PROVE  Served'
<1>1. Inv /\ Served /\ UNCHANGED main /\ order \in Seq(Route)
  BY MountCalls DEF FaultInv, Inv, TypeOK
<1>2. CASE UNCHANGED <<order, mounts>>
  BY <1>1, <1>2 DEF Served, Routed
<1>3. CASE AddStart(h) /\ Enter(Head(call[h].todo)) /\ StartPath(Head(call[h].todo).path)
  <2>1. Head(call[h].todo) \in Kept
    BY <1>1, <1>3, Holder DEF AddStart, ShapeOf, Critical
  <2> QED  BY <1>1, <1>3, <2>1, StartServed
<1>4. CASE AddUndo(h)
  <2>1. StopPath(Last(order).path) /\ order' = Front(order)
    BY <1>4 DEF AddUndo, Fails, FaultInv, NoUndo, Stoppable
  <2>2. order # <<>>
    BY <1>1, <1>4, Holder DEF AddUndo, ShapeOf, Critical
  <2>3. /\ order' \in Seq(Route)
        /\ Len(order') = Len(order) - 1
        /\ \A j \in 1..(Len(order) - 1) : order'[j] = order[j]
        /\ Len(order) \in 1..Len(order) /\ Len(order) \in Nat
        /\ Last(order) = order[Len(order)]
    BY <1>1, <2>1, <2>2, FrontElements, LenProperties
  <2>4. \A j \in 1..(Len(order) - 1) :
          order'[j] = IF j < Len(order) THEN order[j] ELSE order[j + 1]
    <3>1. \A j \in 1..(Len(order) - 1) : j < Len(order)
      BY <2>3
    <3> QED  BY <2>3, <3>1
  <2>5. StopPath(order[Len(order)].path)
    BY <2>1, <2>3
  <2> QED  BY <1>1, <2>3, <2>4, <2>5, StopServed
<1>5. CASE DeleteStop(h) /\ ~UNCHANGED <<order, mounts>>
  <2> DEFINE id == Head(call[h].left)
             i == IndexOf(id)
  <2>1. StopPath(order[i].path) /\ Leave(id)
    BY <1>5 DEF DeleteStop
  <2>2. Present(id)
    BY <1>1, <1>5, Holder DEF DeleteStop, ShapeOf, Critical
  <2>3. i \in 1..Len(order)
    BY <1>1, <2>2, LenProperties DEF Present, IndexOf
  <2>4. order' = RemoveAt(order, i)
    BY <2>1 DEF Leave
  <2> HIDE DEF i
  <2>5. /\ order' \in Seq(Route)
        /\ Len(order') = Len(order) - 1
        /\ \A j \in 1..(Len(order) - 1) :
             order'[j] = IF j < i THEN order[j] ELSE order[j + 1]
    BY <1>1, <2>3, <2>4, RemoveAtElements
  <2> QED  BY <1>1, <2>1, <2>3, <2>5, StopServed
<1> QED  BY <1>2, <1>3, <1>4, <1>5 DEF AddStart

-----------------------------------------------------------------------------
(***************************************************************************)
(* Every step preserves the invariant.                                     *)
(***************************************************************************)

\* A handler works in a process that is there.
LEMMA HandlerUp ==
  ASSUME Inv, GoneIsIdle, NEW h \in Handler, Arrive(h) \/ Acquire(h) \/ Work(h)
  PROVE  Up
<1>1. CASE Arrive(h)
  BY <1>1 DEF Arrive, AddCall, DeleteCall, RestoreCall, DismissCall, Accepts
<1>2. CASE Acquire(h) \/ Work(h)
  <2>1. call[h].pc # "idle"
    BY <1>2 DEF Acquire, AddLock, DeleteLock, Work, AddRefuse, AddStart, AddUndo,
                DeleteStop, SaveOpen, SaveWrite, Reply
  <2> QED  BY <2>1 DEF GoneIsIdle
<1> QED  BY <1>1, <1>2

\* A step of a handler, one conjunct at a time.
LEMMA HandlerStep ==
  ASSUME FaultInv, Inv', NEW h \in Handler, Arrive(h) \/ Acquire(h) \/ Work(h)
  PROVE  FaultInv'
<1>1. Inv /\ NoUndo /\ GoneIsIdle
  BY DEF FaultInv
<1>2. Up /\ UNCHANGED main
  BY <1>1, HandlerUp, ArriveCalls, AcquireCalls, MountCalls, SaveCalls DEF Work
<1>3. GoneIsIdle'
  BY <1>2 DEF GoneIsIdle, Up
<1>4. NoUndo'
  <2> SUFFICES ASSUME Writable
               PROVE  call'[h].pc # "undo" /\ \A g \in Handler : g # h => call'[g] = call[g]
    BY <1>1 DEF NoUndo, Writable
  <2>1. CASE Arrive(h) \/ Reply(h) \/ AddRefuse(h)
    BY <1>1, <2>1, ArriveCalls DEF Critical
  <2>2. CASE Acquire(h)
    BY <1>1, <2>2, AcquireCalls DEF Critical
  <2>3. CASE AddStart(h) \/ AddUndo(h) \/ DeleteStop(h)
    BY <1>1, <2>3, MountCalls DEF Critical
  <2>4. CASE SaveOpen(h) \/ SaveWrite(h)
    BY <1>1, <2>4, SaveCalls DEF Critical
  <2> QED  BY <2>1, <2>2, <2>3, <2>4 DEF Work
<1>5. ASSUME Writable \/ Stoppable
      PROVE  Served'
  <2>1. CASE UNCHANGED <<order, mounts>>
    BY <1>2, <1>5, <2>1 DEF FaultInv, Served, Routed
  <2>2. CASE AddStart(h) \/ AddUndo(h) \/ DeleteStop(h)
    BY <1>5, <2>2, MountServed
  <2> QED  BY <1>1, <2>1, <2>2, ArriveCalls, AcquireCalls, SaveCalls DEF Work
<1>6. ASSUME Writable
      PROVE  FileCurrent'
  <2> SUFFICES ASSUME order' # <<>>, ~Saving'
               PROVE  file' \in {NoFile, Saved(Cps(order'))}
    BY DEF FileCurrent
  <2>1. FileCurrent
    BY <1>6 DEF FaultInv
  <2>2. ASSUME \A g \in Handler : g # h => call'[g] = call[g],
               call[h].pc \notin {"save", "write"},
               order' = order, file' \in {file, NoFile}
        PROVE  file' \in {NoFile, Saved(Cps(order'))}
    <3>1. ~Saving
      BY <2>2 DEF Saving
    <3> QED  BY <2>1, <2>2, <3>1 DEF FileCurrent
  <2>3. CASE Arrive(h) \/ Reply(h) \/ AddRefuse(h)
    BY <1>1, <2>2, <2>3, ArriveCalls DEF Critical
  <2>4. CASE Acquire(h)
    BY <1>1, <2>2, <2>4, AcquireCalls DEF Critical
  <2>5. CASE AddStart(h) \/ AddUndo(h) \/ DeleteStop(h)
    <3>1. call'[h].pc # "save" /\ call[h].pc \notin {"undo", "save", "write"}
      BY <1>1, <1>6, <2>5 DEF Saving, NoUndo, AddStart, AddUndo, DeleteStop
    <3> QED  BY <1>1, <2>2, <2>5, <3>1, MountCalls
  <2>6. CASE SaveOpen(h) \/ SaveWrite(h)
    <3>1. call'[h].pc # "write"
      BY DEF Saving
    <3> QED  BY <1>1, <1>6, <2>6, <3>1, SaveCalls DEF Writable
  <2> QED  BY <2>3, <2>4, <2>5, <2>6 DEF Work
<1> QED  BY <1>3, <1>4, <1>5, <1>6 DEF FaultInv, Writable, Stoppable

\* The main goroutine and the start of a process.
LEMMA MainFaultStep ==
  ASSUME FaultInv, Inv', Signal \/ Snapshot \/ StopNext \/ RemoveFile \/ Boot
  PROVE  FaultInv'
<1>1. UNCHANGED <<order, call>>
  BY DEF Signal, Snapshot, StopNext, RemoveFile, Boot
<1>2. NoUndo'
  BY <1>1 DEF FaultInv, NoUndo, Writable
<1>3. GoneIsIdle' /\ (Writable \/ Stoppable => Served')
  <2>1. CASE Signal
    BY <1>1, <2>1 DEF Signal, FaultInv, GoneIsIdle, Up, Served, Routed, Inv, TypeOK, Main
  <2>2. CASE Snapshot
    <3>1. main'.pc \in {"remove", "stop"}
      BY <2>2 DEF Snapshot, AfterStop
    <3> QED  BY <3>1 DEF GoneIsIdle, Up, Served
  <2>3. CASE StopNext
    <3>1. main'.pc \in {"remove", "stop"}
      BY <2>3 DEF StopNext, AfterStop
    <3> QED  BY <3>1 DEF GoneIsIdle, Up, Served
  <2>4. CASE RemoveFile
    <3>1. main'.pc = "close"
      BY <2>4 DEF RemoveFile, FaultInv, Inv, TypeOK, Main
    <3> QED  BY <3>1 DEF GoneIsIdle, Up, Served
  <2>5. CASE Boot
    <3>1. main'.pc = "run" /\ mounts' = mounts
      BY <2>5 DEF Boot, FaultInv, Inv, TypeOK, Main
    <3>2. order = <<>> /\ \A q \in Path : mounts[q] # "live"
      BY <2>5 DEF Boot, FaultInv, GoneIsIdle
    <3> QED  BY <1>1, <3>1, <3>2 DEF GoneIsIdle, Up, Served, Routed
  <2> QED  BY <2>1, <2>2, <2>3, <2>4, <2>5
<1>4. Writable => FileCurrent'
  <2>1. file' \in {file, NoFile}
    BY DEF Signal, Snapshot, StopNext, RemoveFile, Boot
  <2> QED  BY <1>1, <2>1 DEF FaultInv, FileCurrent, Saving
<1> QED  BY <1>2, <1>3, <1>4 DEF FaultInv, Writable, Stoppable

\* The end of the process.
LEMMA DieFaultStep ==
  ASSUME FaultInv, Inv', Exit \/ Crash
  PROVE  FaultInv'
<1>1. /\ order' = <<>> /\ mounts' = MountsAtDeath
      /\ \A h \in Handler : call'[h].pc = "idle"
      /\ main'.pc \in {"exited", "crashed"}
  BY DEF Exit, Crash, Die, Idle
<1>2. \A q \in Path : mounts'[q] # "live"
  BY <1>1 DEF MountsAtDeath, FaultInv, Inv, TypeOK
<1> QED  BY <1>1, <1>2
         DEF FaultInv, NoUndo, GoneIsIdle, Served, FileCurrent, Writable, Stoppable

\* The invariant holds at the start.
LEMMA InitFaultInv == Init => FaultInv
<1> SUFFICES ASSUME Init
             PROVE  FaultInv
  OBVIOUS
<1>1. Inv
  BY InitInv
<1>2. /\ order = <<>> /\ main.pc = "run" /\ \A q \in Path : mounts[q] = "off"
      /\ \A h \in Handler : call[h].pc = "idle"
  BY DEF Init, Idle
<1> QED  BY <1>1, <1>2 DEF FaultInv, NoUndo, GoneIsIdle, Up, Served, Routed, FileCurrent

\* Every step of the process keeps it.
LEMMA NextFaultInv == FaultInv /\ [Next]_vars => FaultInv'
<1> SUFFICES ASSUME FaultInv, [Next]_vars
             PROVE  FaultInv'
  OBVIOUS
<1>1. Inv'
  BY NextInv DEF FaultInv
<1>2. ASSUME NEW h \in Handler, Arrive(h) \/ Acquire(h) \/ Work(h)
      PROVE  FaultInv'
  BY <1>1, <1>2, HandlerStep
<1>3. CASE Signal \/ Snapshot \/ StopNext \/ RemoveFile \/ Boot
  BY <1>1, <1>3, MainFaultStep
<1>4. CASE Exit \/ Crash
  BY <1>1, <1>4, DieFaultStep
<1>5. CASE UNCHANGED vars
  BY <1>1, <1>5 DEF vars, FaultInv, NoUndo, GoneIsIdle, Up, Served, Routed, FileCurrent,
                    Saving, Writable, Stoppable
<1> QED  BY <1>2, <1>3, <1>4, <1>5 DEF Next, Shutdown

-----------------------------------------------------------------------------
(***************************************************************************)
(* A restore that fails is rolled back.                                    *)
(***************************************************************************)

\* The ids a rollback still has to look up: the one whose smaller table is
\* being saved is gone already.
Pending(c) == IF c.pc \in {"save", "write"} THEN Tail(c.left) ELSE c.left

\* A restore that has not failed only adds.  One that has failed only deletes,
\* and whatever it added is gone or still to be deleted.
RolledBack(c) ==
  c.op = "restore" =>
    /\ c.ok => /\ c.pc \in {"add", "start", "save", "write", "undo", "reply"}
               /\ c.pc \in {"save", "write"} => c.todo # <<>>
    /\ ~c.ok => /\ c.pc \in {"delete", "stop", "save", "write", "reply"}
                /\ c.pc # "reply" => c.todo = <<>>
                /\ c.pc = "reply" => c.left = <<>>
                /\ \A id \in Range(c.acts) : Present(id) => id \in Range(Pending(c))

RestoreInv == Inv /\ \A h \in Handler : RolledBack(call[h])

\* An add that fails starts the rollback, or has nothing to roll back.
LEMMA FailAddRolls ==
  ASSUME Inv, NEW h \in Handler, FailAdd(h)
  PROVE  RolledBack(call[h])'
<1> DEFINE c == call[h]
<1>1. c \in Call
  BY DEF Inv, TypeOK
<1>2. call'[h] = [c EXCEPT !.pc = IF c.acts = <<>> THEN "reply" ELSE "delete",
                           !.todo = <<>>, !.left = c.acts, !.ok = FALSE]
  BY DEF FailAdd, Inv, TypeOK
<1> HIDE DEF c
<1>3. /\ call'[h].ok = FALSE /\ call'[h].todo = <<>>
      /\ call'[h].left = c.acts /\ call'[h].acts = c.acts
      /\ call'[h].pc = IF c.acts = <<>> THEN "reply" ELSE "delete"
  BY <1>1, <1>2 DEF Call
<1> QED  BY <1>3 DEF RolledBack, Pending

\* An add that succeeds is not part of a restore that has failed.
LEMMA FinishAddRolls ==
  ASSUME RestoreInv, NEW h \in Handler, call[h].pc \in {"save", "write"},
         call[h].todo # <<>>, FinishAdd(h)
  PROVE  RolledBack(call[h])'
<1> DEFINE c == call[h]
<1>1. c \in Call /\ RolledBack(c) /\ c.pc \in {"save", "write"} /\ c.todo # <<>>
  BY DEF RestoreInv, Inv, TypeOK
<1>2. /\ call'[h].op = c.op /\ call'[h].ok = c.ok
      /\ call'[h].pc \in {"reply", "add"}
  <2>1. call'[h] = [c EXCEPT !.pc = IF Len(c.todo) = 1 THEN "reply" ELSE "add",
                             !.todo = Tail(c.todo),
                             !.acts = Append(c.acts, Last(order).id)]
    BY DEF FinishAdd, RestoreInv, Inv, TypeOK
  <2> HIDE DEF c
  <2> QED  BY <1>1, <2>1 DEF Call
<1>3. c.op = "restore" => c.ok
  BY <1>1 DEF RolledBack
<1> HIDE DEF c
<1>4. c.op = "restore" => call'[h].ok
  BY <1>2, <1>3
<1> QED  BY <1>2, <1>4 DEF RolledBack

\* A delete of a rollback drops an id that is not in the table.
LEMMA FinishDeleteRolls ==
  ASSUME RestoreInv, NEW h \in Handler, NEW ok \in BOOLEAN,
         call[h].pc \in {"delete", "save", "write"},
         call[h].todo = <<>>, call[h].left # <<>>,
         call[h].pc = "delete" => ~Present(Head(call[h].left)),
         UNCHANGED order, FinishDelete(h, ok)
  PROVE  RolledBack(call[h])'
<1> DEFINE c == call[h]
<1>1. /\ c \in Call /\ RolledBack(c) /\ c.pc \in {"delete", "save", "write"}
      /\ c.todo = <<>> /\ c.left # <<>> /\ c.left \in Seq(RouteId)
      /\ c.pc = "delete" => ~Present(Head(c.left))
  BY DEF RestoreInv, Inv, TypeOK, Call
<1>2. call'[h] = [c EXCEPT !.pc = IF Len(c.left) = 1 THEN "reply" ELSE "delete",
                           !.left = Tail(c.left), !.ok = c.ok /\ ok]
  BY DEF FinishDelete, RestoreInv, Inv, TypeOK
<1> HIDE DEF c
<1>3. /\ call'[h].op = c.op /\ call'[h].ok = (c.ok /\ ok) /\ call'[h].acts = c.acts
      /\ call'[h].left = Tail(c.left) /\ call'[h].todo = c.todo
      /\ call'[h].pc = IF Len(c.left) = 1 THEN "reply" ELSE "delete"
  BY <1>1, <1>2 DEF Call
<1> SUFFICES ASSUME c.op = "restore"
             PROVE  RolledBack(call[h])'
  BY <1>3 DEF RolledBack
<1>4. ~c.ok
  BY <1>1 DEF RolledBack
<1>5. \A id \in Range(c.acts) : Present(id) => id \in Range(Tail(c.left))
  <2> SUFFICES ASSUME NEW id \in Range(c.acts), Present(id)
               PROVE  id \in Range(Tail(c.left))
    OBVIOUS
  <2>1. id \in Range(Pending(c))
    BY <1>1, <1>4 DEF RolledBack
  <2>2. CASE c.pc = "delete"
    <3>1. id \in Range(c.left) /\ id # Head(c.left)
      BY <1>1, <2>1, <2>2 DEF Pending
    <3> QED  BY <1>1, <3>1, RangeOfTail
  <2> QED  BY <1>1, <2>1, <2>2 DEF Pending
<1>6. Len(c.left) = 1 => Tail(c.left) = <<>>
  <2>1. Tail(c.left) \in Seq(RouteId) /\ Len(Tail(c.left)) = Len(c.left) - 1
    BY <1>1, HeadTailProperties
  <2> SUFFICES ASSUME Len(c.left) = 1
               PROVE  Tail(c.left) = <<>>
    OBVIOUS
  <2>2. Len(Tail(c.left)) = 0
    BY <2>1
  <2> QED  BY <2>1, <2>2, EmptySeq
<1>7. /\ call'[h].ok = FALSE
      /\ call'[h].pc \in {"reply", "delete"}
      /\ call'[h].pc = "reply" => call'[h].left = <<>>
      /\ call'[h].todo = <<>>
  BY <1>1, <1>3, <1>4, <1>6
<1>8. \A id : Present(id)' <=> Present(id)
  BY DEF Present
<1>9. Pending(call'[h]) = Tail(c.left)
  BY <1>3, <1>7 DEF Pending
<1>10. \A id \in Range(call'[h].acts) : Present(id)' => id \in Range(Pending(call'[h]))
  BY <1>3, <1>5, <1>8, <1>9
<1> QED  BY <1>7, <1>10 DEF RolledBack

\* A delete takes its route out of the table and leaves the others.
LEMMA LeaveElements ==
  ASSUME Inv, NEW id, Present(id), Leave(id)
  PROVE  \A j \in DOMAIN order' :
           \E i \in DOMAIN order : order'[j] = order[i] /\ order[i].id # id
<1> DEFINE k == IndexOf(id)
           n == Len(order)
<1>1. order \in Seq(Route) /\ n \in Nat /\ DOMAIN order = 1..n
  BY LenProperties DEF Inv, TypeOK
<1>2. k \in 1..n /\ order[k].id = id
  BY <1>1 DEF Present, IndexOf
<1>3. order' = RemoveAt(order, k)
  BY DEF Leave
<1>4. \A i, j \in 1..n : order[i].id = order[j].id => i = j
  BY <1>1 DEF Inv, IndexAgrees
<1> HIDE DEF k
<1>5. /\ order' \in Seq(Route) /\ Len(order') = n - 1
      /\ \A j \in 1..(n - 1) : order'[j] = IF j < k THEN order[j] ELSE order[j + 1]
  BY <1>1, <1>2, <1>3, RemoveAtElements
<1>6. DOMAIN order' = 1..(n - 1)
  BY <1>5, LenProperties
<1> HIDE DEF n
<1> DEFINE from(j) == IF j < k THEN j ELSE j + 1
<1>7. \A j \in 1..(n - 1) : from(j) \in 1..n /\ from(j) # k /\ order'[j] = order[from(j)]
  BY <1>1, <1>2, <1>5
<1> HIDE DEF from
<1> QED  BY <1>1, <1>2, <1>4, <1>6, <1>7

\* A route that is new to the table has an id that no call has.
LEMMA NewIds ==
  ASSUME Inv, NEW h \in Handler, Arrive(h) \/ Acquire(h) \/ Work(h)
  PROVE  \A id : Present(id)' => Present(id) \/ ~InCall(id)
<1>1. CASE UNCHANGED order
  BY <1>1 DEF Present
<1>2. CASE AddStart(h) /\ Enter(Head(call[h].todo))
  <2>1. PICK id \in RouteId :
          /\ Fresh(id)
          /\ order' = Append(order, [id |-> id, path |-> Head(call[h].todo).path,
                                     target |-> Head(call[h].todo).target])
    BY <1>2 DEF Enter
  <2> DEFINE rt == [id |-> id, path |-> Head(call[h].todo).path,
                    target |-> Head(call[h].todo).target]
             n == Len(order)
  <2>2. rt \in Route /\ order \in Seq(Route) /\ rt.id = id
    <3>1. Head(call[h].todo) \in Kept
      BY <1>2, Holder DEF AddStart, ShapeOf, Critical
    <3> QED  BY <3>1 DEF Kept, Route, Inv, TypeOK
  <2> HIDE DEF rt
  <2>3. order' = Append(order, rt)
    BY <2>1 DEF rt
  <2>4. /\ DOMAIN order' = 1..(n + 1) /\ n \in Nat /\ DOMAIN order = 1..n
        /\ \A i \in 1..n : order'[i] = order[i]
        /\ order'[n + 1] = rt
    BY <2>2, <2>3, AppendProperties, LenProperties
  <2> HIDE DEF n
  <2>5. \A i \in 1..(n + 1) : i \in 1..n \/ i = n + 1
    BY <2>4
  <2>6. \A i \in DOMAIN order' : order'[i].id = id \/ Present(order'[i].id)
    BY <2>2, <2>4, <2>5 DEF Present
  <2> QED  BY <2>1, <2>6 DEF Present, Fresh
<1>3. CASE AddUndo(h) /\ order' = Front(order)
  <2>1. order # <<>> /\ order \in Seq(Route)
    BY <1>3, Holder DEF AddUndo, ShapeOf, Critical, Inv, TypeOK
  <2> DEFINE n == Len(order)
  <2>2. /\ order' \in Seq(Route) /\ Len(order') = n - 1 /\ n \in Nat
        /\ DOMAIN order = 1..n
        /\ \A j \in 1..(n - 1) : order'[j] = order[j]
    BY <1>3, <2>1, FrontElements, LenProperties
  <2>3. DOMAIN order' = 1..(n - 1)
    BY <2>2, LenProperties
  <2> HIDE DEF n
  <2>4. \A j \in 1..(n - 1) : j \in 1..n
    BY <2>2
  <2> QED  BY <2>2, <2>3, <2>4 DEF Present
<1>4. CASE DeleteStop(h) /\ Leave(Head(call[h].left))
  <2>1. \A id : Present(id)' => Present(id)
    BY <1>4, Holder, LeaveElements DEF DeleteStop, ShapeOf, Critical, Present
  <2> QED  BY <2>1
<1> QED  BY <1>1, <1>2, <1>3, <1>4
         DEF Arrive, AddCall, DeleteCall, RestoreCall, DismissCall, Acquire, AddLock,
             DeleteLock, Work, AddRefuse, AddStart, AddUndo, DeleteStop, SaveOpen, SaveWrite, Reply

\* A handler works on the table, or asks for the lock.
LEMMA OwnRestore ==
  ASSUME RestoreInv, Stoppable, NEW h \in Handler, Acquire(h) \/ Work(h)
  PROVE  RolledBack(call[h])'
<1> DEFINE c == call[h]
<1>1. Inv /\ c \in Call /\ RolledBack(c) /\ ShapeOf(c)
  BY DEF RestoreInv, Inv, TypeOK, CallShape
<1>2. ASSUME NEW pc, GoTo(h, pc)
      PROVE  /\ call'[h].op = c.op /\ call'[h].ok = c.ok /\ call'[h].pc = pc
             /\ call'[h].todo = c.todo /\ call'[h].acts = c.acts /\ call'[h].left = c.left
  <2>1. call'[h] = [c EXCEPT !.pc = pc]
    BY <1>2 DEF GoTo, RestoreInv, Inv, TypeOK
  <2> HIDE DEF c
  <2> QED  BY <1>1, <2>1 DEF Call
<1> HIDE DEF c
<1>3. CASE FailAdd(h)
  BY <1>1, <1>3, FailAddRolls
<1>4. CASE AddLock(h)
  <2>1. ASSUME NEW todo, call' = [call EXCEPT ![h].pc = "start", ![h].todo = todo]
        PROVE  RolledBack(call[h])'
    <3>1. c.op = "restore" => c.ok
      BY <1>1, <1>4 DEF AddLock, RolledBack, c
    <3>2. call'[h] = [c EXCEPT !.pc = "start", !.todo = todo]
      BY <2>1 DEF RestoreInv, Inv, TypeOK, c
    <3>3. call'[h].op = c.op /\ call'[h].ok = c.ok /\ call'[h].pc = "start"
      BY <1>1, <3>2 DEF Call
    <3> QED  BY <3>1, <3>3 DEF RolledBack
  <2> QED  BY <1>3, <1>4, <2>1 DEF AddLock
<1>5. CASE AddStart(h)
  <2>1. CASE GoTo(h, "save")
    <3>1. (c.op = "restore" => c.ok) /\ c.todo # <<>>
      BY <1>1, <1>5 DEF AddStart, RolledBack, ShapeOf, c
    <3> QED  BY <1>2, <2>1, <3>1 DEF RolledBack
  <2> QED  BY <1>3, <1>5, <2>1 DEF AddStart
<1>6. CASE AddUndo(h)
  BY <1>3, <1>6 DEF AddUndo
<1>7. CASE DeleteLock(h)
  <2>1. /\ c.pc = "delete" /\ c.todo = <<>> /\ c.left # <<>> /\ UNCHANGED order
        /\ \/ GoTo(h, "stop")
           \/ ~Present(Head(c.left)) /\ FinishDelete(h, FALSE)
    BY <1>1, <1>7 DEF DeleteLock, ShapeOf, c
  <2>2. CASE GoTo(h, "stop")
    <3>1. \A id : Present(id)' <=> Present(id)
      BY <2>1 DEF Present
    <3>2. Pending(call'[h]) = c.left /\ Pending(c) = c.left
      BY <1>2, <2>1, <2>2 DEF Pending
    <3> QED  BY <1>1, <1>2, <2>1, <2>2, <3>1, <3>2 DEF RolledBack
  <2> QED  BY <2>1, <2>2, FinishDeleteRolls DEF c
<1>8. CASE DeleteStop(h)
  <2>1. /\ c.pc = "stop" /\ c.todo = <<>> /\ c.left # <<>> /\ c.left \in Seq(RouteId)
        /\ GoTo(h, "save") /\ Leave(Head(c.left))
    BY <1>1, <1>8 DEF DeleteStop, Fails, Stoppable, ShapeOf, Call, c
  <2>2. \A id : Present(id)' => Present(id) /\ id # Head(c.left)
    BY <1>1, <2>1, LeaveElements DEF ShapeOf, Present, c
  <2>3. Pending(call'[h]) = Tail(c.left) /\ Pending(c) = c.left
    BY <1>2, <2>1 DEF Pending
  <2>4. \A id \in Range(c.left) : id = Head(c.left) \/ id \in Range(Tail(c.left))
    BY <2>1, RangeOfTail
  <2> QED  BY <1>1, <1>2, <2>1, <2>2, <2>3, <2>4 DEF RolledBack
<1>9. ASSUME c.pc \in {"save", "write"}, UNCHANGED order,
             SaveSucceeds(h) \/ SaveFails(h)
      PROVE  RolledBack(call[h])'
  <2>1. CASE FinishAdd(h) /\ c.todo # <<>>
    BY <1>9, <2>1, FinishAddRolls DEF c
  <2>2. CASE c.todo = <<>> /\ \E ok \in BOOLEAN : FinishDelete(h, ok)
    BY <1>1, <1>9, <2>2, FinishDeleteRolls DEF ShapeOf, c
  <2>3. CASE c.todo # <<>> /\ GoTo(h, "undo")
    <3>1. c.op = "restore" => c.ok
      BY <1>1, <1>9, <2>3 DEF RolledBack
    <3> QED  BY <1>2, <2>3, <3>1 DEF RolledBack
  <2> QED  BY <1>9, <2>1, <2>2, <2>3 DEF SaveSucceeds, SaveFails, Adding, c
<1>10. CASE SaveOpen(h) \/ SaveWrite(h)
  <2>1. c.pc \in {"save", "write"} /\ UNCHANGED order
    BY <1>10 DEF SaveOpen, SaveWrite, c
  <2>2. CASE GoTo(h, "write")
    <3>1. \A id : Present(id)' <=> Present(id)
      BY <2>1 DEF Present
    <3>2. Pending(call'[h]) = Tail(c.left) /\ Pending(c) = Tail(c.left)
      BY <1>2, <2>1, <2>2 DEF Pending
    <3> QED  BY <1>1, <1>2, <2>1, <2>2, <3>1, <3>2 DEF RolledBack
  <2> QED  BY <1>9, <1>10, <2>1, <2>2 DEF SaveOpen, SaveWrite
<1>11. CASE Reply(h)
  <2>1. call'[h] = Idle
    BY <1>11 DEF Reply, RestoreInv, Inv, TypeOK
  <2> QED  BY <2>1 DEF RolledBack, Idle
<1>12. CASE AddRefuse(h)
  BY <1>3, <1>12 DEF AddRefuse
<1> QED  BY <1>4, <1>5, <1>6, <1>7, <1>8, <1>10, <1>11, <1>12 DEF Acquire, Work

\* A call that arrives has added nothing.
LEMMA ArriveRestore ==
  ASSUME RestoreInv, NEW h \in Handler, Arrive(h)
  PROVE  RolledBack(call[h])'
<1>1. CASE AddCall(h) \/ DeleteCall(h) \/ DismissCall(h)
  <2>1. call'[h].op # "restore"
    BY <1>1 DEF AddCall, DeleteCall, DismissCall, Idle, RestoreInv, Inv, TypeOK
  <2> QED  BY <2>1 DEF RolledBack
<1>2. CASE RestoreCall(h)
  <2> DEFINE adds == [Idle EXCEPT !.op = "restore", !.pc = "add",
                                  !.todo = Restored(file.cps)]
             replies(ok) == [Idle EXCEPT !.op = "restore", !.pc = "reply", !.ok = ok]
  <2>a. call'[h] = adds \/ \E ok \in BOOLEAN : call'[h] = replies(ok)
    BY <1>2 DEF RestoreCall, RestoreInv, Inv, TypeOK
  <2>b. /\ adds.left = <<>> /\ adds.acts = <<>> /\ adds.pc = "add" /\ adds.ok
        /\ \A ok : replies(ok).left = <<>> /\ replies(ok).acts = <<>>
                  /\ replies(ok).pc = "reply"
    BY DEF Idle
  <2> HIDE DEF adds, replies
  <2>1. /\ call'[h].left = <<>> /\ call'[h].acts = <<>>
        /\ call'[h].pc = "reply" \/ (call'[h].pc = "add" /\ call'[h].ok)
    BY <2>a, <2>b
  <2>2. Range(call'[h].acts) = {}
    BY <2>1 DEF Range
  <2> QED  BY <2>1, <2>2 DEF RolledBack
<1> QED  BY <1>1, <1>2 DEF Arrive

\* A restore stays rolled back, or on its way to it, whatever other handlers
\* do meanwhile: they add no route under an id it has.
LEMMA OthersRestore ==
  ASSUME RestoreInv, NEW h \in Handler, Arrive(h) \/ Acquire(h) \/ Work(h),
         NEW g \in Handler, g # h
  PROVE  RolledBack(call[g])'
<1>1. Inv /\ RolledBack(call[g])
  BY DEF RestoreInv
<1>2. call'[g] = call[g]
  BY <1>1, ArriveCalls, AcquireCalls, MountCalls, SaveCalls DEF Work
<1>3. \A id \in Range(call[g].acts) : Present(id)' => Present(id)
  BY <1>1, NewIds DEF InCall
<1> QED  BY <1>1, <1>2, <1>3 DEF RolledBack, Pending

\* Every step of the process keeps this too.
LEMMA NextRestoreInv == RestoreInv /\ Stoppable /\ [Next]_vars => RestoreInv'
<1> SUFFICES ASSUME RestoreInv, Stoppable, [Next]_vars
             PROVE  RestoreInv'
  OBVIOUS
<1>1. Inv'
  BY NextInv DEF RestoreInv
<1>2. ASSUME NEW h \in Handler, Arrive(h) \/ Acquire(h) \/ Work(h)
      PROVE  RestoreInv'
  <2>1. RolledBack(call[h])'
    BY <1>2, ArriveRestore, OwnRestore
  <2> QED  BY <1>1, <1>2, <2>1, OthersRestore DEF RestoreInv
<1>3. CASE Exit \/ Crash
  <2>1. \A h \in Handler : call'[h] = Idle
    BY <1>3 DEF Exit, Crash, Die
  <2> QED  BY <1>1, <2>1 DEF RestoreInv, RolledBack, Idle
<1>4. CASE UNCHANGED <<order, call>>
  BY <1>1, <1>4 DEF RestoreInv, RolledBack, Pending, Present
<1> QED  BY <1>2, <1>3, <1>4
         DEF Next, Shutdown, Signal, Snapshot, StopNext, RemoveFile, Boot, vars

-----------------------------------------------------------------------------
(***************************************************************************)
(* A checkpoint that can be read has every route of the table, whatever    *)
(* has failed: only the route of an unfinished save may be missing.        *)
(***************************************************************************)
Hiding ==
  \E h \in Handler : call[h].pc \in {"save", "write", "undo"} /\ call[h].todo # <<>>

Listed(i) ==
  \E j \in DOMAIN file.cps :
    file.cps[j] = [path |-> order[i].path, target |-> order[i].target]

Covered ==
  file.kind = "full" =>
    /\ \A h \in Handler : call[h].pc # "write"
    /\ \A i \in DOMAIN order : Listed(i) \/ (i = Len(order) /\ Hiding)

CoverInv == Inv /\ Covered

\* A step that leaves the table and the file alone and ends no save.
LEMMA KeepsCovered ==
  ASSUME Covered, UNCHANGED order, file' \in {file, NoFile},
         \A h \in Handler : call'[h].pc = "write" => call[h].pc = "write",
         Hiding => Hiding' \/ order = <<>>
  PROVE  Covered'
<1>1. CASE file' = NoFile
  BY <1>1 DEF Covered, NoFile
<1>2. CASE file' = file
  <2> SUFFICES ASSUME file.kind = "full"
               PROVE  Covered'
    BY <1>2 DEF Covered
  <2>1. \A i \in DOMAIN order : Listed(i)' <=> Listed(i)
    BY <1>2 DEF Listed
  <2>2. order = <<>> => DOMAIN order = {}
    OBVIOUS
  <2> QED  BY <1>2, <2>1, <2>2 DEF Covered
<1> QED  BY <1>1, <1>2

\* While a handler works under the lock the others hide nothing.
LEMMA OnlyHolderHides ==
  ASSUME Inv, NEW h \in Handler, call[h].pc \in Critical
  PROVE  /\ \A g \in Handler : g # h => call[g].pc \notin Critical
         /\ Hiding <=> call[h].pc \in {"save", "write", "undo"} /\ call[h].todo # <<>>
<1>1. \A g \in Handler : g # h => call[g].pc \notin Critical
  BY DEF Inv, LockDiscipline
<1> QED  BY <1>1 DEF Hiding, Critical

\* A step of a handler.
LEMMA HandlerCovered ==
  ASSUME CoverInv, NEW h \in Handler, Arrive(h) \/ Acquire(h) \/ Work(h)
  PROVE  Covered'
<1>1. Inv /\ Covered /\ call \in [Handler -> Call] /\ order \in Seq(Route)
  BY DEF CoverInv, Inv, TypeOK
<1>2. ASSUME UNCHANGED order, file' \in {file, NoFile},
             \A g \in Handler : g # h => call'[g] = call[g],
             call[h].pc \notin {"save", "write", "undo"} \/ call[h].todo = <<>>,
             call'[h].pc # "write"
      PROVE  Covered'
  <2>1. Hiding => Hiding'
    BY <1>2 DEF Hiding
  <2> QED  BY <1>1, <1>2, <2>1, KeepsCovered
<1>3. CASE Arrive(h) \/ Reply(h) \/ AddRefuse(h)
  BY <1>1, <1>2, <1>3, ArriveCalls DEF Critical
<1>4. CASE Acquire(h)
  BY <1>1, <1>2, <1>4, AcquireCalls DEF Critical
<1>5. CASE AddStart(h)
  <2>1. /\ file' = file /\ call[h].pc = "start" /\ call'[h].pc # "write"
        /\ \A g \in Handler : g # h => call'[g] = call[g]
    BY <1>1, <1>5, MountCalls DEF AddStart, Critical
  <2>2. CASE UNCHANGED order
    BY <1>2, <2>1, <2>2
  <2>3. CASE Enter(Head(call[h].todo)) /\ GoTo(h, "save")
    <3>1. call[h].todo # <<>> /\ ~Hiding
      BY <1>1, <2>1, Holder, OnlyHolderHides DEF ShapeOf, Critical
    <3>2. Head(call[h].todo) \in Kept
      BY <1>1, <2>1, Holder DEF ShapeOf, Critical
    <3>3. PICK rt \in Route : order' = Append(order, rt)
      BY <2>3, <3>2 DEF Enter, Route, Kept
    <3> DEFINE n == Len(order)
    <3>4. /\ DOMAIN order' = 1..(n + 1) /\ Len(order') = n + 1 /\ n \in Nat
          /\ DOMAIN order = 1..n
          /\ \A i \in 1..n : order'[i] = order[i]
      BY <1>1, <3>3, AppendProperties, LenProperties
    <3> HIDE DEF n
    <3>5. \A i \in DOMAIN order' : i \in DOMAIN order \/ i = Len(order')
      BY <3>4
    <3>6. \A i \in DOMAIN order : Listed(i)' <=> Listed(i)
      BY <2>1, <3>4 DEF Listed
    <3>7. call'[h] = [call[h] EXCEPT !.pc = "save"]
      BY <1>1, <2>3 DEF GoTo
    <3>8. call'[h].pc = "save" /\ call'[h].todo = call[h].todo
      BY <1>1, <3>7 DEF Call
    <3>9. Hiding'
      BY <3>1, <3>8 DEF Hiding
    <3> QED  BY <1>1, <2>1, <3>1, <3>5, <3>6, <3>8, <3>9 DEF Covered
  <2> QED  BY <1>5, <2>2, <2>3 DEF AddStart
<1>6. CASE AddUndo(h)
  <2>1. /\ file' = file /\ call[h].pc = "undo" /\ call'[h].pc # "write"
        /\ \A g \in Handler : g # h => call'[g] = call[g]
        /\ order' = Front(order) /\ order # <<>>
    BY <1>1, <1>6, MountCalls, Holder DEF AddUndo, Critical, ShapeOf
  <2> DEFINE n == Len(order)
  <2>2. /\ order' \in Seq(Route) /\ Len(order') = n - 1 /\ n \in Nat
        /\ DOMAIN order = 1..n
        /\ \A j \in 1..(n - 1) : order'[j] = order[j]
    BY <1>1, <2>1, FrontElements, LenProperties
  <2>3. DOMAIN order' = 1..(n - 1)
    BY <2>2, LenProperties
  <2>4. \A j \in 1..(n - 1) : j \in DOMAIN order /\ j # n
    BY <2>2
  <2>5. \A j \in 1..(n - 1) : Listed(j)' <=> Listed(j)
    BY <2>1, <2>2 DEF Listed
  <2>6. \A g \in Handler : call'[g].pc = "write" => call[g].pc = "write"
    BY <2>1
  <2>7. file.kind = "full" => \A j \in 1..(n - 1) : Listed(j)'
    BY <1>1, <2>4, <2>5 DEF Covered
  <2> HIDE DEF n
  <2> QED  BY <1>1, <2>1, <2>3, <2>6, <2>7 DEF Covered
<1>7. CASE DeleteStop(h)
  <2>1. /\ file' = file /\ call[h].pc = "stop" /\ call'[h].pc # "write"
        /\ \A g \in Handler : g # h => call'[g] = call[g]
    BY <1>1, <1>7, MountCalls DEF DeleteStop, Critical
  <2>2. CASE UNCHANGED order
    BY <1>2, <2>1, <2>2
  <2>3. CASE Leave(Head(call[h].left))
    <3>1. ~Hiding /\ Present(Head(call[h].left))
      BY <1>1, <2>1, OnlyHolderHides, Holder DEF Critical, ShapeOf
    <3>2. \A j \in DOMAIN order' : \E i \in DOMAIN order : order'[j] = order[i]
      BY <1>1, <2>3, <3>1, LeaveElements
    <3>3. \A j \in DOMAIN order' : \E i \in DOMAIN order : Listed(i) => Listed(j)'
      BY <2>1, <3>2 DEF Listed
    <3>4. \A g \in Handler : call'[g].pc = "write" => call[g].pc = "write"
      BY <2>1
    <3>5. file.kind = "full" => \A j \in DOMAIN order' : Listed(j)'
      BY <1>1, <3>1, <3>3 DEF Covered
    <3> QED  BY <1>1, <2>1, <3>4, <3>5 DEF Covered
  <2> QED  BY <1>7, <2>2, <2>3 DEF DeleteStop
<1>8. CASE SaveOpen(h) \/ SaveWrite(h)
  <2>1. /\ UNCHANGED order /\ call[h].pc \in {"save", "write"}
        /\ \A g \in Handler : g # h => call'[g] = call[g]
    BY <1>1, <1>8, SaveCalls
  <2>2. CASE file'.kind # "full"
    BY <2>2 DEF Covered
  <2>3. CASE SaveWrite(h) /\ file' = Saved(Cps(order)) /\ SaveSucceeds(h)
    <3>1. \A i \in DOMAIN order : Listed(i)'
      BY <2>1, <2>3 DEF Listed, Saved, Cps
    <3>2. call'[h].pc # "write" /\ \A g \in Handler : g # h => call[g].pc # "write"
      BY <1>1, <1>8, <2>1, <2>3, SaveCalls, OnlyHolderHides DEF Critical, Truncated, Saved
    <3> QED  BY <2>1, <3>1, <3>2 DEF Covered
  <2>4. CASE SaveOpen(h) /\ file' = file /\ SaveFails(h)
    <3>1. call[h].pc = "save"
      BY <2>4 DEF SaveOpen
    <3>2. CASE ~Adding(h) /\ FinishDelete(h, FALSE)
      <4>1. call'[h].pc # "write"
        <5>1. call'[h] = [call[h] EXCEPT
                            !.pc = IF Len(call[h].left) = 1 THEN "reply" ELSE "delete",
                            !.left = Tail(call[h].left), !.ok = call[h].ok /\ FALSE]
          BY <1>1, <3>2 DEF FinishDelete
        <5>2. call'[h].pc = IF Len(call[h].left) = 1 THEN "reply" ELSE "delete"
          BY <1>1, <5>1 DEF Call
        <5> QED  BY <5>2
      <4> QED  BY <1>2, <2>1, <2>4, <3>2, <4>1 DEF Adding
    <3>3. CASE Adding(h) /\ GoTo(h, "undo")
      <4>1. call'[h] = [call[h] EXCEPT !.pc = "undo"]
        BY <1>1, <3>3 DEF GoTo
      <4>2. call'[h].pc = "undo" /\ call'[h].todo = call[h].todo
        BY <1>1, <4>1 DEF Call
      <4>3. Hiding'
        BY <3>3, <4>2 DEF Hiding, Adding
      <4>4. \A g \in Handler : call'[g].pc = "write" => call[g].pc = "write"
        BY <2>1, <4>2
      <4> QED  BY <1>1, <2>1, <2>4, <4>3, <4>4, KeepsCovered
    <3> QED  BY <2>4, <3>2, <3>3 DEF SaveFails
  <2> QED
    BY <1>8, <2>2, <2>3, <2>4
       DEF SaveOpen, SaveWrite, Written, NoFile, Truncated, Garbled
<1> QED  BY <1>3, <1>4, <1>5, <1>6, <1>7, <1>8 DEF Work

\* Every step of the process.
LEMMA NextCoverInv == CoverInv /\ [Next]_vars => CoverInv'
<1> SUFFICES ASSUME CoverInv, [Next]_vars
             PROVE  CoverInv'
  OBVIOUS
<1>1. Inv' /\ Covered
  BY NextInv DEF CoverInv
<1>2. ASSUME NEW h \in Handler, Arrive(h) \/ Acquire(h) \/ Work(h)
      PROVE  CoverInv'
  BY <1>1, <1>2, HandlerCovered DEF CoverInv
<1>3. CASE Exit \/ Crash
  <2>1. order' = <<>> /\ \A h \in Handler : call'[h].pc # "write"
    BY <1>3 DEF Exit, Crash, Die, Idle
  <2>2. DOMAIN order' = {}
    BY <2>1
  <2> QED  BY <1>1, <2>1, <2>2 DEF CoverInv, Covered
<1>4. CASE UNCHANGED <<order, call>> /\ file' \in {file, NoFile}
  <2>1. Hiding => Hiding'
    BY <1>4 DEF Hiding
  <2> QED  BY <1>1, <1>4, <2>1, KeepsCovered DEF CoverInv
<1> QED  BY <1>2, <1>3, <1>4
         DEF Next, Shutdown, Signal, Snapshot, StopNext, RemoveFile, Boot, vars

-----------------------------------------------------------------------------
\* The mounts of the process are those of its table, if either the checkpoint
\* can be written or mounts can be stopped: an add whose save and whose undo
\* both fail leaves a mount behind.
THEOREM MountsMatch ==
  ASSUME Writable \/ Stoppable
  PROVE  Spec => []MountsMatchRoutes
<1>1. FaultInv => MountsMatchRoutes
  BY ImpliedMounts
<1> QED  BY <1>1, InitFaultInv, NextFaultInv, PTL DEF Spec

\* The file holds the whole table or nothing when no one holds the lock, if it
\* can be written.
THEOREM CheckpointsExact ==
  ASSUME Writable
  PROVE  Spec => []CheckpointExact
<1>1. FaultInv => CheckpointExact
  BY ImpliedFile
<1> QED  BY <1>1, InitFaultInv, NextFaultInv, PTL DEF Spec

\* A restore that replies with an error has left none of its routes, if mounts
\* can be stopped: also when the checkpoint cannot be written, and when other
\* calls delete or add routes while it is rolled back.
THEOREM FailedRestoresLeaveNothing ==
  ASSUME Stoppable
  PROVE  Spec => []RestoreAllOrNothing
<1>1. RestoreInv => RestoreAllOrNothing
  <2> SUFFICES ASSUME RestoreInv, NEW h \in Handler,
                      call[h].pc = "reply", call[h].op = "restore", ~call[h].ok,
                      NEW i \in DOMAIN order
               PROVE  order[i].id \notin Range(call[h].acts)
    BY DEF RestoreAllOrNothing
  <2>1. RolledBack(call[h])
    BY DEF RestoreInv
  <2>2. Present(order[i].id)
    BY DEF Present
  <2>3. Range(Pending(call[h])) = {}
    BY <2>1 DEF RolledBack, Pending, Range
  <2> QED  BY <2>1, <2>2, <2>3 DEF RolledBack
<1>2. Init => RestoreInv
  BY InitInv DEF Init, RestoreInv, RolledBack, Idle
<1> QED  BY <1>1, <1>2, NextRestoreInv, PTL DEF Spec

\* A checkpoint that can be read has every route of the table when no one holds
\* the lock, whichever starts, stops, opens, writes and removals have failed.
THEOREM ReadableCheckpointsComplete == Spec => []ReadableCheckpointComplete
<1>1. CoverInv => ReadableCheckpointComplete
  <2> SUFFICES ASSUME CoverInv, mu = {}, file.kind = "full"
               PROVE  Range(Cps(order)) \subseteq Range(file.cps)
    BY DEF ReadableCheckpointComplete
  <2>1. ~Hiding
    BY DEF CoverInv, Inv, LockDiscipline, Critical, Hiding
  <2>2. \A i \in DOMAIN order : Listed(i)
    BY <2>1 DEF CoverInv, Covered
  <2>3. \A i \in DOMAIN Cps(order) : \E j \in DOMAIN file.cps : Cps(order)[i] = file.cps[j]
    BY <2>2 DEF Listed, Cps
  <2> QED  BY <2>3 DEF Range
<1>2. Init => CoverInv
  BY InitInv DEF Init, CoverInv, Covered, NoFile
<1> QED  BY <1>1, <1>2, NextCoverInv, PTL DEF Spec
===============================================================================
