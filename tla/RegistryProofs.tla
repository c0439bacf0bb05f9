---------------------------- MODULE RegistryProofs ----------------------------
(***************************************************************************)
(* Theorems about Registry, for every set of handlers, ids, paths, targets *)
(* and conflicts, every set of steps that fail and every number of crashes *)
(* and restarts.                                                           *)
(***************************************************************************)
EXTENDS Registry, SequenceFacts

\* The steps at which a handler holds Registry.mu.
Critical == {"start", "save", "write", "undo", "stop"}

\* The lock is held by those who work on the table, and by one at a time.
LockDiscipline ==
  /\ mu = {h \in Handler : call[h].pc \in Critical}
  /\ \A g, h \in mu : g = h

\* What a call still has to do at each of its steps.
ShapeOf(c) ==
  /\ c.pc \in {"add", "start", "undo"} => c.todo # <<>>
  /\ c.pc \in {"delete", "stop"} => c.todo = <<>> /\ c.left # <<>>
  /\ c.pc \in {"save", "write"} => c.todo # <<>> \/ c.left # <<>>
  /\ c.pc \in {"save", "write", "undo"} /\ c.todo # <<>> => order # <<>>
  /\ c.pc = "write" => order # <<>>
  /\ c.pc = "start" => Head(c.todo) \in Kept /\ ~Clashes(Head(c.todo).path)
  /\ c.pc = "stop" => Present(Head(c.left))

CallShape == \A h \in Handler : ShapeOf(call[h])

FileShape == file.kind = "full" => file.cps # <<>>

MainShape == main.pc = "stop" => main.left # <<>>

\* The inductive invariant.  The properties proper are not inductive: an
\* insertion keeps the routes disjoint because its handler has held the lock
\* since it looked for a conflict.
Inv ==
  /\ TypeOK
  /\ LockDiscipline
  /\ CallShape
  /\ FileShape
  /\ MainShape
  /\ RoutesDisjoint
  /\ IndexAgrees
  /\ CheckpointDisjoint

-----------------------------------------------------------------------------
(***************************************************************************)
(* Facts about values.                                                     *)
(***************************************************************************)

\* What a conversion returns may be given to another one.
LEMMA KeptWithin ==
  /\ KeptPath \subseteq Path /\ KeptTarget \subseteq Target
  /\ Kept \subseteq Checkpoint
  /\ \A cp : Readable(cp) => Converted(cp) \in Kept
<1>1. KeptPath \subseteq Path /\ KeptTarget \subseteq Target
  BY ConversionAssumption DEF KeptPath, KeptTarget, Range
<1>2. ASSUME NEW cp, Readable(cp)
      PROVE  Converted(cp) \in Kept
  <2>1. NormalizePath[cp.path] \in KeptPath /\ ParseTarget[cp.target] \in KeptTarget
    BY <1>2 DEF Readable, KeptPath, KeptTarget, Range
  <2> QED  BY <2>1 DEF Converted, Kept
<1> QED  BY <1>1, <1>2 DEF Kept, Checkpoint

\* What the registry keeps may be handed to it again.
LEMMA KeptCheckpoints ==
  ASSUME NEW cps \in Seq(Kept)
  PROVE  cps \in Seq(Checkpoint)
<1>1. cps \in [1..Len(cps) -> Checkpoint] /\ Len(cps) \in Nat
  BY LenProperties, KeptWithin
<1> QED  BY <1>1, SeqDef

\* A restore keeps the length and the order of what it converts.
LEMMA RestoredElements ==
  ASSUME NEW cps \in Seq(Kept), AllReadable(cps)
  PROVE  /\ Restored(cps) \in Seq(Kept)
         /\ Len(Restored(cps)) = Len(cps)
         /\ \A i \in 1..Len(cps) : Restored(cps)[i] = Converted(cps[i])
<1>1. Len(cps) \in Nat /\ DOMAIN cps = 1..Len(cps)
  BY LenProperties
<1>2. Restored(cps) \in [1..Len(cps) -> Kept]
  BY <1>1, KeptWithin DEF Restored, AllReadable
<1>3. Restored(cps) \in Seq(Kept)
  BY <1>1, <1>2, SeqDef
<1>4. Len(Restored(cps)) = Len(cps)
  BY <1>1, <1>2, <1>3, LenProperties
<1> QED  BY <1>1, <1>3, <1>4 DEF Restored

\* The checkpoints of a sequence of routes have their paths.
LEMMA CpsElements ==
  ASSUME NEW s \in Seq(Route)
  PROVE  /\ Cps(s) \in Seq(Kept)
         /\ Len(Cps(s)) = Len(s)
         /\ \A i \in 1..Len(s) : Cps(s)[i].path = s[i].path
<1>1. Len(s) \in Nat /\ DOMAIN s = 1..Len(s) /\ \A i \in 1..Len(s) : s[i] \in Route
  BY LenProperties, ElementOfSeq
<1>2. Cps(s) \in [1..Len(s) -> Kept]
  BY <1>1 DEF Cps, Route, Kept
<1>3. Cps(s) \in Seq(Kept)
  BY <1>1, <1>2, SeqDef
<1>4. Len(Cps(s)) = Len(s)
  BY <1>1, <1>2, <1>3, LenProperties
<1> QED  BY <1>1, <1>3, <1>4 DEF Cps

\* The constants of the module are values of the sets they are used in.
LEMMA Constants ==
  /\ NoFile \in File /\ Truncated \in File /\ Garbled \in File
  /\ Idle \in Call
<1>1. <<>> \in Seq(Checkpoint) /\ <<>> \in Seq(RouteId) /\ <<>> \in Seq(Kept)
  OBVIOUS
<1> QED  BY <1>1 DEF NoFile, Truncated, Garbled, File, Idle, Call

-----------------------------------------------------------------------------
(***************************************************************************)
(* Every step preserves the invariant, action by action.                   *)
(***************************************************************************)

\* A record that says nothing about the table.
Resting(c) ==
  /\ c.pc \notin Critical
  /\ c.pc = "add" => c.todo # <<>>
  /\ c.pc = "delete" => c.todo = <<>> /\ c.left # <<>>

\* A call whose add failed waits for a delete of its rollback, or for another call.
LEMMA FailAddRests ==
  ASSUME TypeOK, NEW h \in Handler, FailAdd(h)
  PROVE  /\ call' = [call EXCEPT ![h] = call'[h]]
         /\ call'[h] \in Call
         /\ Resting(call'[h])
<1> DEFINE c == call[h]
<1>1. c \in Call /\ <<>> \in Seq(Checkpoint)
  BY DEF TypeOK
<1>2. /\ call' = [call EXCEPT ![h] = call'[h]]
      /\ call'[h] = [c EXCEPT !.pc = IF c.acts = <<>> THEN "reply" ELSE "delete",
                              !.todo = <<>>, !.left = c.acts, !.ok = FALSE]
  BY DEF FailAdd, TypeOK
<1> HIDE DEF c
<1>3. call'[h] \in Call /\ Resting(call'[h])
  <2>1. CASE c.acts = <<>>
    BY <2>1, <1>1, <1>2 DEF Call, Resting, Critical
  <2>2. CASE c.acts # <<>>
    BY <2>2, <1>1, <1>2 DEF Call, Resting, Critical
  <2> QED  BY <2>1, <2>2
<1> QED  BY <1>2, <1>3

\* A call arrives, is refused, or its reply leaves: only its own record
\* changes, and its handler neither holds the lock nor gets it.
LEMMA ArriveStep ==
  ASSUME Inv, NEW h \in Handler, Arrive(h) \/ Reply(h) \/ AddRefuse(h)
  PROVE  Inv'
<1> USE DEF Inv
<1>1. UNCHANGED <<order, byID, mu, mounts, main>>
  BY DEF Arrive, AddCall, DeleteCall, RestoreCall, DismissCall, Reply, AddRefuse
<1>2. /\ file' \in {file, NoFile}
      /\ \E c \in Call : /\ call' = [call EXCEPT ![h] = c]
                         /\ ShapeOf(c)
                         /\ c.pc \notin Critical
      /\ call[h].pc \notin Critical
  <2> DEFINE Harmless(c) == c \in Call /\ ShapeOf(c) /\ c.pc \notin Critical
  <2>0. <<>> \in Seq(Checkpoint) /\ <<>> \in Seq(RouteId)
    OBVIOUS
  <2>1. CASE AddCall(h)
    <3>1. \A cp \in Checkpoint :
            Harmless([Idle EXCEPT !.op = "add", !.pc = "add", !.todo = <<cp>>])
      <4> TAKE cp \in Checkpoint
      <4>1. <<cp>> \in Seq(Checkpoint) /\ <<cp>> # <<>>
        OBVIOUS
      <4> QED  BY <2>0, <4>1 DEF Idle, Call, ShapeOf, Critical
    <3>2. Harmless([Idle EXCEPT !.op = "add", !.pc = "reply", !.ok = FALSE])
      BY <2>0 DEF Idle, Call, ShapeOf, Critical
    <3> HIDE DEF Harmless
    <3>3. /\ UNCHANGED file /\ call[h].pc \notin Critical
          /\ \E c : Harmless(c) /\ call' = [call EXCEPT ![h] = c]
      BY <2>1, <3>1, <3>2 DEF AddCall, Accepts, Critical
    <3> QED  BY <3>3 DEF Harmless
  <2>2. CASE DeleteCall(h)
    <3>1. PICK id \in RouteId :
            call' = [call EXCEPT ![h] =
                      [Idle EXCEPT !.op = "delete", !.pc = "delete", !.left = <<id>>]]
      BY <2>2 DEF DeleteCall
    <3>2. <<id>> \in Seq(RouteId) /\ <<id>> # <<>>
      OBVIOUS
    <3>3. Harmless([Idle EXCEPT !.op = "delete", !.pc = "delete", !.left = <<id>>])
      BY <2>0, <3>2 DEF Idle, Call, ShapeOf, Critical
    <3> QED  BY <2>2, <3>1, <3>3 DEF DeleteCall, Accepts, Critical
  <2>3. CASE RestoreCall(h)
    <3>1. file.cps \in Seq(Kept) /\ (file.kind = "full" => file.cps # <<>>)
      BY DEF TypeOK, File, FileShape
    <3>2. ASSUME file.kind = "full", AllReadable(file.cps)
          PROVE  Harmless([Idle EXCEPT !.op = "restore", !.pc = "add",
                                       !.todo = Restored(file.cps)])
      <4>1. /\ Restored(file.cps) \in Seq(Kept)
            /\ Len(Restored(file.cps)) = Len(file.cps)
        BY <3>1, <3>2, RestoredElements
      <4> DEFINE todo == Restored(file.cps)
      <4> HIDE DEF todo
      <4>2. todo \in Seq(Checkpoint) /\ todo # <<>>
        BY <3>1, <3>2, <4>1, KeptCheckpoints, EmptySeq DEF todo
      <4>3. Harmless([Idle EXCEPT !.op = "restore", !.pc = "add", !.todo = todo])
        BY <2>0, <4>2 DEF Idle, Call, ShapeOf, Critical
      <4> QED  BY <4>3 DEF todo
    <3>3. \A ok \in BOOLEAN :
            Harmless([Idle EXCEPT !.op = "restore", !.pc = "reply", !.ok = ok])
      BY <2>0 DEF Idle, Call, ShapeOf, Critical
    <3> HIDE DEF Harmless
    <3>4. /\ UNCHANGED file /\ call[h].pc \notin Critical
          /\ \E c : Harmless(c) /\ call' = [call EXCEPT ![h] = c]
      BY <2>3, <3>2, <3>3 DEF RestoreCall, Accepts, Critical
    <3> QED  BY <3>4 DEF Harmless
  <2>4. CASE DismissCall(h)
    <3>1. \A ok \in BOOLEAN :
            Harmless([Idle EXCEPT !.op = "dismiss", !.pc = "reply", !.ok = ok])
      BY <2>0 DEF Idle, Call, ShapeOf, Critical
    <3>2. Harmless([Idle EXCEPT !.op = "dismiss", !.pc = "reply"])
      BY <2>0 DEF Idle, Call, ShapeOf, Critical
    <3> QED  BY <2>4, <3>1, <3>2 DEF DismissCall, Accepts, Critical
  <2>5. CASE Reply(h)
    <3>1. Harmless(Idle)
      BY <2>0 DEF Idle, Call, ShapeOf, Critical
    <3>2. file' = file /\ call' = [call EXCEPT ![h] = Idle] /\ call[h].pc \notin Critical
      BY <2>5 DEF Reply, Critical
    <3> QED  BY <3>1, <3>2
  <2>6. CASE AddRefuse(h)
    <3>1. /\ call[h].pc = "add" /\ UNCHANGED file
          /\ call' = [call EXCEPT ![h] = call'[h]]
          /\ call'[h] \in Call /\ Resting(call'[h])
      BY <2>6, FailAddRests DEF AddRefuse
    <3>2. Harmless(call'[h])
      BY <3>1 DEF Resting, ShapeOf, Critical
    <3> QED  BY <3>1, <3>2 DEF Critical
  <2> QED  BY <2>1, <2>2, <2>3, <2>4, <2>5, <2>6 DEF Arrive
<1>3. PICK c \in Call : /\ call' = [call EXCEPT ![h] = c]
                        /\ ShapeOf(c)
                        /\ c.pc \notin Critical
  BY <1>2
<1>4. TypeOK'
  BY <1>1, <1>2, <1>3, Constants DEF TypeOK
<1>5. LockDiscipline'
  BY <1>1, <1>2, <1>3 DEF LockDiscipline, TypeOK
<1>6. CallShape'
  BY <1>1, <1>3 DEF CallShape, ShapeOf, TypeOK, Clashes, Present
<1>7. FileShape' /\ MainShape' /\ RoutesDisjoint' /\ IndexAgrees'
  BY <1>1, <1>2 DEF FileShape, NoFile, MainShape, RoutesDisjoint, IndexAgrees
<1>8. CheckpointDisjoint'
  BY <1>2 DEF CheckpointDisjoint, NoFile
<1> QED  BY <1>4, <1>5, <1>6, <1>7, <1>8

-----------------------------------------------------------------------------
(***************************************************************************)
(* The steps that take, use or give back the lock.                         *)
(***************************************************************************)

\* While a handler holds the lock, or takes it, what the other calls have to
\* do does not depend on the table: only its own record needs to be looked at.
LEMMA OwnRecord ==
  ASSUME Inv, NEW h \in Handler,
         mu = {} \/ h \in mu,
         call' = [call EXCEPT ![h] = call'[h]],
         call'[h] \in Call,
         ShapeOf(call[h])',
         mu' = IF call'[h].pc \in Critical THEN {h} ELSE {}
  PROVE  /\ call' \in [Handler -> Call]
         /\ LockDiscipline'
         /\ CallShape'
<1>1. call \in [Handler -> Call]
  BY DEF Inv, TypeOK
<1>2. call' \in [Handler -> Call] /\ \A g \in Handler \ {h} : call'[g] = call[g]
  BY <1>1
<1>3. \A g \in Handler \ {h} : call[g].pc \notin Critical
  BY DEF Inv, LockDiscipline
<1>4. LockDiscipline'
  BY <1>2, <1>3 DEF LockDiscipline
<1>5. CallShape'
  <2> SUFFICES ASSUME NEW g \in Handler
               PROVE  ShapeOf(call[g])'
    BY DEF CallShape
  <2>1. CASE g = h
    BY <2>1
  <2>2. CASE g # h
    BY <2>2, <1>2, <1>3 DEF Inv, CallShape, ShapeOf, Critical
  <2> QED  BY <2>1, <2>2
<1> QED  BY <1>2, <1>4, <1>5

\* The ways in which a call gives the lock back or is refused leave it with a
\* record that says nothing about the table.
LEMMA FinishAddRests ==
  ASSUME TypeOK, NEW h \in Handler, call[h].todo # <<>>, order # <<>>, FinishAdd(h)
  PROVE  /\ call' = [call EXCEPT ![h] = call'[h]]
         /\ call'[h] \in Call
         /\ Resting(call'[h])
<1> DEFINE c == call[h]
<1>1. c \in Call
  BY DEF TypeOK
<1>2. c.todo \in Seq(Checkpoint) /\ c.acts \in Seq(RouteId)
  BY <1>1 DEF Call
<1>3. /\ Tail(c.todo) \in Seq(Checkpoint)
      /\ Len(c.todo) # 1 => Tail(c.todo) # <<>>
  BY <1>2, TailElements
<1>4. Append(c.acts, Last(order).id) \in Seq(RouteId)
  <2>1. Last(order) \in Route
    BY FrontElements DEF TypeOK
  <2>2. Last(order).id \in RouteId
    BY <2>1 DEF Route
  <2> QED  BY <2>2, <1>2, AppendProperties
<1>5. /\ call' = [call EXCEPT ![h] = call'[h]]
      /\ call'[h] = [c EXCEPT !.pc = IF Len(c.todo) = 1 THEN "reply" ELSE "add",
                              !.todo = Tail(c.todo),
                              !.acts = Append(c.acts, Last(order).id)]
  BY DEF FinishAdd, TypeOK
<1> HIDE DEF c
<1>6. call'[h] \in Call /\ Resting(call'[h])
  <2>1. CASE Len(c.todo) = 1
    BY <2>1, <1>1, <1>3, <1>4, <1>5 DEF Call, Resting, Critical
  <2>2. CASE Len(c.todo) # 1
    BY <2>2, <1>1, <1>3, <1>4, <1>5 DEF Call, Resting, Critical
  <2> QED  BY <2>1, <2>2
<1> QED  BY <1>5, <1>6

\* A call that ended a delete waits for the next one, or for another call.
LEMMA FinishDeleteRests ==
  ASSUME TypeOK, NEW h \in Handler, NEW ok \in BOOLEAN,
         call[h].todo = <<>>, call[h].left # <<>>, FinishDelete(h, ok)
  PROVE  /\ call' = [call EXCEPT ![h] = call'[h]]
         /\ call'[h] \in Call
         /\ Resting(call'[h])
<1> DEFINE c == call[h]
<1>1. c \in Call
  BY DEF TypeOK
<1>2. c.left \in Seq(RouteId) /\ c.ok \in BOOLEAN
  BY <1>1 DEF Call
<1>3. Tail(c.left) \in Seq(RouteId) /\ (Len(c.left) # 1 => Tail(c.left) # <<>>)
  BY <1>2, TailElements
<1>4. /\ call' = [call EXCEPT ![h] = call'[h]]
      /\ call'[h] = [c EXCEPT !.pc = IF Len(c.left) = 1 THEN "reply" ELSE "delete",
                              !.left = Tail(c.left), !.ok = c.ok /\ ok]
  BY DEF FinishDelete, TypeOK
<1>5. c.todo = <<>> /\ (c.ok /\ ok) \in BOOLEAN
  BY <1>2
<1> HIDE DEF c
<1>6. call'[h] \in Call /\ Resting(call'[h])
  <2>1. CASE Len(c.left) = 1
    BY <2>1, <1>1, <1>3, <1>4, <1>5 DEF Call, Resting, Critical
  <2>2. CASE Len(c.left) # 1
    BY <2>2, <1>1, <1>3, <1>4, <1>5 DEF Call, Resting, Critical
  <2> QED  BY <2>1, <2>2
<1> QED  BY <1>4, <1>6

\* A resting record has its shape, before and after a change of the table.
LEMMA RestingShape ==
  ASSUME NEW h \in Handler, Resting(call'[h])
  PROVE  ShapeOf(call[h])'
BY DEF Resting, ShapeOf, Critical

\* The lock when its holder gives it back.
LEMMA UnlockEmpties ==
  ASSUME Inv, NEW h \in Handler, h \in mu, Unlock(h)
  PROVE  mu' = {}
BY DEF Inv, LockDiscipline, Unlock

\* What an add makes of the first route it still has to add.
LEMMA Converts ==
  ASSUME NEW c \in Call, c.todo # <<>>, Readable(Head(c.todo))
  PROVE  LET cp == Converted(Head(c.todo))
             todo == <<cp>> \o Tail(c.todo)
         IN  /\ cp \in Kept /\ cp \in Checkpoint
             /\ todo \in Seq(Checkpoint) /\ todo # <<>>
             /\ Head(todo) = cp /\ Tail(todo) = Tail(c.todo)
<1> DEFINE cp == Converted(Head(c.todo))
           rest == Tail(c.todo)
<1>1. c.todo \in Seq(Checkpoint)
  BY DEF Call
<1>2. rest \in Seq(Checkpoint) /\ cp \in Kept /\ cp \in Checkpoint
  BY <1>1, TailElements, KeptWithin
<1> HIDE DEF cp, rest
<1>3. /\ <<cp>> \o rest \in Seq(Checkpoint) /\ <<cp>> \o rest # <<>>
      /\ Head(<<cp>> \o rest) = cp /\ Tail(<<cp>> \o rest) = rest
  BY <1>2, PrependedElements
<1> QED  BY <1>2, <1>3 DEF cp, rest

\* An add that takes the lock has refused what conflicts.
LEMMA AddLockStep ==
  ASSUME Inv, NEW h \in Handler, AddLock(h)
  PROVE  Inv'
<1> DEFINE cp == Converted(Head(call[h].todo))
           rest == Tail(call[h].todo)
<1>1. /\ UNCHANGED <<order, byID, mounts, file, main>>
      /\ mu = {}
      /\ call[h].pc = "add" /\ call[h] \in Call /\ call[h].todo # <<>>
  BY DEF AddLock, Lock, Inv, TypeOK, CallShape, ShapeOf
<1>2. /\ call' = [call EXCEPT ![h] = call'[h]]
      /\ call'[h] \in Call
      /\ ShapeOf(call[h])'
      /\ mu' = IF call'[h].pc \in Critical THEN {h} ELSE {}
  <2>1. CASE /\ ~Clashes(cp.path) /\ Lock(h)
             /\ call' = [call EXCEPT ![h].pc = "start", ![h].todo = <<cp>> \o rest]
    <3>0. <<cp>> \o rest \in Seq(Checkpoint) /\ cp \in Kept
          /\ <<cp>> \o rest # <<>> /\ Head(<<cp>> \o rest) = cp
      BY <1>1, Converts DEF AddLock
    <3> HIDE DEF cp, rest
    <3>1. /\ call' = [call EXCEPT ![h] = call'[h]]
          /\ call'[h] = [call[h] EXCEPT !.pc = "start", !.todo = <<cp>> \o rest]
      BY <2>1 DEF Inv, TypeOK
    <3>2. /\ call'[h] \in Call /\ call'[h].pc = "start"
          /\ call'[h].todo # <<>> /\ Head(call'[h].todo) = cp
      BY <1>1, <3>0, <3>1 DEF Call
    <3>3. ShapeOf(call[h])'
      BY <1>1, <2>1, <3>0, <3>2 DEF ShapeOf, Clashes
    <3> QED  BY <2>1, <3>1, <3>2, <3>3 DEF Lock, Critical
  <2>2. CASE FailAdd(h) /\ mu' = mu
    <3>1. /\ call' = [call EXCEPT ![h] = call'[h]]
          /\ call'[h] \in Call /\ Resting(call'[h])
      BY <2>2, FailAddRests DEF Inv
    <3> QED  BY <1>1, <2>2, <3>1, RestingShape DEF Resting
  <2> QED  BY <2>1, <2>2 DEF AddLock
<1>3. call' \in [Handler -> Call] /\ LockDiscipline' /\ CallShape'
  BY <1>1, <1>2, OwnRecord
<1>4. TypeOK'
  BY <1>1, <1>2, <1>3 DEF Inv, TypeOK
<1> QED  BY <1>1, <1>3, <1>4
         DEF Inv, FileShape, MainShape, RoutesDisjoint, IndexAgrees, CheckpointDisjoint

\* A delete that takes the lock has found its route.
LEMMA DeleteLockStep ==
  ASSUME Inv, NEW h \in Handler, DeleteLock(h)
  PROVE  Inv'
<1>1. /\ UNCHANGED <<order, byID, mounts, file, main>>
      /\ mu = {}
      /\ call[h].pc = "delete" /\ call[h] \in Call
      /\ call[h].todo = <<>> /\ call[h].left # <<>>
  BY DEF DeleteLock, Lock, Inv, TypeOK, CallShape, ShapeOf
<1>2. /\ call' = [call EXCEPT ![h] = call'[h]]
      /\ call'[h] \in Call
      /\ ShapeOf(call[h])'
      /\ mu' = IF call'[h].pc \in Critical THEN {h} ELSE {}
  <2>1. CASE Present(Head(call[h].left)) /\ Lock(h) /\ GoTo(h, "stop")
    <3>1. /\ call' = [call EXCEPT ![h] = call'[h]]
          /\ call'[h] = [call[h] EXCEPT !.pc = "stop"]
      BY <2>1 DEF GoTo, Inv, TypeOK
    <3>2. /\ call'[h] \in Call /\ call'[h].pc = "stop"
          /\ call'[h].left = call[h].left /\ call'[h].todo = call[h].todo
      BY <1>1, <3>1 DEF Call
    <3>3. ShapeOf(call[h])'
      BY <1>1, <2>1, <3>2 DEF ShapeOf, Present
    <3> QED  BY <2>1, <3>1, <3>2, <3>3 DEF Lock, Critical
  <2>2. CASE FinishDelete(h, FALSE) /\ mu' = mu
    <3>1. /\ call' = [call EXCEPT ![h] = call'[h]]
          /\ call'[h] \in Call /\ Resting(call'[h])
      BY <1>1, <2>2, FinishDeleteRests DEF Inv
    <3> QED  BY <1>1, <2>2, <3>1, RestingShape DEF Resting
  <2> QED  BY <2>1, <2>2 DEF DeleteLock
<1>3. call' \in [Handler -> Call] /\ LockDiscipline' /\ CallShape'
  BY <1>1, <1>2, OwnRecord
<1>4. TypeOK'
  BY <1>1, <1>2, <1>3 DEF Inv, TypeOK
<1> QED  BY <1>1, <1>3, <1>4
         DEF Inv, FileShape, MainShape, RoutesDisjoint, IndexAgrees, CheckpointDisjoint

-----------------------------------------------------------------------------
(***************************************************************************)
(* What happens to the table.                                              *)
(***************************************************************************)

\* A route that was found to conflict with none can be entered.
LEMMA EnterKeepsTable ==
  ASSUME TypeOK, RoutesDisjoint, IndexAgrees,
         NEW cp \in Kept, ~Clashes(cp.path), Enter(cp)
  PROVE  /\ order' \in Seq(Route) /\ order' # <<>>
         /\ byID' \in SUBSET Route
         /\ RoutesDisjoint' /\ IndexAgrees'
<1>1. PICK id \in RouteId :
        /\ Fresh(id)
        /\ order' = Append(order, [id |-> id, path |-> cp.path, target |-> cp.target])
        /\ byID' = byID \cup {[id |-> id, path |-> cp.path, target |-> cp.target]}
  BY DEF Enter
<1> DEFINE rt == [id |-> id, path |-> cp.path, target |-> cp.target]
           n == Len(order)
<1>2. rt \in Route
  BY DEF Kept, Route
<1>3. rt.id = id /\ rt.path = cp.path
  OBVIOUS
<1>4. n \in Nat /\ DOMAIN order = 1..n
  BY LenProperties DEF TypeOK
<1> HIDE DEF rt
<1>5. /\ order' \in Seq(Route) /\ order' # <<>>
      /\ Len(order') = n + 1
      /\ \A i \in 1..n : order'[i] = order[i]
      /\ order'[n + 1] = rt
  BY <1>1, <1>2, AppendProperties DEF TypeOK, rt
<1> HIDE DEF n
<1>6. DOMAIN order' = 1..(n + 1)
  BY <1>5, LenProperties
<1>7. \A i \in DOMAIN order' : i \in 1..n \/ i = n + 1
  BY <1>4, <1>6
<1>8. RoutesDisjoint'
  <2> SUFFICES ASSUME NEW i \in DOMAIN order', NEW j \in DOMAIN order', i # j
               PROVE  <<order'[i].path, order'[j].path>> \notin Overlap
    BY DEF RoutesDisjoint
  <2>1. \A k \in 1..n : /\ order[k].path \in Path
                        /\ <<rt.path, order[k].path>> \notin Overlap
    <3>1. \A k \in 1..n : order[k] \in Route
      BY <1>4, ElementOfSeq DEF TypeOK, n
    <3> QED  BY <1>3, <1>4, <3>1, KeptWithin DEF Clashes, Route
  <2>2. rt.path \in Path
    BY <1>2, KeptWithin DEF Route
  <2>3. \A k \in 1..n : <<order[k].path, rt.path>> \notin Overlap
    BY <2>1, <2>2, OverlapAssumption
  <2>4. CASE i \in 1..n /\ j \in 1..n
    BY <2>4, <1>4, <1>5 DEF RoutesDisjoint
  <2>5. CASE i \in 1..n /\ j = n + 1
    BY <2>5, <1>5, <2>3
  <2>6. CASE i = n + 1 /\ j \in 1..n
    BY <2>6, <1>5, <2>1
  <2> QED  BY <1>7, <2>4, <2>5, <2>6
<1>9. IndexAgrees'
  <2>1. byID' = Range(order')
    <3>1. Range(order') = {order'[i] : i \in DOMAIN order'}
      BY DEF Range
    <3>2. byID = {order[i] : i \in 1..n}
      BY <1>4 DEF IndexAgrees, Range
    <3>3. byID' = byID \cup {rt}
      BY <1>1 DEF rt
    <3>4. n + 1 \in DOMAIN order' /\ 1..n \subseteq DOMAIN order'
      BY <1>4, <1>6
    <3> QED  BY <1>5, <1>7, <3>1, <3>2, <3>3, <3>4
  <2>2. ASSUME NEW i \in DOMAIN order', NEW j \in DOMAIN order',
               order'[i].id = order'[j].id
        PROVE  i = j
    <3>1. \A k \in 1..n : order[k].id # rt.id
      BY <1>1, <1>3, <1>4 DEF Fresh
    <3>2. CASE i \in 1..n /\ j \in 1..n
      BY <2>2, <3>2, <1>4, <1>5 DEF IndexAgrees
    <3>3. CASE i \in 1..n /\ j = n + 1
      BY <2>2, <3>1, <3>3, <1>5
    <3>4. CASE i = n + 1 /\ j \in 1..n
      BY <2>2, <3>1, <3>4, <1>5
    <3> QED  BY <1>7, <3>2, <3>3, <3>4
  <2> QED  BY <2>1, <2>2 DEF IndexAgrees
<1> QED  BY <1>1, <1>2, <1>5, <1>8, <1>9 DEF TypeOK, rt

\* A route can be taken out, wherever it is.
LEMMA RemovalKeepsTable ==
  ASSUME TypeOK, RoutesDisjoint, IndexAgrees,
         NEW i \in 1..Len(order),
         order' \in Seq(Route),
         Len(order') = Len(order) - 1,
         \A j \in 1..(Len(order) - 1) :
           order'[j] = IF j < i THEN order[j] ELSE order[j + 1],
         byID' = {rt \in byID : rt.id # order[i].id}
  PROVE  RoutesDisjoint' /\ IndexAgrees'
<1> DEFINE n == Len(order)
           from(j) == IF j < i THEN j ELSE j + 1
<1>1. n \in Nat /\ DOMAIN order = 1..n
  BY LenProperties DEF TypeOK
<1>2. DOMAIN order' = 1..(n - 1)
  BY LenProperties
<1>3. i \in 1..n /\ \A j \in 1..(n - 1) : order'[j] = order[from(j)]
  OBVIOUS
<1> HIDE DEF n
<1>4. \A j \in 1..(n - 1) : from(j) \in 1..n /\ from(j) # i
  BY <1>1, <1>3
<1>5. \A j, k \in 1..(n - 1) : from(j) = from(k) => j = k
  BY <1>1, <1>3
<1>6. \A m \in 1..n : m # i => \E j \in 1..(n - 1) : from(j) = m
  <2> SUFFICES ASSUME NEW m \in 1..n, m # i
               PROVE  \E j \in 1..(n - 1) : from(j) = m
    OBVIOUS
  <2>1. CASE m < i
    <3>1. m \in 1..(n - 1) /\ from(m) = m
      BY <2>1, <1>1, <1>3
    <3> QED  BY <3>1
  <2>2. CASE m > i
    <3>1. m - 1 \in 1..(n - 1) /\ from(m - 1) = m
      BY <2>2, <1>1, <1>3
    <3> QED  BY <3>1
  <2> QED  BY <1>1, <1>3, <2>1, <2>2
<1> HIDE DEF from
<1>7. RoutesDisjoint'
  <2> SUFFICES ASSUME NEW j \in 1..(n - 1), NEW k \in 1..(n - 1), j # k
               PROVE  <<order'[j].path, order'[k].path>> \notin Overlap
    BY <1>2 DEF RoutesDisjoint
  <2>1. from(j) \in 1..n /\ from(k) \in 1..n /\ from(j) # from(k)
    BY <1>4, <1>5
  <2> QED  BY <1>1, <1>3, <2>1 DEF RoutesDisjoint
<1>8. IndexAgrees'
  <2>1. byID = {order[k] : k \in 1..n}
    BY <1>1 DEF IndexAgrees, Range
  <2>2. byID' \subseteq Range(order')
    <3> SUFFICES ASSUME NEW rt \in byID'
                 PROVE  rt \in Range(order')
      OBVIOUS
    <3>1. PICK m \in 1..n : rt = order[m]
      BY <2>1
    <3>2. m # i
      BY <3>1
    <3>3. PICK j \in 1..(n - 1) : from(j) = m
      BY <1>6, <3>2
    <3> QED  BY <1>2, <1>3, <3>1, <3>3 DEF Range
  <2>3. Range(order') \subseteq byID'
    <3> SUFFICES ASSUME NEW j \in 1..(n - 1)
                 PROVE  order'[j] \in byID'
      BY <1>2 DEF Range
    <3>1. order'[j] = order[from(j)] /\ from(j) \in 1..n /\ from(j) # i
      BY <1>3, <1>4
    <3>2. order[from(j)].id # order[i].id
      BY <1>1, <1>3, <3>1 DEF IndexAgrees
    <3> QED  BY <2>1, <3>1, <3>2
  <2>4. \A j, k \in 1..(n - 1) : order'[j].id = order'[k].id => j = k
    BY <1>1, <1>3, <1>4, <1>5 DEF IndexAgrees
  <2> QED  BY <1>2, <2>2, <2>3, <2>4 DEF IndexAgrees
<1> QED  BY <1>7, <1>8

-----------------------------------------------------------------------------
(***************************************************************************)
(* The steps of the holder of the lock.                                    *)
(***************************************************************************)

\* What the lock and its step say of the call that holds it.
LEMMA Holder ==
  ASSUME Inv, NEW h \in Handler, call[h].pc \in Critical
  PROVE  /\ h \in mu /\ mu = {h}
         /\ call[h] \in Call
         /\ ShapeOf(call[h])
BY DEF Inv, TypeOK, LockDiscipline, CallShape

\* A step to another one under the same lock, without any other change.
LEMMA GoToRecord ==
  ASSUME TypeOK, NEW h \in Handler,
         NEW pc \in {"save", "write", "undo"}, GoTo(h, pc)
  PROVE  /\ call' = [call EXCEPT ![h] = call'[h]]
         /\ call'[h] \in Call
         /\ call'[h].pc = pc
         /\ call'[h].todo = call[h].todo
         /\ call'[h].left = call[h].left
<1>1. /\ call[h] \in Call
      /\ call' = [call EXCEPT ![h] = call'[h]]
      /\ call'[h] = [call[h] EXCEPT !.pc = pc]
  BY DEF GoTo, TypeOK
<1> QED  BY <1>1 DEF Call

\* The route inserted conflicts with none: the lock was held since the check.
LEMMA AddStartStep ==
  ASSUME Inv, NEW h \in Handler, AddStart(h)
  PROVE  Inv'
<1> DEFINE cp == Head(call[h].todo)
<1>1. call[h].pc = "start" /\ UNCHANGED <<file, main>>
  BY DEF AddStart, StartPath
<1>2. /\ h \in mu /\ mu = {h} /\ call[h] \in Call
      /\ call[h].todo # <<>> /\ ~Clashes(cp.path)
  BY <1>1, Holder DEF Critical, ShapeOf
<1>3. cp \in Kept
  BY <1>1, Holder DEF Critical, ShapeOf
<1>4. CASE /\ mounts' = [mounts EXCEPT ![cp.path] = "live"]
           /\ Enter(cp) /\ GoTo(h, "save") /\ mu' = mu
  <2>1. /\ order' \in Seq(Route) /\ order' # <<>> /\ byID' \in SUBSET Route
        /\ RoutesDisjoint' /\ IndexAgrees'
    BY <1>2, <1>3, <1>4, EnterKeepsTable DEF Inv
  <2>2. /\ call' = [call EXCEPT ![h] = call'[h]] /\ call'[h] \in Call
        /\ call'[h].pc = "save" /\ call'[h].todo = call[h].todo
    BY <1>4, GoToRecord DEF Inv
  <2>3. ShapeOf(call[h])'
    BY <1>2, <2>1, <2>2 DEF ShapeOf
  <2>4. mu' = IF call'[h].pc \in Critical THEN {h} ELSE {}
    BY <1>2, <1>4, <2>2 DEF Critical
  <2>5. call' \in [Handler -> Call] /\ LockDiscipline' /\ CallShape'
    BY <1>2, <2>2, <2>3, <2>4, OwnRecord
  <2>6. TypeOK'
    BY <1>1, <1>4, <2>1, <2>5 DEF Inv, TypeOK
  <2> QED  BY <1>1, <2>1, <2>5, <2>6 DEF Inv, FileShape, MainShape, CheckpointDisjoint
<1>5. CASE FailAdd(h) /\ Unlock(h) /\ UNCHANGED <<order, byID, mounts>>
  <2>1. /\ call' = [call EXCEPT ![h] = call'[h]]
        /\ call'[h] \in Call /\ Resting(call'[h])
    BY <1>5, FailAddRests DEF Inv
  <2>2. ShapeOf(call[h])' /\ mu' = IF call'[h].pc \in Critical THEN {h} ELSE {}
    BY <1>2, <1>5, <2>1, RestingShape, UnlockEmpties DEF Resting
  <2>3. call' \in [Handler -> Call] /\ LockDiscipline' /\ CallShape'
    BY <1>2, <2>1, <2>2, OwnRecord
  <2>4. TypeOK'
    BY <1>1, <1>2, <1>5, <2>1, <2>3, UnlockEmpties DEF Inv, TypeOK
  <2> QED  BY <1>1, <1>5, <2>3, <2>4
           DEF Inv, FileShape, MainShape, RoutesDisjoint, IndexAgrees,
               CheckpointDisjoint
<1> QED  BY <1>4, <1>5 DEF AddStart, StartPath

\* The undo of an add takes its route out of both the list and the map.
LEMMA AddUndoStep ==
  ASSUME Inv, NEW h \in Handler, AddUndo(h)
  PROVE  Inv'
<1>1. /\ call[h].pc = "undo" /\ UNCHANGED <<file, main>>
      /\ order' = Front(order)
      /\ byID' = {rt \in byID : rt.id # Last(order).id}
      /\ \/ mounts' = [mounts EXCEPT ![Last(order).path] = "off"]
         \/ mounts' = mounts
      /\ FailAdd(h) /\ Unlock(h)
  BY DEF AddUndo, StopPath
<1>2. h \in mu /\ order # <<>>
  BY <1>1, Holder DEF Critical, ShapeOf
<1>3. RoutesDisjoint' /\ IndexAgrees' /\ order' \in Seq(Route)
  <2>1. /\ order' \in Seq(Route)
        /\ Len(order') = Len(order) - 1
        /\ \A j \in 1..(Len(order) - 1) : order'[j] = order[j]
        /\ Len(order) \in 1..Len(order)
        /\ Last(order) = order[Len(order)]
    BY <1>1, <1>2, FrontElements DEF Inv, TypeOK
  <2>2. Len(order) \in Nat
    BY LenProperties DEF Inv, TypeOK
  <2>3. \A j \in 1..(Len(order) - 1) : j < Len(order)
    BY <2>2
  <2>4. \A j \in 1..(Len(order) - 1) :
          order'[j] = IF j < Len(order) THEN order[j] ELSE order[j + 1]
    BY <2>1, <2>3
  <2>5. byID' = {rt \in byID : rt.id # order[Len(order)].id}
    BY <1>1, <2>1
  <2> QED  BY <2>1, <2>4, <2>5, RemovalKeepsTable DEF Inv
<1>4. /\ call' = [call EXCEPT ![h] = call'[h]]
      /\ call'[h] \in Call /\ Resting(call'[h])
  BY <1>1, FailAddRests DEF Inv
<1>5. ShapeOf(call[h])' /\ mu' = IF call'[h].pc \in Critical THEN {h} ELSE {}
  BY <1>1, <1>2, <1>4, RestingShape, UnlockEmpties DEF Resting
<1>6. call' \in [Handler -> Call] /\ LockDiscipline' /\ CallShape'
  BY <1>2, <1>4, <1>5, OwnRecord
<1>7. TypeOK'
  BY <1>1, <1>2, <1>3, <1>6, UnlockEmpties DEF Inv, TypeOK
<1> QED  BY <1>1, <1>3, <1>6, <1>7 DEF Inv, FileShape, MainShape, CheckpointDisjoint

\* A delete takes its route out of both, or leaves both.
LEMMA DeleteStopStep ==
  ASSUME Inv, NEW h \in Handler, DeleteStop(h)
  PROVE  Inv'
<1> DEFINE id == Head(call[h].left)
           i == IndexOf(id)
<1>1. call[h].pc = "stop" /\ UNCHANGED <<file, main>>
  BY DEF DeleteStop, StopPath
<1>2. /\ h \in mu /\ mu = {h}
      /\ call[h].todo = <<>> /\ call[h].left # <<>> /\ Present(id)
  BY <1>1, Holder DEF Critical, ShapeOf
<1>3. i \in DOMAIN order /\ order[i].id = id
  BY <1>2 DEF Present, IndexOf
<1>4. DOMAIN order = 1..Len(order)
  BY LenProperties DEF Inv, TypeOK
<1>5. CASE /\ mounts' = [mounts EXCEPT ![order[i].path] = "off"]
           /\ Leave(id) /\ GoTo(h, "save") /\ mu' = mu
  <2> HIDE DEF i
  <2>1. order' = RemoveAt(order, i) /\ byID' = {rt \in byID : rt.id # order[i].id}
    BY <1>3, <1>5 DEF Leave, i
  <2>2. /\ order' \in Seq(Route)
        /\ Len(order') = Len(order) - 1
        /\ \A j \in 1..(Len(order) - 1) :
             order'[j] = IF j < i THEN order[j] ELSE order[j + 1]
    BY <1>3, <1>4, <2>1, RemoveAtElements DEF Inv, TypeOK
  <2>3. RoutesDisjoint' /\ IndexAgrees'
    BY <1>3, <1>4, <2>1, <2>2, RemovalKeepsTable DEF Inv
  <2>4. /\ call' = [call EXCEPT ![h] = call'[h]] /\ call'[h] \in Call
        /\ call'[h].pc = "save" /\ call'[h].todo = call[h].todo
        /\ call'[h].left = call[h].left
    BY <1>5, GoToRecord DEF Inv
  <2>5. ShapeOf(call[h])'
    BY <1>2, <2>4 DEF ShapeOf
  <2>6. mu' = IF call'[h].pc \in Critical THEN {h} ELSE {}
    BY <1>2, <1>5, <2>4 DEF Critical
  <2>7. call' \in [Handler -> Call] /\ LockDiscipline' /\ CallShape'
    BY <1>2, <2>4, <2>5, <2>6, OwnRecord
  <2>8. TypeOK'
    BY <1>1, <1>5, <2>1, <2>2, <2>7 DEF Inv, TypeOK
  <2> QED  BY <1>1, <2>3, <2>7, <2>8 DEF Inv, FileShape, MainShape, CheckpointDisjoint
<1>6. CASE FinishDelete(h, FALSE) /\ Unlock(h) /\ UNCHANGED <<order, byID, mounts>>
  <2>1. /\ call' = [call EXCEPT ![h] = call'[h]]
        /\ call'[h] \in Call /\ Resting(call'[h])
    BY <1>2, <1>6, FinishDeleteRests DEF Inv
  <2>2. ShapeOf(call[h])' /\ mu' = IF call'[h].pc \in Critical THEN {h} ELSE {}
    BY <1>2, <1>6, <2>1, RestingShape, UnlockEmpties DEF Resting
  <2>3. call' \in [Handler -> Call] /\ LockDiscipline' /\ CallShape'
    BY <1>2, <2>1, <2>2, OwnRecord
  <2>4. TypeOK'
    BY <1>1, <1>2, <1>6, <2>1, <2>3, UnlockEmpties DEF Inv, TypeOK
  <2> QED  BY <1>1, <1>6, <2>3, <2>4
           DEF Inv, FileShape, MainShape, RoutesDisjoint, IndexAgrees,
               CheckpointDisjoint
<1> QED  BY <1>5, <1>6 DEF DeleteStop, StopPath

\* How a save ends: the call goes on, or gives the lock back.
LEMMA SaveEnds ==
  ASSUME Inv, NEW h \in Handler, call[h].pc \in {"save", "write"},
         order' = order, SaveSucceeds(h) \/ SaveFails(h)
  PROVE  /\ h \in mu
         /\ mu' \in SUBSET Handler
         /\ call' \in [Handler -> Call] /\ LockDiscipline' /\ CallShape'
<1>1. /\ h \in mu /\ mu = {h} /\ call[h] \in Call /\ ShapeOf(call[h])
      /\ call[h].todo # <<>> => order # <<>>
  BY Holder DEF Critical, ShapeOf
<1>2. CASE ~Adding(h) /\ Unlock(h) /\ \E ok \in BOOLEAN : FinishDelete(h, ok)
  <2>1. call[h].todo = <<>> /\ call[h].left # <<>>
    BY <1>1, <1>2 DEF Adding, ShapeOf
  <2>2. /\ call' = [call EXCEPT ![h] = call'[h]]
        /\ call'[h] \in Call /\ Resting(call'[h])
    BY <1>2, <2>1, FinishDeleteRests DEF Inv
  <2>3. ShapeOf(call[h])' /\ mu' = IF call'[h].pc \in Critical THEN {h} ELSE {}
    BY <1>1, <1>2, <2>2, RestingShape, UnlockEmpties DEF Resting
  <2> QED  BY <1>1, <2>2, <2>3, OwnRecord
<1>3. CASE Adding(h) /\ Unlock(h) /\ FinishAdd(h)
  <2>1. call[h].todo # <<>> /\ order # <<>>
    BY <1>1, <1>3 DEF Adding
  <2>2. /\ call' = [call EXCEPT ![h] = call'[h]]
        /\ call'[h] \in Call /\ Resting(call'[h])
    BY <1>3, <2>1, FinishAddRests DEF Inv
  <2>3. ShapeOf(call[h])' /\ mu' = IF call'[h].pc \in Critical THEN {h} ELSE {}
    BY <1>1, <1>3, <2>2, RestingShape, UnlockEmpties DEF Resting
  <2> QED  BY <1>1, <2>2, <2>3, OwnRecord
<1>4. CASE Adding(h) /\ GoTo(h, "undo") /\ mu' = mu
  <2>1. call[h].todo # <<>> /\ order # <<>>
    BY <1>1, <1>4 DEF Adding
  <2>2. /\ call' = [call EXCEPT ![h] = call'[h]] /\ call'[h] \in Call
        /\ call'[h].pc = "undo" /\ call'[h].todo = call[h].todo
    BY <1>4, GoToRecord DEF Inv
  <2>3. ShapeOf(call[h])'
    BY <2>1, <2>2 DEF ShapeOf
  <2>4. mu' = IF call'[h].pc \in Critical THEN {h} ELSE {}
    BY <1>1, <1>4, <2>2 DEF Critical
  <2> QED  BY <1>1, <2>2, <2>3, <2>4, OwnRecord
<1> QED  BY <1>2, <1>3, <1>4 DEF SaveSucceeds, SaveFails

\* A file without content holds no conflicting paths.
LEMMA EmptyFile ==
  ASSUME Inv, file' \in {file, NoFile, Truncated, Garbled}
  PROVE  file' \in File /\ FileShape' /\ CheckpointDisjoint'
<1>1. CASE file' = file
  BY <1>1 DEF Inv, TypeOK, FileShape, CheckpointDisjoint
<1>2. CASE file' \in {NoFile, Truncated, Garbled}
  <2>1. file'.kind # "full" /\ file'.cps = <<>>
    BY <1>2 DEF NoFile, Truncated, Garbled
  <2>2. DOMAIN file'.cps = {}
    BY <2>1
  <2> QED  BY <1>2, <2>1, <2>2, Constants DEF FileShape, CheckpointDisjoint
<1> QED  BY <1>1, <1>2

\* What is left of the invariant when the table stays as it is: the file is
\* the old one, holds nothing, or holds the table.
LEMMA FileStep ==
  ASSUME Inv, UNCHANGED <<order, byID, mounts, main>>,
         mu' \in SUBSET Handler,
         call' \in [Handler -> Call], LockDiscipline', CallShape',
         \/ file' \in {file, NoFile, Truncated, Garbled}
         \/ file' = Saved(Cps(order)) /\ order # <<>>
  PROVE  Inv'
<1>1. CASE file' \in {file, NoFile, Truncated, Garbled}
  <2>1. file' \in File /\ FileShape' /\ CheckpointDisjoint'
    BY <1>1, EmptyFile
  <2> QED  BY <2>1 DEF Inv, TypeOK, MainShape, RoutesDisjoint, IndexAgrees
<1>2. CASE file' = Saved(Cps(order)) /\ order # <<>>
  <2>1. /\ Cps(order) \in Seq(Kept) /\ Len(Cps(order)) = Len(order)
        /\ \A i \in 1..Len(order) : Cps(order)[i].path = order[i].path
    BY CpsElements DEF Inv, TypeOK
  <2>2. DOMAIN order = 1..Len(order) /\ DOMAIN Cps(order) = 1..Len(order)
    BY <2>1, LenProperties DEF Inv, TypeOK
  <2>3. Cps(order) # <<>>
    BY <1>2, <2>1, EmptySeq DEF Inv, TypeOK
  <2>4. file' \in File /\ FileShape'
    BY <1>2, <2>1, <2>3 DEF Saved, File, FileShape
  <2>5. CheckpointDisjoint'
    BY <1>2, <2>1, <2>2 DEF Saved, CheckpointDisjoint, Inv, RoutesDisjoint
  <2> QED  BY <2>4, <2>5 DEF Inv, TypeOK, MainShape, RoutesDisjoint, IndexAgrees
<1> QED  BY <1>1, <1>2

\* Opening the file truncates it, or leaves it as it was.
LEMMA SaveOpenStep ==
  ASSUME Inv, NEW h \in Handler, SaveOpen(h)
  PROVE  Inv'
<1>1. call[h].pc = "save" /\ UNCHANGED <<order, byID, mounts, main>>
  BY DEF SaveOpen
<1>2. CASE file' \in {file, NoFile} /\ (SaveSucceeds(h) \/ SaveFails(h))
  BY <1>1, <1>2, SaveEnds, FileStep
<1>3. CASE order # <<>> /\ file' = Truncated /\ GoTo(h, "write") /\ mu' = mu
  <2>1. h \in mu /\ mu = {h} /\ mu \in SUBSET Handler /\ ShapeOf(call[h])
    BY <1>1, Holder DEF Critical, Inv, TypeOK
  <2>2. /\ call' = [call EXCEPT ![h] = call'[h]] /\ call'[h] \in Call
        /\ call'[h].pc = "write" /\ call'[h].todo = call[h].todo
        /\ call'[h].left = call[h].left
    BY <1>3, GoToRecord DEF Inv
  <2>3. ShapeOf(call[h])'
    BY <1>1, <1>3, <2>1, <2>2 DEF ShapeOf
  <2>4. mu' = IF call'[h].pc \in Critical THEN {h} ELSE {}
    BY <1>3, <2>1, <2>2 DEF Critical
  <2>5. call' \in [Handler -> Call] /\ LockDiscipline' /\ CallShape'
    BY <2>1, <2>2, <2>3, <2>4, OwnRecord
  <2> QED  BY <1>1, <1>3, <2>1, <2>5, FileStep
<1> QED  BY <1>2, <1>3 DEF SaveOpen

\* The write completes the file of the table that no other call can change.
LEMMA SaveWriteStep ==
  ASSUME Inv, NEW h \in Handler, SaveWrite(h)
  PROVE  Inv'
<1>1. /\ call[h].pc = "write" /\ UNCHANGED <<order, byID, mounts, main>>
      /\ SaveSucceeds(h) \/ SaveFails(h)
      /\ file' \in {NoFile, Truncated, Garbled, Saved(Cps(order))}
  BY DEF SaveWrite, Written
<1>2. order # <<>>
  BY <1>1, Holder DEF Critical, ShapeOf
<1> QED  BY <1>1, <1>2, SaveEnds, FileStep

-----------------------------------------------------------------------------
(***************************************************************************)
(* The steps of the main goroutine, and the end of the process.            *)
(***************************************************************************)

\* Shutting down changes the mounts and the file, never the table.
LEMMA MainStep ==
  ASSUME Inv, UNCHANGED <<order, byID, mu, call>>,
         main' \in Main, MainShape',
         mounts' \in [Path -> {"off", "live", "stale"}],
         file' \in {file, NoFile}
  PROVE  Inv'
<1>1. file' \in File /\ FileShape' /\ CheckpointDisjoint'
  BY EmptyFile
<1>2. LockDiscipline' /\ CallShape'
  BY DEF Inv, LockDiscipline, CallShape, ShapeOf, Clashes, Present
<1> QED  BY <1>1, <1>2 DEF Inv, TypeOK, RoutesDisjoint, IndexAgrees

\* What main does between the signal and the exit leaves the table alone.
LEMMA ShutdownStep ==
  ASSUME Inv, Signal \/ Snapshot \/ StopNext \/ RemoveFile \/ Boot
  PROVE  Inv'
<1>0. /\ main \in Main /\ main.left \in Seq(Path)
      /\ mounts \in [Path -> {"off", "live", "stale"}]
      /\ main.pc = "stop" => main.left # <<>>
  BY DEF Inv, TypeOK, Main, MainShape
<1>1. CASE Signal
  BY <1>0, <1>1, MainStep DEF Signal, Main, MainShape
<1>2. CASE Snapshot
  <2> DEFINE paths == [i \in DOMAIN order |-> order[i].path]
  <2>1. paths \in Seq(Path)
    <3>1. /\ Len(order) \in Nat /\ DOMAIN order = 1..Len(order)
          /\ \A i \in 1..Len(order) : order[i] \in Route
      BY LenProperties, ElementOfSeq DEF Inv, TypeOK
    <3>2. paths \in [1..Len(order) -> Path]
      BY <3>1, KeptWithin DEF Route
    <3> QED  BY <3>1, <3>2, SeqDef
  <2>2. main' = [pc |-> AfterStop(paths), left |-> paths]
    BY <1>2 DEF Snapshot
  <2> HIDE DEF paths
  <2>3. main' \in Main /\ MainShape'
    BY <2>1, <2>2 DEF Main, MainShape, AfterStop
  <2> QED  BY <1>0, <1>2, <2>3, MainStep DEF Snapshot
<1>3. CASE StopNext
  <2>1. Tail(main.left) \in Seq(Path)
    BY <1>0, <1>3, TailElements DEF StopNext, StopPath
  <2>2. main' = [pc |-> AfterStop(Tail(main.left)), left |-> Tail(main.left)]
    BY <1>3 DEF StopNext, StopPath
  <2>3. main' \in Main /\ MainShape'
    BY <2>1, <2>2 DEF Main, MainShape, AfterStop
  <2>4. mounts' \in [Path -> {"off", "live", "stale"}]
    BY <1>0, <1>3 DEF StopNext, StopPath
  <2> QED  BY <1>3, <2>3, <2>4, MainStep DEF StopNext, StopPath
<1>4. CASE RemoveFile
  BY <1>0, <1>4, MainStep DEF RemoveFile, Main, MainShape
<1>5. CASE Boot
  BY <1>0, <1>5, MainStep DEF Boot, Main, MainShape
<1> QED  BY <1>1, <1>2, <1>3, <1>4, <1>5

\* An idle process: no routes, no calls, the lock free.
LEMMA IdleProcess ==
  ASSUME order = <<>>, byID = {}, mu = {}, call = [h \in Handler |-> Idle]
  PROVE  /\ order \in Seq(Route) /\ byID \in SUBSET Route
         /\ call \in [Handler -> Call]
         /\ LockDiscipline /\ CallShape /\ RoutesDisjoint /\ IndexAgrees
<1>1. order \in Seq(Route) /\ byID \in SUBSET Route /\ DOMAIN order = {}
  OBVIOUS
<1>2. \A h \in Handler : call[h].pc = "idle"
  BY DEF Idle
<1> QED  BY <1>1, <1>2, Constants
         DEF LockDiscipline, Critical, CallShape, ShapeOf, RoutesDisjoint,
             IndexAgrees, Range

\* A process that dies leaves an empty table, no lock and no call.
LEMMA DieStep ==
  ASSUME Inv, Exit \/ Crash
  PROVE  Inv'
<1>1. /\ main' \in {[pc |-> "exited", left |-> <<>>], [pc |-> "crashed", left |-> <<>>]}
      /\ order' = <<>> /\ byID' = {} /\ mu' = {}
      /\ mounts' = MountsAtDeath /\ file' = file
      /\ call' = [h \in Handler |-> Idle]
  BY DEF Exit, Crash, Die
<1>2. /\ order' \in Seq(Route) /\ byID' \in SUBSET Route
      /\ call' \in [Handler -> Call]
      /\ LockDiscipline' /\ CallShape' /\ RoutesDisjoint' /\ IndexAgrees'
  <2>1. order' \in Seq(Route) /\ byID' \in SUBSET Route /\ DOMAIN order' = {}
    BY <1>1
  <2>2. \A h \in Handler : call'[h].pc = "idle"
    BY <1>1 DEF Idle
  <2> QED  BY <1>1, <2>1, <2>2, Constants
           DEF LockDiscipline, Critical, CallShape, ShapeOf, RoutesDisjoint,
               IndexAgrees, Range
<1>3. main' \in Main /\ MainShape'
  <2>1. <<>> \in Seq(Path)
    OBVIOUS
  <2>2. main'.pc # "stop"
    BY <1>1
  <2>3. main' \in Main
    <3> DEFINE gone(pc) == [pc |-> pc, left |-> <<>>]
    <3>1. gone("exited") \in Main /\ gone("crashed") \in Main
      BY <2>1 DEF Main
    <3> QED  BY <1>1, <3>1
  <2> QED  BY <2>2, <2>3 DEF MainShape
<1>4. mounts' \in [Path -> {"off", "live", "stale"}]
  BY <1>1 DEF Inv, TypeOK, MountsAtDeath
<1> QED  BY <1>1, <1>2, <1>3, <1>4 DEF Inv, TypeOK, FileShape, CheckpointDisjoint

-----------------------------------------------------------------------------
(***************************************************************************)
(* The theorems.                                                           *)
(***************************************************************************)
\* A process starts with an empty table and no call.
LEMMA InitInv == Init => Inv
<1> SUFFICES ASSUME Init
             PROVE  Inv
  OBVIOUS
<1>1. /\ order \in Seq(Route) /\ byID \in SUBSET Route
      /\ call \in [Handler -> Call]
      /\ LockDiscipline /\ CallShape /\ RoutesDisjoint /\ IndexAgrees
  BY IdleProcess DEF Init
<1>2. main \in Main /\ MainShape
  <2>1. <<>> \in Seq(Path)
    OBVIOUS
  <2> QED  BY <2>1 DEF Init, Main, MainShape
<1>3. file \in File /\ FileShape /\ CheckpointDisjoint
  BY Constants DEF Init, NoFile, FileShape, CheckpointDisjoint
<1> QED  BY <1>1, <1>2, <1>3 DEF Init, Inv, TypeOK

\* Every step keeps the invariant.
LEMMA NextInv == Inv /\ [Next]_vars => Inv'
<1> SUFFICES ASSUME Inv, [Next]_vars
             PROVE  Inv'
  OBVIOUS
<1>1. ASSUME NEW h \in Handler, Arrive(h) \/ Acquire(h) \/ Work(h)
      PROVE  Inv'
  BY <1>1, ArriveStep, AddLockStep, DeleteLockStep, AddStartStep, AddUndoStep,
     DeleteStopStep, SaveOpenStep, SaveWriteStep DEF Acquire, Work
<1>2. CASE Signal \/ Snapshot \/ StopNext \/ RemoveFile \/ Boot
  BY <1>2, ShutdownStep
<1>3. CASE Exit \/ Crash
  BY <1>3, DieStep
<1>4. CASE UNCHANGED vars
  BY <1>4 DEF vars, Inv, TypeOK, LockDiscipline, CallShape, ShapeOf, Clashes,
              Present, FileShape, MainShape, RoutesDisjoint, IndexAgrees,
              CheckpointDisjoint
<1> QED  BY <1>1, <1>2, <1>3, <1>4 DEF Next, Shutdown

\* The registry is always in a state its types allow.
THEOREM TypeCorrect == Spec => []TypeOK
<1>1. Inv => TypeOK
  BY DEF Inv
<1> QED  BY <1>1, InitInv, NextInv, PTL DEF Spec

\* No two routes of the table ever conflict.
THEOREM NoConflicts == Spec => []RoutesDisjoint
<1>1. Inv => RoutesDisjoint
  BY DEF Inv
<1> QED  BY <1>1, InitInv, NextInv, PTL DEF Spec

\* The map and the list of the registry always hold the same routes.
THEOREM IndexCorrect == Spec => []IndexAgrees
<1>1. Inv => IndexAgrees
  BY DEF Inv
<1> QED  BY <1>1, InitInv, NextInv, PTL DEF Spec

\* What a process leaves behind, wherever it dies, never holds two routes
\* that conflict.
THEOREM CheckpointsDisjoint == Spec => []CheckpointDisjoint
<1>1. Inv => CheckpointDisjoint
  BY DEF Inv
<1> QED  BY <1>1, InitInv, NextInv, PTL DEF Spec

-----------------------------------------------------------------------------
(***************************************************************************)
(* The registry implements the route table: every step publishes one       *)
(* route, withdraws one, forgets them all, or is not seen by a reader.     *)
(***************************************************************************)

\* The calls whose route is in the table and not yet to be seen.
Hides(h) == Adding(h) /\ call[h].pc \in {"save", "write", "undo"}

\* A reader sees the whole table unless the holder of the lock hides a route,
\* and then all of it but the last.
LEMMA SeenTable ==
  ASSUME Inv
  PROVE  /\ (\A h \in mu : ~Hides(h)) => Visible = byID
         /\ \A h \in mu : Hides(h) => Visible = byID \ {Last(order)}
BY DEF Visible, Hidden, Hides

\* The same, after a step.
LEMMA SeenTableAfter ==
  /\ (\A h \in mu' : ~Hides(h)') => Visible' = byID'
  /\ \A h \in mu' : Hides(h)' => Visible' = byID' \ {Last(order')}
BY DEF Visible, Hidden, Hides

\* The last route of the table differs from every other in its id, and
\* conflicts with none of them.
LEMMA LastStandsApart ==
  ASSUME Inv, order # <<>>
  PROVE  /\ Last(order) \in byID /\ Last(order) \in Route
         /\ \A rt \in byID \ {Last(order)} :
              /\ rt.id # Last(order).id
              /\ <<Last(order).path, rt.path>> \notin Overlap
<1> DEFINE n == Len(order)
<1>1. n \in Nat /\ DOMAIN order = 1..n /\ order \in Seq(Route)
  BY LenProperties DEF Inv, TypeOK
<1>2. n \in 1..n /\ Last(order) = order[n]
  BY <1>1, FrontElements
<1> HIDE DEF n
<1>3. byID = {order[i] : i \in 1..n}
  BY <1>1 DEF Inv, IndexAgrees, Range
<1>4. ASSUME NEW rt \in byID \ {Last(order)}
      PROVE  /\ rt.id # Last(order).id
             /\ <<Last(order).path, rt.path>> \notin Overlap
  <2>1. PICK i \in 1..n : rt = order[i]
    BY <1>3
  <2>2. i # n
    BY <1>2, <2>1
  <2> QED  BY <1>1, <1>2, <2>1, <2>2 DEF Inv, RoutesDisjoint, IndexAgrees
<1>5. order[n] \in Route
  BY <1>1, <1>2, ElementOfSeq DEF n
<1> QED  BY <1>2, <1>3, <1>4, <1>5

\* A step that changes neither the table nor what is hidden is not seen.
LEMMA UnseenStep ==
  ASSUME UNCHANGED <<order, byID>>, Hidden' = Hidden
  PROVE  Visible' = Visible
BY DEF Visible

\* A call arrives, is refused or leaves without a route of its own to hide.
LEMMA ArriveUnseen ==
  ASSUME Inv, NEW h \in Handler, Arrive(h) \/ Reply(h) \/ AddRefuse(h)
  PROVE  Visible' = Visible
<1>1. /\ UNCHANGED <<order, byID, mu>>
      /\ call[h].pc \notin Critical
      /\ \A g \in Handler : g # h => call'[g] = call[g]
  <2>0. call \in [Handler -> Call]
    BY DEF Inv, TypeOK
  <2>1. CASE AddCall(h)
    BY <2>0, <2>1 DEF AddCall, Accepts, Critical
  <2>2. CASE DeleteCall(h)
    BY <2>0, <2>2 DEF DeleteCall, Accepts, Critical
  <2>3. CASE RestoreCall(h)
    BY <2>0, <2>3 DEF RestoreCall, Accepts, Critical
  <2>4. CASE DismissCall(h)
    BY <2>0, <2>4 DEF DismissCall, Accepts, Critical
  <2>5. CASE Reply(h)
    BY <2>0, <2>5 DEF Reply, Critical
  <2>6. CASE AddRefuse(h)
    BY <2>0, <2>6 DEF AddRefuse, FailAdd, Critical
  <2> QED  BY <2>1, <2>2, <2>3, <2>4, <2>5, <2>6 DEF Arrive
<1>2. h \notin mu /\ mu \subseteq Handler
  BY <1>1 DEF Inv, LockDiscipline
<1>3. Hidden' = Hidden
  BY <1>1, <1>2 DEF Hidden, Adding
<1> QED  BY <1>1, <1>3, UnseenStep

\* Taking the lock, or being refused, hides nothing.
LEMMA AcquireUnseen ==
  ASSUME Inv, NEW h \in Handler, Acquire(h)
  PROVE  Visible' = Visible
<1>1. /\ UNCHANGED <<order, byID>> /\ mu = {}
      /\ \/ mu' = {}
         \/ mu' = {h} /\ call'[h].pc \in {"start", "stop"}
  <2>0. call \in [Handler -> Call] /\ call[h] \in Call
    BY DEF Inv, TypeOK
  <2>1. CASE AddLock(h)
    BY <2>0, <2>1 DEF AddLock, Lock, Call
  <2>2. CASE DeleteLock(h)
    <3>1. CASE Lock(h) /\ GoTo(h, "stop")
      <4>1. call'[h].pc = "stop"
        BY <2>0, <3>1 DEF GoTo, Call
      <4> QED  BY <2>2, <3>1, <4>1 DEF DeleteLock, Lock
    <3>2. CASE mu = {} /\ UNCHANGED mu
      BY <2>2, <3>2 DEF DeleteLock
    <3> QED  BY <2>2, <3>1, <3>2 DEF DeleteLock
  <2> QED  BY <2>1, <2>2 DEF Acquire
<1>3. Visible = byID
  BY <1>1, SeenTable
<1>4. Visible' = byID'
  BY <1>1, SeenTableAfter DEF Hides
<1> QED  BY <1>1, <1>3, <1>4

\* A route is hidden from the moment it enters the table.
LEMMA AddStartUnseen ==
  ASSUME Inv, NEW h \in Handler, AddStart(h)
  PROVE  Visible' = Visible
<1> DEFINE cp == Head(call[h].todo)
<1>1. call[h].pc = "start"
  BY DEF AddStart
<1>2. mu = {h} /\ call[h] \in Call /\ call[h].todo # <<>> /\ h \in mu
  BY <1>1, Holder DEF Critical, ShapeOf
<1>3. Visible = byID
  BY <1>1, <1>2, SeenTable DEF Hides
<1>4. CASE Enter(cp) /\ GoTo(h, "save") /\ mu' = mu
  <2>1. PICK id \in RouteId :
          /\ Fresh(id)
          /\ order' = Append(order, [id |-> id, path |-> cp.path, target |-> cp.target])
          /\ byID' = byID \cup {[id |-> id, path |-> cp.path, target |-> cp.target]}
    BY <1>4 DEF Enter
  <2> DEFINE rt == [id |-> id, path |-> cp.path, target |-> cp.target]
  <2>2. rt.id = id /\ rt \in Route
    <3>1. cp \in Kept
      BY <1>1, Holder DEF Critical, ShapeOf
    <3> QED  BY <3>1 DEF Kept, Route
  <2> HIDE DEF rt
  <2>3. Last(order') = rt
    <3>1. /\ Len(order) \in Nat
          /\ order' = Append(order, rt) /\ order \in Seq(Route)
      BY <2>1, LenProperties DEF Inv, TypeOK, rt
    <3>2. order' \in Seq(Route) /\ Len(order') = Len(order) + 1
          /\ order'[Len(order) + 1] = rt
      BY <2>2, <3>1, AppendProperties
    <3>3. order' # <<>>
      BY <3>1, <3>2
    <3> QED  BY <3>2, <3>3, FrontElements
  <2>4. rt \notin byID
    <3>1. \A i \in DOMAIN order : order[i].id # id
      BY <2>1 DEF Fresh
    <3> QED  BY <2>2, <3>1 DEF Inv, IndexAgrees, Range
  <2>5. h \in mu' /\ Hides(h)'
    <3>1. call'[h].pc = "save" /\ call'[h].todo = call[h].todo
      BY <1>4, GoToRecord DEF Inv
    <3> QED  BY <1>2, <1>4, <3>1 DEF Hides, Adding
  <2>6. Visible' = byID' \ {rt} /\ byID' = byID \cup {rt}
    BY <2>1, <2>3, <2>5, SeenTableAfter DEF rt
  <2> QED  BY <1>3, <2>4, <2>6
<1>5. CASE Unlock(h) /\ UNCHANGED <<order, byID>>
  <2>1. mu' = {}
    BY <1>2, <1>5, UnlockEmpties
  <2> QED  BY <1>3, <1>5, <2>1, SeenTableAfter
<1> QED  BY <1>4, <1>5 DEF AddStart

\* A route whose save failed leaves the table before anyone has seen it.
LEMMA AddUndoUnseen ==
  ASSUME Inv, NEW h \in Handler, AddUndo(h)
  PROVE  Visible' = Visible
<1>1. /\ call[h].pc = "undo" /\ Unlock(h)
      /\ byID' = {rt \in byID : rt.id # Last(order).id}
  BY DEF AddUndo
<1>2. h \in mu /\ ShapeOf(call[h]) /\ call[h].todo # <<>> /\ order # <<>>
  BY <1>1, Holder DEF Critical, ShapeOf
<1>3. Visible = byID \ {Last(order)}
  BY <1>1, <1>2, SeenTable DEF Hides, Adding
<1>4. Visible' = byID'
  BY <1>1, <1>2, UnlockEmpties, SeenTableAfter
<1> QED  BY <1>1, <1>2, <1>3, <1>4, LastStandsApart

\* A delete withdraws the route as soon as its mount is stopped, before the
\* smaller table is saved.
LEMMA DeleteStopSeen ==
  ASSUME Inv, NEW h \in Handler, DeleteStop(h)
  PROVE  Published!Withdraw \/ Visible' = Visible
<1> DEFINE id == Head(call[h].left)
           i == IndexOf(id)
<1>1. call[h].pc = "stop"
  BY DEF DeleteStop
<1>2. h \in mu /\ mu = {h} /\ call[h].todo = <<>> /\ Present(id)
  BY <1>1, Holder DEF Critical, ShapeOf
<1>3. Visible = byID
  BY <1>1, <1>2, SeenTable DEF Hides
<1>4. CASE Leave(id) /\ GoTo(h, "save") /\ mu' = mu
  <2>1. i \in DOMAIN order /\ order[i].id = id
    BY <1>2 DEF Present, IndexOf
  <2>2. byID' = {rt \in byID : rt.id # id}
    BY <1>4 DEF Leave
  <2> HIDE DEF id, i
  <2>3. order[i] \in byID /\ byID' = byID \ {order[i]}
    BY <2>1, <2>2 DEF Inv, IndexAgrees, Range
  <2>4. call'[h].todo = call[h].todo
    BY <1>4, GoToRecord DEF Inv
  <2>5. Visible' = byID'
    BY <1>2, <1>4, <2>4, SeenTableAfter DEF Hides, Adding
  <2> QED  BY <1>3, <2>3, <2>5 DEF Published!Withdraw
<1>5. CASE Unlock(h) /\ UNCHANGED <<order, byID>>
  <2>1. mu' = {}
    BY <1>2, <1>5, UnlockEmpties
  <2> QED  BY <1>3, <1>5, <2>1, SeenTableAfter
<1> QED  BY <1>4, <1>5 DEF DeleteStop

\* A successful save publishes the route it was for.
LEMMA SaveSeen ==
  ASSUME Inv, NEW h \in Handler, SaveOpen(h) \/ SaveWrite(h)
  PROVE  Published!Publish \/ Visible' = Visible
<1>1. /\ call[h].pc \in {"save", "write"} /\ UNCHANGED <<order, byID>>
      /\ \/ SaveSucceeds(h) \/ SaveFails(h)
         \/ GoTo(h, "write") /\ mu' = mu
  BY DEF SaveOpen, SaveWrite
<1>2. /\ h \in mu /\ mu = {h} /\ mu \subseteq Handler /\ call[h] \in Call
      /\ call[h].todo # <<>> => order # <<>>
  BY <1>1, Holder DEF Critical, ShapeOf, Inv, TypeOK
<1>3. CASE \E pc \in {"write", "undo"} : GoTo(h, pc) /\ mu' = mu
  <2>1. call'[h].todo = call[h].todo /\ call'[h].pc \in {"write", "undo"}
    BY <1>3, GoToRecord DEF Inv
  <2>2. Hidden' = Hidden
    BY <1>1, <1>2, <1>3, <2>1 DEF Hidden, Adding
  <2> QED  BY <1>1, <2>2, UnseenStep
<1>4. CASE Unlock(h) /\ ~Adding(h)
  <2>1. Visible = byID /\ Visible' = byID'
    BY <1>2, <1>4, UnlockEmpties, SeenTable, SeenTableAfter DEF Hides
  <2> QED  BY <1>1, <2>1
<1>5. CASE Unlock(h) /\ Adding(h)
  <2>1. order # <<>>
    BY <1>2, <1>5 DEF Adding
  <2>2. Visible = byID \ {Last(order)}
    BY <1>1, <1>2, <1>5, SeenTable DEF Hides
  <2>3. Visible' = byID
    BY <1>1, <1>2, <1>5, UnlockEmpties, SeenTableAfter
  <2>4. Last(order) \in Published!Route
    BY <2>1, LastStandsApart DEF Published!Route, Route
  <2>5. Visible' = Visible \cup {Last(order)}
    BY <2>1, <2>2, <2>3, LastStandsApart
  <2> QED  BY <2>1, <2>2, <2>4, <2>5, LastStandsApart DEF Published!Publish
<1> QED  BY <1>1, <1>3, <1>4, <1>5 DEF SaveSucceeds, SaveFails

\* Readers see whole routes appear and disappear one at a time, never two
\* that conflict, never one whose save fails, and none of a dead process.
THEOREM RefinesRouteTable == Spec => ImplementsRouteTable
<1>1. Init => Published!Init
  BY DEF Init, Published!Init, Visible, Hidden
<1>2. Inv /\ [Next]_vars => [Published!Next]_Visible
  <2> SUFFICES ASSUME Inv, [Next]_vars
               PROVE  Published!Next \/ Visible' = Visible
    OBVIOUS
  <2>1. ASSUME NEW h \in Handler, Arrive(h) \/ Acquire(h) \/ Work(h)
        PROVE  Published!Next \/ Visible' = Visible
    BY <2>1, ArriveUnseen, AcquireUnseen, AddStartUnseen, AddUndoUnseen,
       DeleteStopSeen, SaveSeen DEF Work, Published!Next
  <2>2. CASE Signal \/ Snapshot \/ StopNext \/ RemoveFile \/ Boot \/ UNCHANGED vars
    <3>1. UNCHANGED <<order, byID, mu, call>>
      BY <2>2 DEF Signal, Snapshot, StopNext, RemoveFile, Boot, vars
    <3>2. Hidden' = Hidden
      BY <3>1 DEF Hidden, Adding
    <3> QED  BY <3>1, <3>2, UnseenStep
  <2>3. CASE Exit \/ Crash
    <3>1. byID' = {} /\ mu' = {}
      BY <2>3 DEF Exit, Crash, Die
    <3>2. Visible' = {}
      BY <3>1, SeenTableAfter
    <3> QED  BY <3>2 DEF Published!Next, Published!Forget
  <2> QED  BY <2>1, <2>2, <2>3 DEF Next, Shutdown
<1> QED  BY <1>1, <1>2, InitInv, NextInv, PTL
         DEF Spec, ImplementsRouteTable, Published!Spec

=============================================================================
