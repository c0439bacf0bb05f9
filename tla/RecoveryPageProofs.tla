-------------------------- MODULE RecoveryPageProofs --------------------------
(***************************************************************************)
(* Theorems about recovery: what a restore does when it is the only call   *)
(* under way and no command fails, and what the page that asked for it has *)
(* shown.                                                                  *)
(***************************************************************************)
EXTENDS RecoveryPage, RegistryFaultProofs

\* One call at a time.
Alone == \A g, h \in Handler : g = h

\* No command and no system call fails.
NoFaults == Faults = {}

\* The inductive invariant of the registry with one caller: what FaultInv says,
\* how far a restore has come, and that no one removes a file that is written.
OneInv ==
  /\ FaultInv
  /\ \A h \in Handler :
       /\ RolledBack(call[h])
       /\ call[h].pc = "write" /\ main.pc = "run" => file = Truncated

-----------------------------------------------------------------------------
(***************************************************************************)
(* Facts about values.                                                     *)
(***************************************************************************)

\* Taking the head of what is to come to the end of what was changes nothing.
LEMMA MoveHead ==
  ASSUME NEW S, NEW s \in Seq(S), NEW t \in Seq(S), t # <<>>
  PROVE  Append(s, Head(t)) \o Tail(t) = s \o t
<1> DEFINE n == Len(s)
           m == Len(t)
           u == Append(s, Head(t))
           v == u \o Tail(t)
           w == s \o t
<1>1. n \in Nat /\ m \in Nat /\ m >= 1 /\ Head(t) = t[1] /\ Head(t) \in S
  BY EmptySeq, LenProperties, HeadTailProperties
<1>2. /\ Tail(t) \in Seq(S) /\ Len(Tail(t)) = m - 1
      /\ \A j \in 1..(m - 1) : Tail(t)[j] = t[j + 1]
  BY HeadTailProperties
<1>3. /\ u \in Seq(S) /\ Len(u) = n + 1
      /\ \A i \in 1..n : u[i] = s[i]
      /\ u[n + 1] = t[1]
  BY <1>1, AppendProperties
<1> HIDE DEF u
<1>4. /\ v \in Seq(S) /\ Len(v) = Len(u) + Len(Tail(t))
      /\ \A i \in 1..(Len(u) + Len(Tail(t))) :
           v[i] = IF i <= Len(u) THEN u[i] ELSE Tail(t)[i - Len(u)]
  BY <1>2, <1>3, ConcatProperties
<1>5. /\ w \in Seq(S) /\ Len(w) = n + m
      /\ \A i \in 1..(n + m) : w[i] = IF i <= n THEN s[i] ELSE t[i - n]
  BY ConcatProperties
<1> HIDE DEF v, w, n, m
<1>6. Len(u) + Len(Tail(t)) = n + m
  <2>1. \A a, b \in Nat : (a + 1) + (b - 1) = a + b
    OBVIOUS
  <2>2. (n + 1) + (m - 1) = n + m
    BY <1>1, <2>1
  <2> QED  BY <1>2, <1>3, <2>2, Zenon
<1>7. ASSUME NEW i \in 1..(n + m)
      PROVE  v[i] = w[i]
  <2>1. v[i] = IF i <= n + 1 THEN u[i] ELSE Tail(t)[i - (n + 1)]
    <3>1. i \in 1..(Len(u) + Len(Tail(t)))
      BY <1>6, Zenon
    <3>2. v[i] = IF i <= Len(u) THEN u[i] ELSE Tail(t)[i - Len(u)]
      BY <1>4, <3>1, Zenon
    <3> QED  BY <1>3, <3>2, Zenon
  <2>2. CASE i <= n
    <3>1. i <= n + 1 /\ i \in 1..n
      BY <1>1, <2>2
    <3>2. v[i] = u[i]
      BY <2>1, <3>1
    <3>3. w[i] = s[i]
      BY <1>5, <2>2
    <3> QED  BY <1>3, <3>1, <3>2, <3>3
  <2>3. CASE i = n + 1
    <3>1. i <= n + 1 /\ ~(i <= n) /\ i - n = 1
      BY <1>1, <2>3
    <3>2. v[i] = u[n + 1]
      BY <2>1, <2>3, <3>1
    <3>3. w[i] = t[1]
      BY <1>5, <3>1
    <3> QED  BY <1>3, <3>2, <3>3
  <2>4. CASE i > n + 1
    <3>1. /\ ~(i <= n + 1) /\ ~(i <= n)
          /\ i - (n + 1) \in 1..(m - 1) /\ i - (n + 1) + 1 = i - n
      BY <1>1, <2>4
    <3>2. v[i] = Tail(t)[i - (n + 1)]
      BY <2>1, <3>1
    <3>3. w[i] = t[i - n]
      BY <1>5, <3>1
    <3>4. Tail(t)[i - (n + 1)] = t[i - (n + 1) + 1]
      BY <1>2, <3>1
    <3> QED  BY <3>1, <3>2, <3>3, <3>4
  <2> QED  BY <1>1, <2>2, <2>3, <2>4
<1>8. v = w
  <2>1. Len(v) = n + m
    BY <1>4, <1>6, Zenon
  <2> QED  BY <1>4, <1>5, <1>7, <2>1, SeqEqual
<1> QED  BY <1>8 DEF v, w, u

\* A route that enters the table adds the checkpoint it was made from.
LEMMA CpsAppend ==
  ASSUME NEW s \in Seq(Route), NEW id \in RouteId, NEW cp \in Kept
  PROVE  Cps(Append(s, [id |-> id, path |-> cp.path, target |-> cp.target]))
           = Append(Cps(s), cp)
<1> DEFINE rt == [id |-> id, path |-> cp.path, target |-> cp.target]
           n == Len(s)
           t == Append(s, rt)
<1>1. /\ rt \in Route /\ rt.path = cp.path /\ rt.target = cp.target
      /\ cp = [path |-> cp.path, target |-> cp.target]
  BY DEF Route, Kept
<1> HIDE DEF rt
<1>2. /\ t \in Seq(Route) /\ Len(t) = n + 1 /\ n \in Nat
      /\ \A i \in 1..n : t[i] = s[i]
      /\ t[n + 1] = rt
  BY <1>1, AppendProperties, LenProperties
<1> HIDE DEF t
<1>3. DOMAIN t = 1..(n + 1) /\ DOMAIN s = 1..n
  BY <1>2, LenProperties
<1>4. Cps(s) \in Seq(Kept) /\ Len(Cps(s)) = n
  BY CpsElements
<1>5. Cps(t) \in Seq(Kept) /\ Len(Cps(t)) = n + 1
  BY <1>2, CpsElements
<1>6. /\ Append(Cps(s), cp) \in Seq(Kept) /\ Len(Append(Cps(s), cp)) = n + 1
      /\ \A i \in 1..n : Append(Cps(s), cp)[i] = Cps(s)[i]
      /\ Append(Cps(s), cp)[n + 1] = cp
  BY <1>4, AppendProperties
<1> HIDE DEF n
<1>7. ASSUME NEW i \in 1..(n + 1)
      PROVE  Cps(t)[i] = Append(Cps(s), cp)[i]
  <2>1. Cps(t)[i] = [path |-> t[i].path, target |-> t[i].target]
    BY <1>3 DEF Cps
  <2>2. CASE i \in 1..n
    <3>1. Cps(s)[i] = [path |-> s[i].path, target |-> s[i].target]
      BY <1>3, <2>2 DEF Cps
    <3> QED  BY <1>2, <1>6, <2>1, <2>2, <3>1
  <2>3. CASE i = n + 1
    BY <1>1, <1>2, <1>6, <2>1, <2>3
  <2>4. i \in 1..n \/ i = n + 1
    <3>1. n \in Nat
      BY <1>2
    <3> QED  BY <3>1
  <2> QED  BY <2>2, <2>3, <2>4
<1>8. Cps(t) = Append(Cps(s), cp)
  BY <1>5, <1>6, <1>7, SeqEqual
<1> QED  BY <1>8 DEF t, rt

\* The elements of the parts of a sequence.
LEMMA PartElements ==
  ASSUME NEW S, NEW s \in Seq(S)
  PROVE  /\ s # <<>> => Head(s) \in Range(s) /\ Range(Tail(s)) \subseteq Range(s)
         /\ \A e \in S : Range(Append(s, e)) \subseteq Range(s) \cup {e}
         /\ \A e \in S : Range(<<e>> \o s) \subseteq Range(s) \cup {e}
<1> DEFINE n == Len(s)
<1>1. n \in Nat /\ DOMAIN s = 1..n
  BY LenProperties
<1>2. ASSUME s # <<>>
      PROVE  Head(s) \in Range(s) /\ Range(Tail(s)) \subseteq Range(s)
  <2>1. /\ n >= 1 /\ Head(s) = s[1] /\ Tail(s) \in Seq(S) /\ Len(Tail(s)) = n - 1
        /\ \A j \in 1..(n - 1) : Tail(s)[j] = s[j + 1]
    BY <1>1, <1>2, EmptySeq, HeadTailProperties
  <2>2. DOMAIN Tail(s) = 1..(n - 1)
    BY <2>1, LenProperties
  <2> HIDE DEF n
  <2>3. 1 \in 1..n /\ \A j \in 1..(n - 1) : j + 1 \in 1..n
    BY <1>1, <2>1
  <2> QED  BY <1>1, <2>1, <2>2, <2>3 DEF Range
<1>3. ASSUME NEW e \in S
      PROVE  Range(Append(s, e)) \subseteq Range(s) \cup {e}
  <2> DEFINE t == Append(s, e)
  <2>1. /\ t \in Seq(S) /\ Len(t) = n + 1 /\ t[n + 1] = e
        /\ \A i \in 1..n : t[i] = s[i]
    BY AppendProperties
  <2> HIDE DEF t
  <2>2. DOMAIN t = 1..(n + 1)
    BY <2>1, LenProperties
  <2> HIDE DEF n
  <2>3. \A i \in 1..(n + 1) : i \in 1..n \/ i = n + 1
    BY <1>1
  <2>4. Range(t) \subseteq Range(s) \cup {e}
    BY <1>1, <2>1, <2>2, <2>3 DEF Range
  <2> QED  BY <2>4 DEF t
<1>4. ASSUME NEW e \in S
      PROVE  Range(<<e>> \o s) \subseteq Range(s) \cup {e}
  <2> DEFINE t == <<e>> \o s
  <2>1. t \in Seq(S) /\ t # <<>> /\ Head(t) = e /\ Tail(t) = s
    BY PrependedElements
  <2> HIDE DEF t
  <2>2. ASSUME NEW x \in Range(t)
        PROVE  x \in Range(s) \cup {e}
    <3>1. x = Head(t) \/ x \in Range(Tail(t))
      BY <2>1, RangeOfTail
    <3> QED  BY <2>1, <3>1
  <2> QED  BY <2>2 DEF t
<1> QED  BY <1>2, <1>3, <1>4

\* Converting keeps the length, and can begin with the head.
LEMMA AnewElements ==
  ASSUME NEW s \in Seq(Checkpoint)
  PROVE  /\ Anew(s) \in Seq(Checkpoint)
         /\ s # <<>> /\ Readable(Head(s)) =>
              Anew(s) = <<Converted(Head(s))>> \o Anew(Tail(s))
<1> DEFINE n == Len(s)
<1>1. n \in Nat /\ DOMAIN s = 1..n /\ \A i \in 1..n : s[i] \in Checkpoint
  BY LenProperties, ElementOfSeq
<1>2. \A cp \in Checkpoint : Again(cp) \in Checkpoint
  BY KeptWithin DEF Again
<1>3. ASSUME NEW u \in Seq(Checkpoint)
      PROVE  /\ Anew(u) \in Seq(Checkpoint) /\ Len(Anew(u)) = Len(u)
             /\ \A i \in 1..Len(u) : Anew(u)[i] = Again(u[i])
  <2>1. Len(u) \in Nat /\ DOMAIN u = 1..Len(u) /\ \A i \in 1..Len(u) : u[i] \in Checkpoint
    BY LenProperties, ElementOfSeq
  <2>2. Anew(u) \in [1..Len(u) -> Checkpoint]
    BY <1>2, <2>1 DEF Anew
  <2>3. Anew(u) \in Seq(Checkpoint)
    BY <2>1, <2>2, SeqDef
  <2>4. Len(Anew(u)) = Len(u)
    BY <2>1, <2>2, <2>3, LenProperties
  <2> QED  BY <2>1, <2>3, <2>4 DEF Anew
<1>4. ASSUME s # <<>>, Readable(Head(s))
      PROVE  Anew(s) = <<Converted(Head(s))>> \o Anew(Tail(s))
  <2> DEFINE t == Tail(s)
             cp == Converted(Head(s))
             one == <<cp>>
             at == Anew(t)
             v == one \o at
  <2>1. /\ n >= 1 /\ Head(s) = s[1] /\ t \in Seq(Checkpoint) /\ Len(t) = n - 1
        /\ \A j \in 1..(n - 1) : t[j] = s[j + 1]
    BY <1>1, <1>4, EmptySeq, HeadTailProperties
  <2>2. cp = Again(s[1]) /\ cp \in Checkpoint
    BY <1>4, <2>1, KeptWithin DEF Again
  <2> HIDE DEF cp
  <2> HIDE DEF t
  <2>3. /\ at \in Seq(Checkpoint) /\ Len(at) = n - 1
        /\ \A j \in 1..(n - 1) : at[j] = Again(t[j])
    BY <1>3, <2>1
  <2> DEFINE m == Len(at)
  <2> HIDE DEF at
  <2>4. /\ v \in Seq(Checkpoint) /\ Len(v) = m + 1 /\ v[1] = cp
        /\ \A i \in 2..(m + 1) : v[i] = at[i - 1]
    BY <2>2, <2>3, PrependedElements DEF one
  <2> HIDE DEF v, n
  <2>5. /\ m + 1 = n /\ 1 \in 1..n
        /\ \A i \in 1..n : i = 1 \/ (i \in 2..n /\ i - 1 \in 1..(n - 1) /\ i - 1 + 1 = i)
    <3>1. \A k \in Nat : k - 1 = m => m + 1 = k
      BY <2>3
    <3> QED  BY <1>1, <2>1, <2>3, <3>1
  <2>6. \A i \in 1..n : v[i] = Again(s[i])
    <3> TAKE i \in 1..n
    <3>1. CASE i = 1
      BY <2>2, <2>4, <3>1
    <3>2. CASE i # 1
      <4>1. i \in 2..n /\ i - 1 \in 1..(n - 1) /\ i - 1 + 1 = i
        BY <2>5, <3>2
      <4>2. v[i] = at[i - 1]
        BY <2>4, <2>5, <4>1
      <4> QED  BY <2>1, <2>3, <4>1, <4>2
    <3> QED  BY <3>1, <3>2
  <2>7. Anew(s) \in Seq(Checkpoint) /\ Len(Anew(s)) = n /\ \A i \in 1..n : Anew(s)[i] = Again(s[i])
    BY <1>3 DEF n
  <2>8. Len(v) = n
    BY <2>4, <2>5
  <2>9. Anew(s) = v
    BY <2>4, <2>6, <2>7, <2>8, SeqEqual
  <2> QED  BY <2>9 DEF v, one, at, t, cp
<1> QED  BY <1>3, <1>4

-----------------------------------------------------------------------------
(***************************************************************************)
(* What a step does to the record of its call.                             *)
(***************************************************************************)

\* A step under the same lock changes nothing else of a call.
LEMMA GoToFields ==
  ASSUME Inv, NEW h \in Handler, NEW pc, GoTo(h, pc)
  PROVE  /\ call'[h].op = call[h].op /\ call'[h].ok = call[h].ok /\ call'[h].pc = pc
         /\ call'[h].todo = call[h].todo /\ call'[h].acts = call[h].acts
         /\ call'[h].left = call[h].left
<1>1. call[h] \in Call /\ call'[h] = [call[h] EXCEPT !.pc = pc]
  BY DEF GoTo, Inv, TypeOK
<1> QED  BY <1>1 DEF Call

\* An add that fails.
LEMMA FailAddFields ==
  ASSUME Inv, NEW h \in Handler, FailAdd(h)
  PROVE  /\ call'[h].op = call[h].op /\ call'[h].ok = FALSE
         /\ call'[h].todo = <<>> /\ call'[h].acts = call[h].acts
         /\ call'[h].pc = IF call[h].acts = <<>> THEN "reply" ELSE "delete"
<1>1. /\ call[h] \in Call
      /\ call'[h] = [call[h] EXCEPT
                       !.pc = IF call[h].acts = <<>> THEN "reply" ELSE "delete",
                       !.todo = <<>>, !.left = call[h].acts, !.ok = FALSE]
  BY DEF FailAdd, Inv, TypeOK
<1> QED  BY <1>1 DEF Call

\* An add that succeeds.
LEMMA FinishAddFields ==
  ASSUME Inv, NEW h \in Handler, FinishAdd(h)
  PROVE  /\ call'[h].op = call[h].op /\ call'[h].ok = call[h].ok
         /\ call'[h].pc = IF Len(call[h].todo) = 1 THEN "reply" ELSE "add"
         /\ call'[h].todo = Tail(call[h].todo)
         /\ call'[h].acts = Append(call[h].acts, Last(order).id)
<1>1. /\ call[h] \in Call
      /\ call'[h] = [call[h] EXCEPT
                       !.pc = IF Len(call[h].todo) = 1 THEN "reply" ELSE "add",
                       !.todo = Tail(call[h].todo),
                       !.acts = Append(call[h].acts, Last(order).id)]
  BY DEF FinishAdd, Inv, TypeOK
<1> QED  BY <1>1 DEF Call

\* A delete that ends.
LEMMA FinishDeleteFields ==
  ASSUME Inv, NEW h \in Handler, NEW ok, FinishDelete(h, ok)
  PROVE  /\ call'[h].op = call[h].op
         /\ call'[h].todo = call[h].todo /\ call'[h].acts = call[h].acts
         /\ call'[h].pc = IF Len(call[h].left) = 1 THEN "reply" ELSE "delete"
<1>1. /\ call[h] \in Call
      /\ call'[h] = [call[h] EXCEPT
                       !.pc = IF Len(call[h].left) = 1 THEN "reply" ELSE "delete",
                       !.left = Tail(call[h].left), !.ok = call[h].ok /\ ok]
  BY DEF FinishDelete, Inv, TypeOK
<1> QED  BY <1>1 DEF Call

\* An add that takes the lock.
LEMMA AddLockFields ==
  ASSUME Inv, NEW h \in Handler, NEW todo,
         call' = [call EXCEPT ![h].pc = "start", ![h].todo = todo]
  PROVE  /\ call'[h].op = call[h].op /\ call'[h].ok = call[h].ok
         /\ call'[h].pc = "start" /\ call'[h].todo = todo
         /\ call'[h].acts = call[h].acts
<1> DEFINE c == call[h]
<1>1. c \in Call /\ call'[h] = [c EXCEPT !.pc = "start", !.todo = todo]
  BY DEF Inv, TypeOK
<1> HIDE DEF c
<1>2. \A f \in {"op", "pc", "todo", "acts", "left", "ok"} : f \in DOMAIN c
  BY <1>1 DEF Call
<1> SUFFICES /\ call'[h].op = c.op /\ call'[h].ok = c.ok
             /\ call'[h].pc = "start" /\ call'[h].todo = todo
             /\ call'[h].acts = c.acts
  BY DEF c
<1> QED  BY <1>1, <1>2

\* A call remains the call it is until its reply leaves.
LEMMA OpStays ==
  ASSUME Inv, NEW h \in Handler, Acquire(h) \/ Work(h), call[h].pc # "reply"
  PROVE  call'[h].op = call[h].op /\ call'[h].pc # "idle" /\ call[h].pc # "idle"
<1> DEFINE Goes == \E pc \in {"save", "write", "undo", "stop"} : GoTo(h, pc)
           Takes == \E todo : call' = [call EXCEPT ![h].pc = "start", ![h].todo = todo]
           Ends == \E ok \in BOOLEAN : FinishDelete(h, ok)
<1>1. Goes \/ Takes \/ FailAdd(h) \/ FinishAdd(h) \/ Ends
  BY DEF Acquire, Work, AddRefuse, AddLock, DeleteLock, AddStart, AddUndo, DeleteStop,
         SaveOpen, SaveWrite, SaveSucceeds, SaveFails, Reply
<1>2. call[h].pc # "idle"
  BY DEF Acquire, Work, AddRefuse, AddLock, DeleteLock, AddStart, AddUndo, DeleteStop,
         SaveOpen, SaveWrite, Reply
<1>3. CASE Goes
  BY <1>2, <1>3, GoToFields
<1>4. CASE Takes
  BY <1>2, <1>4, AddLockFields
<1>5. CASE FailAdd(h) \/ FinishAdd(h)
  BY <1>2, <1>5, FailAddFields, FinishAddFields
<1>6. CASE Ends
  BY <1>2, <1>6, FinishDeleteFields
<1> QED  BY <1>1, <1>3, <1>4, <1>5, <1>6

-----------------------------------------------------------------------------
(***************************************************************************)
(* The invariant of the registry with one caller.                          *)
(***************************************************************************)

\* The invariant holds at the start.
LEMMA InitOneInv == Init => OneInv
BY InitFaultInv DEF Init, OneInv, RolledBack, Idle

\* A step of a handler writes what it opened.
LEMMA HandlerTruncates ==
  ASSUME Inv, NEW h \in Handler, Arrive(h) \/ Acquire(h) \/ Work(h)
  PROVE  main' = main /\ (call'[h].pc = "write" => file' = Truncated)
<1>1. CASE Arrive(h) \/ Reply(h) \/ AddRefuse(h)
  BY <1>1, ArriveCalls DEF Critical
<1>2. CASE Acquire(h)
  BY <1>2, AcquireCalls DEF Critical
<1>3. CASE AddStart(h) \/ AddUndo(h) \/ DeleteStop(h)
  BY <1>3, MountCalls DEF Critical
<1>4. CASE SaveOpen(h) \/ SaveWrite(h)
  BY <1>4, SaveCalls DEF Critical
<1> QED  BY <1>1, <1>2, <1>3, <1>4 DEF Work

\* Every step of the process keeps it.
LEMMA NextOneInv ==
  ASSUME Alone, NoFaults
  PROVE  OneInv /\ [Next]_vars => OneInv'
<1> SUFFICES ASSUME OneInv, [Next]_vars
             PROVE  OneInv'
  OBVIOUS
<1>1. FaultInv' /\ \A h \in Handler : RolledBack(call[h])'
  <2>1. Stoppable /\ RestoreInv
    BY DEF NoFaults, Stoppable, RestoreInv, OneInv, FaultInv
  <2> QED  BY <2>1, NextFaultInv, NextRestoreInv DEF OneInv, RestoreInv
<1>2. ASSUME NEW h \in Handler, call'[h].pc = "write", main'.pc = "run"
      PROVE  file' = Truncated
  <2>1. ASSUME NEW g \in Handler, Arrive(g) \/ Acquire(g) \/ Work(g)
        PROVE  file' = Truncated
    BY <1>2, <2>1, HandlerTruncates DEF Alone, OneInv, FaultInv
  <2>2. CASE Exit \/ Crash
    BY <1>2, <2>2 DEF Exit, Crash, Die, Idle
  <2>3. CASE Signal \/ Snapshot \/ StopNext \/ RemoveFile
    <3>1. main \in Main
      BY DEF OneInv, FaultInv, Inv, TypeOK
    <3>2. main'.pc # "run"
      BY <2>3, <3>1 DEF Signal, Snapshot, StopNext, RemoveFile, AfterStop, Main
    <3> QED  BY <1>2, <3>2
  <2>4. CASE Boot
    <3>1. call[h].pc = "write" /\ ~Up
      BY <1>2, <2>4 DEF Boot
    <3> QED  BY <3>1 DEF OneInv, FaultInv, GoneIsIdle
  <2>5. CASE UNCHANGED vars
    BY <1>2, <2>5 DEF vars, OneInv
  <2> QED  BY <2>1, <2>2, <2>3, <2>4, <2>5 DEF Next, Shutdown
<1> QED  BY <1>1, <1>2 DEF OneInv

-----------------------------------------------------------------------------
(***************************************************************************)
(* What a restore plans, step by step.                                     *)
(***************************************************************************)

\* The routes in the table and those still to be added.
LEMMA PlanParts ==
  ASSUME Inv, NEW h \in Handler
  PROVE  /\ order \in Seq(Route) /\ call[h].todo \in Seq(Checkpoint)
         /\ Cps(order) \in Seq(Checkpoint)
<1>1. order \in Seq(Route) /\ call[h] \in Call
  BY DEF Inv, TypeOK
<1>2. Cps(order) \in Seq(Kept)
  BY <1>1, CpsElements
<1> QED  BY <1>1, <1>2, KeptCheckpoints DEF Call

\* A route that conflicts with one of the table makes the plan conflict.
LEMMA ClashInPlan ==
  ASSUME Inv, NEW h \in Handler, call[h].pc = "add", call[h].todo # <<>>,
         Readable(Head(call[h].todo)), Clashes(Converted(Head(call[h].todo)).path)
  PROVE  Conflicting(Planned(h))
<1> DEFINE s == Cps(order)
           cp == Converted(Head(call[h].todo))
           rest == Anew(Tail(call[h].todo))
           t == <<cp>> \o rest
           n == Len(s)
           w == s \o t
<1>1. /\ order \in Seq(Route) /\ s \in Seq(Checkpoint) /\ call[h].todo \in Seq(Checkpoint)
      /\ Tail(call[h].todo) \in Seq(Checkpoint)
  BY PlanParts, TailElements
<1>2. Planned(h) = w
  BY <1>1, AnewElements DEF Planned
<1>3. cp \in Checkpoint /\ rest \in Seq(Checkpoint)
  BY <1>1, AnewElements, KeptWithin
<1>4. PICK j \in DOMAIN order : <<cp.path, order[j].path>> \in Overlap
  BY DEF Clashes
<1>5. /\ n \in Nat /\ DOMAIN order = 1..n
      /\ s[j].path = order[j].path
  BY <1>1, <1>4, CpsElements, LenProperties
<1> HIDE DEF cp, rest, s
<1>6. t \in Seq(Checkpoint) /\ t[1] = cp /\ Len(t) \in Nat /\ Len(t) >= 1
  <2>1. t \in Seq(Checkpoint) /\ Len(t) = Len(rest) + 1 /\ t[1] = cp
    BY <1>3, PrependedElements
  <2>2. Len(rest) \in Nat
    BY <1>3, LenProperties
  <2> QED  BY <2>1, <2>2
<1> HIDE DEF t
<1>7. /\ w \in Seq(Checkpoint) /\ Len(w) = n + Len(t)
      /\ \A i \in 1..(n + Len(t)) : w[i] = IF i <= n THEN s[i] ELSE t[i - n]
  BY <1>1, <1>6, ConcatProperties
<1> HIDE DEF w, n
<1>8. DOMAIN w = 1..(n + Len(t))
  BY <1>7, LenProperties
<1>9. PICK k : k = n + 1
  OBVIOUS
<1>10. /\ k \in 1..(n + Len(t)) /\ ~(k <= n) /\ k - n = 1
       /\ j \in 1..(n + Len(t)) /\ j <= n /\ k # j
  BY <1>4, <1>5, <1>6, <1>9
<1>11. w[k] = cp /\ w[j] = s[j]
  BY <1>6, <1>7, <1>10
<1> QED  BY <1>2, <1>4, <1>5, <1>8, <1>10, <1>11 DEF Conflicting

\* A step of a restore that has not failed keeps its plan, and the last one has
\* saved it; or the restore fails, for one of two reasons.
LEMMA PlanStep ==
  ASSUME OneInv, NoFaults, NEW h \in Handler, Acquire(h) \/ Work(h),
         call[h].op = "restore", call[h].ok, call[h].pc # "reply", main.pc = "run"
  PROVE  \/ /\ call'[h].ok
            /\ Planned(h)' = Planned(h)
            /\ call'[h].pc = "reply" => file' = Saved(Cps(order'))
         \/ /\ ~call'[h].ok
            /\ ~Readable(Head(call[h].todo)) \/ Conflicting(Planned(h))
<1> DEFINE s == Cps(order)
           t == call[h].todo
           cp == Converted(Head(t))
<1>1. /\ Inv /\ ShapeOf(call[h]) /\ order \in Seq(Route)
      /\ s \in Seq(Checkpoint) /\ t \in Seq(Checkpoint)
      /\ call[h].pc \in {"add", "start", "save", "write"} /\ t # <<>>
  <2>1. Inv /\ call[h].pc # "undo" /\ RolledBack(call[h])
    BY DEF OneInv, FaultInv, NoUndo, NoFaults, Writable
  <2> QED  BY <2>1, PlanParts DEF RolledBack, Inv, CallShape, ShapeOf
<1>2. Tail(t) \in Seq(Checkpoint) /\ Anew(Tail(t)) \in Seq(Checkpoint)
  BY <1>1, TailElements, AnewElements
<1>3. \A step : ~Fails(step)
  BY DEF Fails, NoFaults
<1>4. ASSUME FailAdd(h), ~Readable(Head(t)) \/ Conflicting(Planned(h))
      PROVE  /\ ~call'[h].ok
             /\ ~Readable(Head(t)) \/ Conflicting(Planned(h))
  BY <1>1, <1>4, FailAddFields
<1>5. CASE call[h].pc = "add"
  <2>1. AddRefuse(h) \/ AddLock(h)
    BY <1>5 DEF Acquire, Work, DeleteLock, AddStart, AddUndo, DeleteStop,
                SaveOpen, SaveWrite, Reply
  <2>2. CASE AddRefuse(h)
    BY <1>4, <2>2 DEF AddRefuse
  <2>3. CASE AddLock(h) /\ Clashes(cp.path)
    <3>1. FailAdd(h) /\ Readable(Head(t))
      BY <2>3 DEF AddLock
    <3>2. Conflicting(Planned(h))
      BY <1>1, <1>5, <2>3, <3>1, ClashInPlan
    <3> QED  BY <1>4, <3>1, <3>2
  <2>4. CASE AddLock(h) /\ ~Clashes(cp.path)
    <3>1. /\ Readable(Head(t)) /\ UNCHANGED order
          /\ call' = [call EXCEPT ![h].pc = "start", ![h].todo = <<cp>> \o Tail(t)]
      BY <2>4 DEF AddLock
    <3>2. Head(<<cp>> \o Tail(t)) = cp /\ Tail(<<cp>> \o Tail(t)) = Tail(t)
      <4> DEFINE c == call[h]
      <4>1. c \in Call /\ c.todo # <<>> /\ Readable(Head(c.todo))
        BY <1>1, <3>1 DEF Inv, TypeOK
      <4> HIDE DEF c
      <4>2. /\ Head(<<Converted(Head(c.todo))>> \o Tail(c.todo)) = Converted(Head(c.todo))
            /\ Tail(<<Converted(Head(c.todo))>> \o Tail(c.todo)) = Tail(c.todo)
        BY <4>1, Converts
      <4> QED  BY <4>2, Zenon DEF c
    <3>3. /\ call'[h].ok = call[h].ok /\ call'[h].pc = "start"
          /\ call'[h].todo = <<cp>> \o Tail(t)
      <4> DEFINE next == <<cp>> \o Tail(t)
      <4>1. call' = [call EXCEPT ![h].pc = "start", ![h].todo = next]
        BY <3>1
      <4> HIDE DEF next
      <4>2. Inv
        BY <1>1
      <4>3. /\ call'[h].ok = call[h].ok /\ call'[h].pc = "start"
            /\ call'[h].todo = next
        BY <4>1, <4>2, AddLockFields
      <4> QED  BY <4>3 DEF next
    <3>4. Planned(h)' = s \o (<<cp>> \o Anew(Tail(t)))
      BY <3>1, <3>2, <3>3 DEF Planned, Cps
    <3>5. Planned(h) = s \o Anew(t) /\ Anew(t) = <<cp>> \o Anew(Tail(t))
      BY <1>1, <1>5, <3>1, AnewElements DEF Planned
    <3> QED  BY <3>3, <3>4, <3>5
  <2> QED  BY <2>1, <2>2, <2>3, <2>4
<1>6. CASE call[h].pc = "start"
  <2>1. Enter(Head(t)) /\ GoTo(h, "save")
    BY <1>3, <1>6 DEF Acquire, Work, AddRefuse, AddLock, DeleteLock, AddStart, AddUndo,
                      DeleteStop, SaveOpen, SaveWrite, Reply
  <2>2. call'[h].ok = call[h].ok /\ call'[h].pc = "save" /\ call'[h].todo = t
    BY <1>1, <2>1, GoToFields
  <2>3. Head(t) \in Kept /\ Head(t) \in Checkpoint
    BY <1>1, <1>6, KeptWithin DEF ShapeOf
  <2>4. Cps(order') = Append(s, Head(t))
    <3>1. PICK id \in RouteId :
            order' = Append(order, [id |-> id, path |-> Head(t).path, target |-> Head(t).target])
      BY <2>1 DEF Enter
    <3> QED  BY <1>1, <2>3, <3>1, CpsAppend
  <2> DEFINE hd == Head(t)
             rest == Anew(Tail(t))
             u == <<hd>> \o rest
  <2>5. Planned(h)' = Append(s, Head(t)) \o Anew(Tail(t)) /\ Planned(h) = s \o u
    BY <1>6, <2>2, <2>4 DEF Planned
  <2>6. u \in Seq(Checkpoint) /\ u # <<>> /\ Head(u) = Head(t) /\ Tail(u) = Anew(Tail(t))
    <3>1. hd \in Checkpoint /\ rest \in Seq(Checkpoint)
      BY <1>2, <2>3
    <3> HIDE DEF hd, rest
    <3>2. u \in Seq(Checkpoint) /\ u # <<>> /\ Head(u) = hd /\ Tail(u) = rest
      BY <3>1, PrependedElements
    <3> QED  BY <3>2 DEF hd, rest
  <2> HIDE DEF u, s, t
  <2>7. Append(s, Head(u)) \o Tail(u) = s \o u
    BY <1>1, <2>6, MoveHead
  <2>8. Planned(h)' = Planned(h)
    BY <2>5, <2>6, <2>7
  <2> QED  BY <2>2, <2>8
<1>7. CASE call[h].pc = "save"
  <2>1. order # <<>>
    BY <1>1, <1>7 DEF ShapeOf
  <2>2. GoTo(h, "write") /\ UNCHANGED order
    BY <1>3, <1>7, <2>1 DEF Acquire, Work, AddRefuse, AddLock, DeleteLock, AddStart,
                            AddUndo, DeleteStop, SaveOpen, SaveWrite, Reply
  <2>3. call'[h].ok = call[h].ok /\ call'[h].pc = "write" /\ call'[h].todo = t
    BY <1>1, <2>2, GoToFields
  <2> QED  BY <1>7, <2>2, <2>3 DEF Planned, Cps
<1>8. CASE call[h].pc = "write"
  <2>1. /\ UNCHANGED order /\ FinishAdd(h)
        /\ file' = Written(Saved(Cps(order))) /\ file = Truncated
    BY <1>1, <1>3, <1>8 DEF OneInv, Acquire, Work, AddRefuse, AddLock, DeleteLock, AddStart,
                            AddUndo, DeleteStop, SaveOpen, SaveWrite, SaveSucceeds, Adding,
                            Reply
  <2>2. /\ call'[h].ok = call[h].ok /\ call'[h].pc \in {"reply", "add"}
        /\ call'[h].todo = Tail(t)
    BY <1>1, <2>1, FinishAddFields
  <2>3. Planned(h)' = Planned(h)
    BY <1>8, <2>1, <2>2 DEF Planned, Cps
  <2> QED  BY <2>1, <2>2, <2>3 DEF Written, Truncated
<1> QED  BY <1>1, <1>5, <1>6, <1>7, <1>8

\* A restore that arrives plans what it has read, or has failed.
LEMMA PlanBegins ==
  ASSUME Inv, NEW h \in Handler, RestoreCall(h), file.kind = "full"
  PROVE  IF AllReadable(file.cps)
           THEN Planned(h)' = Cps(order) \o Anew(Anew(file.cps))
           ELSE ~call'[h].ok
<1>1. call \in [Handler -> Call] /\ UNCHANGED order
  BY DEF Inv, TypeOK, RestoreCall
<1>2. CASE ~AllReadable(file.cps)
  BY <1>1, <1>2 DEF RestoreCall, Idle
<1>3. CASE AllReadable(file.cps)
  <2>1. call'[h].pc = "add" /\ call'[h].todo = Restored(file.cps)
    BY <1>1, <1>3 DEF RestoreCall, Idle
  <2>2. Restored(file.cps) = Anew(file.cps)
    BY <1>3 DEF Restored, Anew, Again, AllReadable
  <2> QED  BY <1>1, <1>3, <2>1, <2>2 DEF Planned, Cps
<1> QED  BY <1>2, <1>3

\* What RestoreIsExact says of one step.
ExactFor(h) ==
  /\ call[h].op = "none" /\ call'[h].op = "restore" /\ file.kind = "full" =>
       IF AllReadable(file.cps)
         THEN Planned(h)' = Cps(order) \o Anew(Anew(file.cps))
         ELSE ~call'[h].ok
  /\ call[h].op = "restore" /\ call[h].ok =>
       \/ /\ call'[h].ok
          /\ Planned(h)' = Planned(h)
          /\ call'[h].pc = "reply" => file' = Saved(Cps(order'))
       \/ /\ ~call'[h].ok
          /\ \/ ~Readable(Head(call[h].todo))
             \/ Conflicting(Planned(h))

LEMMA ExactStep ==
  ASSUME Alone, NoFaults, OneInv, Next,
         NEW h \in Handler, main.pc = "run", main'.pc = "run", call[h].pc # "reply"
  PROVE  ExactFor(h)
<1>1. Inv /\ main \in Main
  BY DEF OneInv, FaultInv, Inv, TypeOK
<1>2. PICK g \in Handler : Arrive(g) \/ Acquire(g) \/ Work(g)
  <2>1. ~(Signal \/ Snapshot \/ Shutdown \/ Crash \/ Boot)
    BY <1>1 DEF Signal, Snapshot, Shutdown, StopNext, RemoveFile, Exit, Crash, Die, Boot,
                Up, Main, AfterStop
  <2> QED  BY <2>1 DEF Next
<1>3. Arrive(h) \/ Acquire(h) \/ Work(h)
  BY <1>2 DEF Alone
<1>4. CASE Arrive(h)
  <2>1. /\ call[h].pc = "idle"
        /\ RestoreCall(h) \/ call'[h].op # "restore"
    <3>1. CASE RestoreCall(h)
      BY <3>1 DEF RestoreCall, Accepts
    <3>2. CASE AddCall(h) \/ DeleteCall(h) \/ DismissCall(h)
      <4>1. call \in [Handler -> Call]
        BY <1>1 DEF Inv, TypeOK
      <4> QED  BY <3>2, <4>1 DEF AddCall, DeleteCall, DismissCall, Accepts, Idle
    <3> QED  BY <1>4, <3>1, <3>2 DEF Arrive
  <2>2. ~(call[h].op = "restore" /\ call[h].ok)
    BY <2>1 DEF OneInv, RolledBack
  <2> QED  BY <1>1, <2>1, <2>2, PlanBegins DEF ExactFor
<1>5. CASE Acquire(h) \/ Work(h)
  <2>1. call'[h].op = call[h].op
    BY <1>1, <1>5, OpStays
  <2> QED  BY <1>5, <2>1, PlanStep DEF ExactFor
<1> QED  BY <1>3, <1>4, <1>5

-----------------------------------------------------------------------------
(***************************************************************************)
(* The page.                                                               *)
(***************************************************************************)

\* The pages that wait for no call and have none behind them.
Quiet == {"closed", "ask", "read", "prompt", "dead"}

Of(rt) == [path |-> rt.path, target |-> rt.target]

\* A route that the conversions turn into one of the list.
Shown(cp) == Readable(cp) /\ Converted(cp) \in Range(preview)

\* A restore adds what the dialog lists: a route it has converted is in the
\* list, and so is every route of the table that it has added.
OfTheList(h) ==
  /\ \A cp \in Range(call[h].todo) : Shown(cp)
  /\ call[h].pc = "start" => Head(call[h].todo) \in Range(preview)
  /\ call[h].pc \in {"save", "write"} /\ call[h].todo # <<>> =>
       Of(Last(order)) \in Range(preview)
  /\ \A rt \in byID : rt.id \in Range(call[h].acts) => Of(rt) \in Range(preview)

\* The file and the table while the dialog is open.  Routes the list has not may
\* be in the table when the file was gone before the dialog opened: then there
\* is nothing to restore.
ShownFile == \A cp \in Range(file.cps) : Shown(cp)
ShownTable ==
  \/ \A rt \in byID : Shown(Of(rt))
  \/ /\ file = NoFile
     /\ \A h \in Handler : call[h].op = "restore" => call[h].pc = "reply"

\* What the page knows of the server.
Waits ==
  /\ page \in Quiet => \A h \in Handler : call[h].pc = "idle"
  /\ page = "restore" =>
       \A h \in Handler : call[h].pc = "idle" \/ call[h].op = "restore"
  /\ page = "dismiss" => \A h \in Handler : call[h].pc \in {"idle", "reply"}

Within ==
  page \in {"prompt", "restore", "dismiss"} /\ Settled(preview) =>
    /\ ShownFile /\ ShownTable
    /\ page = "restore" => \A h \in Handler : call[h].op = "restore" => OfTheList(h)

PageInv == OneInv /\ PageTypeOK /\ Waits /\ Within

\* A step of the page is a step of the server, or none.
LEMMA PageSteps == [PageNext]_pageVars => [Next]_vars
<1> SUFFICES ASSUME [PageNext]_pageVars
             PROVE  [Next]_vars
  OBVIOUS
<1>1. CASE Open \/ ServeExists \/ ServePreview \/ LoadFails \/ Escape \/ NoAnswer
  BY <1>1 DEF Open, ServeExists, ServePreview, LoadFails, Escape, NoAnswer
<1>2. ASSUME NEW h \in Handler,
             PressRestore(h) \/ PressDismiss(h) \/ ChangeRoutes(h) \/ Answer(h)
      PROVE  Next
  <2>1. Arrive(h) \/ Work(h)
    BY <1>2 DEF PressRestore, PressDismiss, ChangeRoutes, Answer, Arrive, Work
  <2> QED  BY <2>1 DEF Next
<1>3. CASE Background
  BY <1>3 DEF Background, Next
<1>4. CASE UNCHANGED pageVars
  BY <1>4 DEF pageVars
<1> QED  BY <1>1, <1>2, <1>3, <1>4 DEF PageNext

\* What the variables of the page become.
LEMMA PageTypeStep ==
  ASSUME Inv, PageTypeOK, [PageNext]_pageVars
  PROVE  PageTypeOK'
<1>1. AllReadable(file.cps) => Restored(file.cps) \in Seq(Kept)
  <2>1. file.cps \in Seq(Kept)
    BY DEF Inv, TypeOK, File
  <2> QED  BY <2>1, RestoredElements
<1>2. CASE Open \/ ServeExists \/ ServePreview \/ LoadFails \/ Escape \/ NoAnswer
  BY <1>1, <1>2 DEF Open, ServeExists, ServePreview, LoadFails, Escape, NoAnswer,
                    Turn, PageTypeOK
<1>3. ASSUME NEW h \in Handler,
             PressRestore(h) \/ PressDismiss(h) \/ ChangeRoutes(h) \/ Answer(h)
      PROVE  PageTypeOK'
  BY <1>3 DEF PressRestore, PressDismiss, ChangeRoutes, Answer, Turn, PageTypeOK
<1>4. CASE Background \/ UNCHANGED pageVars
  BY <1>4 DEF Background, pageVars, PageTypeOK
<1> QED  BY <1>2, <1>3, <1>4 DEF PageNext

\* A list that converts to itself is shown by itself.
LEMMA ListShown ==
  ASSUME Settled(preview), NEW cp \in Range(preview)
  PROVE  Shown(cp)
BY DEF Settled, Shown, Range

\* The checkpoints of the table are those of its routes.
LEMMA CpsOfTable ==
  ASSUME Inv
  PROVE  /\ \A cp \in Range(Cps(order)) : \E rt \in byID : cp = Of(rt)
         /\ \A rt \in byID : Of(rt) \in Range(Cps(order))
<1>1. byID = Range(order)
  BY DEF Inv, IndexAgrees
<1>2. DOMAIN Cps(order) = DOMAIN order /\ \A i \in DOMAIN order : Cps(order)[i] = Of(order[i])
  BY DEF Cps, Of
<1> QED  BY <1>1, <1>2 DEF Range

\* What a step of a handler leaves in the file.
LEMMA FileAfter ==
  ASSUME NEW h \in Handler, Acquire(h) \/ Work(h)
  PROVE  \/ file'.cps = file.cps \/ file'.cps = <<>>
         \/ call[h].pc = "write" /\ file'.cps = Cps(order)
<1>1. \/ file' = file \/ file' = NoFile \/ file' = Truncated \/ file' = Garbled
      \/ call[h].pc = "write" /\ file' = Saved(Cps(order))
  BY DEF Acquire, AddLock, DeleteLock, Work, AddRefuse, AddStart, AddUndo, DeleteStop,
         SaveOpen, SaveWrite, Written, Reply
<1> QED  BY <1>1 DEF NoFile, Truncated, Garbled, Saved

\* A route enters the table as it was asked for, under an id no call has.
LEMMA Entered ==
  ASSUME Inv, NEW cp \in Kept, Enter(cp)
  PROVE  /\ Of(Last(order')) = cp
         /\ \A rt \in byID' \ byID :
              Of(rt) = cp /\ \A h \in Handler : rt.id \notin Range(call[h].acts)
<1>1. PICK id \in RouteId :
        /\ Fresh(id)
        /\ order' = Append(order, [id |-> id, path |-> cp.path, target |-> cp.target])
        /\ byID' = byID \cup {[id |-> id, path |-> cp.path, target |-> cp.target]}
  BY DEF Enter
<1> DEFINE new == [id |-> id, path |-> cp.path, target |-> cp.target]
<1>2. new \in Route /\ new.id = id /\ Of(new) = cp
  BY DEF Of, Kept, Route
<1>3. \A h \in Handler : id \notin Range(call[h].acts)
  BY <1>1 DEF Fresh, InCall
<1>4. order' = Append(order, new) /\ byID' = byID \cup {new}
  BY <1>1
<1> HIDE DEF new
<1>5. order \in Seq(Route) /\ Len(order) \in Nat
  BY LenProperties DEF Inv, TypeOK
<1>6. order' \in Seq(Route) /\ Len(order') = Len(order) + 1 /\ order'[Len(order) + 1] = new
  BY <1>2, <1>4, <1>5, AppendProperties
<1>7. order' # <<>>
  BY <1>5, <1>6
<1>8. Last(order') = new
  BY <1>6, <1>7, FrontElements
<1> QED  BY <1>2, <1>3, <1>4, <1>8

\* Adding a route puts it among those the call has activated.
LEMMA FinishAddList ==
  ASSUME Inv, Settled(preview), NEW h \in Handler, OfTheList(h),
         UNCHANGED <<order, byID, preview>>, FinishAdd(h),
         call[h].pc \in {"save", "write"}, call[h].todo # <<>>
  PROVE  OfTheList(h)'
<1>1. /\ call[h].todo \in Seq(Checkpoint) /\ call[h].acts \in Seq(RouteId)
      /\ order # <<>>
  BY Holder DEF Inv, TypeOK, Call, ShapeOf, Critical
<1>2. /\ call'[h].pc \in {"reply", "add"} /\ call'[h].todo = Tail(call[h].todo)
      /\ call'[h].acts = Append(call[h].acts, Last(order).id)
  BY FinishAddFields
<1>3. \A cp \in Range(call'[h].todo) : Shown(cp)'
  <2>1. Range(call'[h].todo) \subseteq Range(call[h].todo)
    BY <1>1, <1>2, PartElements
  <2> QED  BY <2>1 DEF OfTheList, Shown
<1>4. ASSUME NEW rt \in byID', rt.id \in Range(call'[h].acts)
      PROVE  Of(rt) \in Range(preview')
  <2>1. /\ Last(order).id \in RouteId
        /\ \A other \in byID \ {Last(order)} : other.id # Last(order).id
    BY <1>1, LastStandsApart DEF Route
  <2>2. rt.id \in Range(call[h].acts) \/ rt.id = Last(order).id
    BY <1>1, <1>2, <1>4, <2>1, PartElements
  <2>3. rt.id \in Range(call[h].acts) \/ rt = Last(order)
    BY <2>1, <2>2
  <2>4. Of(Last(order)) \in Range(preview)
    BY <1>1 DEF OfTheList
  <2>5. rt \in byID /\ preview' = preview
    OBVIOUS
  <2> QED  BY <2>3, <2>4, <2>5 DEF OfTheList
<1> QED  BY <1>2, <1>3, <1>4 DEF OfTheList

\* A call that no longer adds keeps what it has activated, or less of it.
LEMMA LessList ==
  ASSUME NEW h \in Handler, OfTheList(h), byID' \subseteq byID, UNCHANGED preview,
         call'[h].acts = call[h].acts, call'[h].todo = <<>>, call'[h].pc # "start"
  PROVE  OfTheList(h)'
<1>1. Range(call'[h].todo) = {}
  BY DEF Range
<1> QED  BY <1>1 DEF OfTheList

\* A step of a restore keeps to the list.
LEMMA ListStep ==
  ASSUME OneInv, NoFaults, Settled(preview), UNCHANGED preview,
         NEW h \in Handler, Acquire(h) \/ Work(h),
         call[h].op = "restore", call[h].pc # "reply",
         OfTheList(h), \A rt \in byID : Shown(Of(rt))
  PROVE  OfTheList(h)' /\ \A rt \in byID' : Shown(Of(rt))'
<1>1. /\ Inv /\ ShapeOf(call[h]) /\ call[h] \in Call /\ call[h].todo \in Seq(Checkpoint)
      /\ call[h].pc # "undo"
  BY DEF OneInv, FaultInv, NoUndo, NoFaults, Writable, Inv, TypeOK, CallShape, Call
<1>2. \A step : ~Fails(step)
  BY DEF Fails, NoFaults
<1>3. \A cp : Shown(cp)' <=> Shown(cp)
  BY DEF Shown
<1>4. CASE FailAdd(h) /\ UNCHANGED <<order, byID>>
  <2>1. call'[h].todo = <<>> /\ call'[h].acts = call[h].acts /\ call'[h].pc # "start"
    BY <1>1, <1>4, FailAddFields
  <2> QED  BY <1>3, <1>4, <2>1, LessList
<1>5. CASE AddLock(h) /\ ~FailAdd(h)
  <2> DEFINE cp == Converted(Head(call[h].todo))
             rest == Tail(call[h].todo)
  <2>1. /\ call[h].pc = "add" /\ call[h].todo # <<>> /\ Readable(Head(call[h].todo))
        /\ UNCHANGED <<order, byID>>
        /\ call' = [call EXCEPT ![h].pc = "start", ![h].todo = <<cp>> \o rest]
    BY <1>1, <1>5 DEF AddLock, ShapeOf
  <2>2. /\ call'[h].pc = "start" /\ call'[h].todo = <<cp>> \o rest
        /\ call'[h].acts = call[h].acts
    BY <1>1, <2>1, AddLockFields
  <2>3. /\ Head(<<cp>> \o rest) = cp /\ cp \in Checkpoint /\ rest \in Seq(Checkpoint)
    BY <1>1, <2>1, Converts, TailElements
  <2>4. cp \in Range(preview) /\ Range(rest) \subseteq Range(call[h].todo)
    BY <1>1, <2>1, PartElements DEF OfTheList, Shown
  <2>5. Shown(cp)
    BY <2>4, ListShown
  <2> HIDE DEF cp, rest
  <2>6. \A x \in Range(call'[h].todo) : Shown(x)
    <3>1. Range(<<cp>> \o rest) \subseteq Range(rest) \cup {cp}
      BY <2>3, PartElements
    <3> QED  BY <2>2, <2>4, <2>5, <3>1 DEF OfTheList
  <2>7. Head(call'[h].todo) \in Range(preview')
    BY <2>2, <2>3, <2>4
  <2> QED  BY <1>3, <2>1, <2>2, <2>6, <2>7 DEF OfTheList
<1>6. CASE AddStart(h)
  <2>1. Enter(Head(call[h].todo)) /\ GoTo(h, "save") /\ call[h].pc = "start"
    BY <1>2, <1>6 DEF AddStart
  <2>2. Head(call[h].todo) \in Kept /\ Head(call[h].todo) \in Range(preview)
    BY <1>1, <2>1 DEF ShapeOf, OfTheList
  <2>3. /\ call'[h].pc = "save" /\ call'[h].todo = call[h].todo
        /\ call'[h].acts = call[h].acts
    BY <1>1, <2>1, GoToFields
  <2>4. /\ Of(Last(order')) \in Range(preview)
        /\ \A rt \in byID' \ byID :
             Of(rt) \in Range(preview) /\ rt.id \notin Range(call[h].acts)
    BY <1>1, <2>1, <2>2, Entered
  <2>5. \A rt \in byID' : Shown(Of(rt))
    BY <2>4, ListShown
  <2> QED  BY <1>3, <2>3, <2>4, <2>5 DEF OfTheList
<1>7. CASE DeleteLock(h)
  <2>1. /\ call[h].todo = <<>> /\ UNCHANGED <<order, byID>>
        /\ GoTo(h, "stop") \/ FinishDelete(h, FALSE)
    BY <1>1, <1>7 DEF DeleteLock, ShapeOf
  <2>2. /\ call'[h].todo = <<>> /\ call'[h].acts = call[h].acts
        /\ call'[h].pc # "start"
    <3>1. CASE GoTo(h, "stop")
      BY <1>1, <2>1, <3>1, GoToFields
    <3>2. CASE FinishDelete(h, FALSE)
      BY <1>1, <2>1, <3>2, FinishDeleteFields
    <3> QED  BY <2>1, <3>1, <3>2
  <2> QED  BY <1>3, <2>1, <2>2, LessList
<1>8. CASE DeleteStop(h)
  <2>1. call[h].todo = <<>> /\ byID' \subseteq byID /\ GoTo(h, "save")
    BY <1>1, <1>2, <1>8 DEF DeleteStop, ShapeOf, Leave
  <2>2. /\ call'[h].todo = <<>> /\ call'[h].acts = call[h].acts
        /\ call'[h].pc # "start"
    BY <1>1, <2>1, GoToFields
  <2> QED  BY <1>3, <2>1, <2>2, LessList
<1>9. CASE SaveOpen(h) \/ SaveWrite(h)
  <2>1. /\ call[h].pc \in {"save", "write"} /\ UNCHANGED <<order, byID>>
        /\ SaveSucceeds(h) \/ GoTo(h, "write")
    BY <1>2, <1>9 DEF SaveOpen, SaveWrite
  <2>2. CASE FinishAdd(h) /\ call[h].todo # <<>>
    BY <1>1, <1>3, <2>1, <2>2, FinishAddList
  <2>3. CASE FinishDelete(h, TRUE) /\ call[h].todo = <<>>
    <3>1. /\ call'[h].todo = <<>> /\ call'[h].acts = call[h].acts
          /\ call'[h].pc # "start"
      BY <1>1, <2>3, FinishDeleteFields
    <3> QED  BY <1>3, <2>1, <3>1, LessList
  <2>4. CASE GoTo(h, "write")
    <3>1. /\ call'[h].todo = call[h].todo /\ call'[h].acts = call[h].acts
          /\ call'[h].pc = "write"
      BY <1>1, <2>4, GoToFields
    <3> QED  BY <1>3, <2>1, <3>1 DEF OfTheList
  <2> QED  BY <2>1, <2>2, <2>3, <2>4 DEF SaveSucceeds, Adding
<1>10. ~AddUndo(h) /\ ~Reply(h)
  BY <1>1 DEF AddUndo, Reply
<1> QED  BY <1>4, <1>5, <1>6, <1>7, <1>8, <1>9, <1>10
         DEF Acquire, Work, AddRefuse, AddLock

-----------------------------------------------------------------------------
(***************************************************************************)
(* What the page knows, step by step.                                      *)
(***************************************************************************)

\* What an idle call is not.
LEMMA IdleNoRestore ==
  ASSUME OneInv, NEW h \in Handler, call[h].pc = "idle"
  PROVE  call[h].op # "restore"
BY DEF OneInv, RolledBack

\* The dialog opens: what it lists is the file, which is that of the table or
\* is gone.
LEMMA PreviewWithin ==
  ASSUME PageInv, NoFaults, ServePreview
  PROVE  Waits' /\ Within'
<1>1. /\ OneInv /\ Inv /\ page = "read" /\ UNCHANGED <<order, byID, file, call>>
      /\ \A h \in Handler : call[h].pc = "idle"
  BY DEF PageInv, OneInv, FaultInv, Waits, Quiet, ServePreview, Turn, vars
<1>2. Waits'
  BY <1>1 DEF ServePreview, Turn, Waits, Quiet
<1>3. CASE page' # "prompt"
  BY <1>2, <1>3 DEF ServePreview, Turn, Within
<1>4. CASE page' = "prompt"
  <2>1. AllReadable(file.cps) /\ preview' = Restored(file.cps)
    BY <1>4 DEF ServePreview, Turn
  <2>2. ShownFile'
    <3>1. ASSUME NEW cp \in Range(file.cps)
          PROVE  Shown(cp)'
      <4>1. PICK i \in DOMAIN file.cps : cp = file.cps[i]
        BY DEF Range
      <4>2. /\ Readable(cp) /\ i \in DOMAIN Restored(file.cps)
            /\ Converted(cp) = Restored(file.cps)[i]
        BY <2>1, <4>1 DEF AllReadable, Restored
      <4>3. Converted(cp) \in Range(preview')
        BY <2>1, <4>2 DEF Range
      <4> QED  BY <4>2, <4>3 DEF Shown
    <3> QED  BY <1>1, <3>1 DEF ShownFile
  <2>3. ShownTable'
    <3>1. CASE order = <<>>
      <4>1. byID' = {}
        BY <1>1, <3>1 DEF Inv, IndexAgrees, Range
      <4> QED  BY <4>1 DEF ShownTable
    <3>2. CASE order # <<>>
      <4>1. file \in {NoFile, Saved(Cps(order))}
        <5>1. ~Saving
          BY <1>1 DEF Saving
        <5> QED  BY <1>1, <3>2, <5>1 DEF OneInv, FaultInv, FileCurrent, Writable, NoFaults
      <4>2. CASE file = NoFile
        BY <1>1, <4>2, IdleNoRestore DEF ShownTable
      <4>3. CASE file = Saved(Cps(order))
        <5>1. file.cps = Cps(order)
          BY <4>3 DEF Saved
        <5> QED  BY <1>1, <2>2, <5>1, CpsOfTable DEF ShownTable, ShownFile
      <4> QED  BY <4>1, <4>2, <4>3
    <3> QED  BY <3>1, <3>2
  <2> QED  BY <1>2, <1>4, <2>2, <2>3 DEF Within
<1> QED  BY <1>2, <1>3, <1>4

\* The page by itself.
LEMMA GestureWithin ==
  ASSUME PageInv, NoFaults,
         Open \/ ServeExists \/ ServePreview \/ LoadFails \/ Escape \/ NoAnswer
  PROVE  Waits' /\ Within'
<1>1. CASE Open
  BY <1>1 DEF Open, Waits, Within, Quiet, vars
<1>2. CASE ServeExists \/ LoadFails \/ Escape
  BY <1>2 DEF PageInv, ServeExists, LoadFails, Escape, Turn, Waits, Within, Quiet, vars
<1>3. CASE NoAnswer
  <2>1. /\ \A h \in Handler : call[h].pc = "idle"
        /\ page \in {"restore", "dismiss"} \/ page' = "ready"
        /\ page' \in {"prompt", "ready"}
        /\ UNCHANGED <<order, byID, file, call, preview>>
    BY <1>3 DEF NoAnswer, Turn, vars
  <2>2. Waits'
    BY <2>1 DEF Waits, Quiet
  <2>3. Within'
    <3>1. ShownFile' <=> ShownFile
      BY <2>1 DEF ShownFile, Shown
    <3>2. ShownTable' <=> ShownTable
      BY <2>1 DEF ShownTable, Shown
    <3>3. Settled(preview)' <=> Settled(preview)
      BY <2>1 DEF Settled
    <3> QED  BY <2>1, <3>1, <3>2, <3>3 DEF PageInv, Within
  <2> QED  BY <2>2, <2>3
<1> QED  BY <1>1, <1>2, <1>3, PreviewWithin

\* The user restores: what is read is converted to what the dialog lists.
LEMMA PressWithin ==
  ASSUME PageInv, Alone, NEW h \in Handler, PressRestore(h)
  PROVE  Waits' /\ Within'
<1>1. /\ OneInv /\ Inv /\ call \in [Handler -> Call] /\ RestoreCall(h)
      /\ page = "prompt" /\ page' = "restore" /\ UNCHANGED <<preview, byID, file>>
      /\ \A g \in Handler : g = h
  BY DEF PressRestore, Turn, RestoreCall, PageInv, OneInv, FaultInv, Inv, TypeOK, Alone
<1>2. /\ call'[h].op = "restore" /\ call'[h].acts = <<>>
      /\ \/ call'[h].pc = "reply" /\ call'[h].todo = <<>>
         \/ /\ call'[h].pc = "add" /\ call'[h].todo = Restored(file.cps)
            /\ file.kind = "full"
  <2>1. PICK c : /\ call' = [call EXCEPT ![h] = c]
                 /\ \/ /\ c = [Idle EXCEPT !.op = "restore", !.pc = "add",
                                             !.todo = Restored(file.cps)]
                       /\ file.kind = "full"
                    \/ \E ok \in BOOLEAN :
                         c = [Idle EXCEPT !.op = "restore", !.pc = "reply", !.ok = ok]
    BY <1>1 DEF RestoreCall
  <2>2. call'[h] = c
    BY <1>1, <2>1
  <2>3. CASE /\ c = [Idle EXCEPT !.op = "restore", !.pc = "add",
                                 !.todo = Restored(file.cps)]
             /\ file.kind = "full"
    BY <2>2, <2>3 DEF Idle
  <2>4. CASE \E ok \in BOOLEAN :
               c = [Idle EXCEPT !.op = "restore", !.pc = "reply", !.ok = ok]
    BY <2>2, <2>4 DEF Idle
  <2> QED  BY <2>1, <2>3, <2>4
<1>3. Waits'
  BY <1>1, <1>2 DEF Waits, Quiet
<1>4. ASSUME Settled(preview)
      PROVE  ShownFile' /\ ShownTable' /\ OfTheList(h)'
  <2>1. ShownFile /\ ShownTable
    BY <1>1, <1>4 DEF PageInv, Within
  <2>2. \A cp : Shown(cp)' <=> Shown(cp)
    BY <1>1 DEF Shown
  <2>3. ShownFile'
    BY <1>1, <2>1, <2>2 DEF ShownFile
  <2>4. ShownTable'
    BY <1>1, <1>2, <2>1, <2>2 DEF ShownTable, NoFile
  <2>5. \A cp \in Range(call'[h].todo) : Shown(cp)
    <3>1. CASE call'[h].todo = <<>>
      BY <3>1 DEF Range
    <3>2. CASE call'[h].todo = Restored(file.cps)
      <4> SUFFICES ASSUME NEW cp \in Range(Restored(file.cps))
                   PROVE  Shown(cp)
        BY <3>2
      <4>1. PICK i \in DOMAIN file.cps : cp = Converted(file.cps[i])
        BY DEF Range, Restored
      <4>2. Shown(file.cps[i])
        BY <2>1 DEF ShownFile, Range
      <4> QED  BY <1>4, <4>1, <4>2, ListShown DEF Shown
    <3> QED  BY <1>2, <3>1, <3>2
  <2>6. Range(call'[h].acts) = {}
    BY <1>2 DEF Range
  <2> QED  BY <1>2, <2>2, <2>3, <2>4, <2>5, <2>6 DEF OfTheList
<1>5. Within'
  BY <1>1, <1>4 DEF Within, Settled
<1> QED  BY <1>3, <1>5

\* The other calls of the page, and the replies.
LEMMA CallWithin ==
  ASSUME PageInv, Alone, NEW h \in Handler,
         PressDismiss(h) \/ ChangeRoutes(h) \/ Answer(h)
  PROVE  Waits' /\ Within'
<1>1. /\ Waits /\ Within /\ PageTypeOK /\ call \in [Handler -> Call]
      /\ \A g \in Handler : g = h
  BY DEF PageInv, OneInv, FaultInv, Inv, TypeOK, Alone
<1>2. ASSUME file' \in {file, NoFile}, UNCHANGED <<byID, preview>>,
             call'[h].op = "restore" => call'[h].pc = "reply",
             page \in {"prompt", "restore", "dismiss"}, page' \in {"prompt", "dismiss"}
      PROVE  Within'
  <2> SUFFICES ASSUME Settled(preview)
               PROVE  ShownFile' /\ ShownTable'
    BY <1>2 DEF Within, Settled
  <2>1. ShownFile /\ ShownTable /\ \A cp : Shown(cp)' <=> Shown(cp)
    BY <1>1, <1>2 DEF Within, Shown
  <2>2. ShownFile'
    BY <1>2, <2>1 DEF ShownFile, NoFile, Range
  <2>3. ShownTable'
    BY <1>1, <1>2, <2>1 DEF ShownTable
  <2> QED  BY <2>2, <2>3
<1>3. CASE PressDismiss(h)
  <2>1. /\ page = "prompt" /\ page' = "dismiss" /\ UNCHANGED <<preview, byID>>
        /\ call'[h].pc = "reply" /\ file' \in {file, NoFile}
    BY <1>1, <1>3 DEF PressDismiss, Turn, DismissCall, Idle
  <2> QED  BY <1>1, <1>2, <2>1 DEF Waits, Quiet
<1>4. CASE ChangeRoutes(h)
  BY <1>4 DEF ChangeRoutes, Turn, Waits, Within, Quiet
<1>5. CASE Answer(h)
  <2>1. /\ call[h].pc = "reply" /\ call'[h] = Idle /\ file' = file
        /\ UNCHANGED <<preview, byID>>
    BY <1>1, <1>5 DEF Answer, Reply
  <2>2. page \notin Quiet
    BY <1>1, <2>1 DEF Waits
  <2>3. \/ page = "restore" /\ page' = "prompt"
        \/ page' = "ready"
    BY <1>1, <1>5, <2>2 DEF Answer, PageTypeOK, Quiet
  <2>4. Waits'
    BY <1>1, <2>1, <2>3 DEF Waits, Quiet, Idle
  <2>5. page' = "ready" => Within'
    BY DEF Within
  <2> QED  BY <1>2, <2>1, <2>3, <2>4, <2>5 DEF Idle
<1> QED  BY <1>3, <1>4, <1>5

\* The server goes on.
LEMMA WorkWithin ==
  ASSUME PageInv, Alone, NoFaults, NEW h \in Handler,
         Acquire(h) \/ Work(h), call[h].pc # "reply", UNCHANGED <<page, preview>>
  PROVE  Waits' /\ Within'
<1>1. Waits /\ Within /\ OneInv /\ Inv /\ \A g \in Handler : g = h
  BY DEF PageInv, OneInv, FaultInv, Alone
<1>2. call[h].pc # "idle" /\ call'[h].pc # "idle" /\ call'[h].op = call[h].op
  BY <1>1, OpStays
<1>3. page \notin Quiet /\ page # "dismiss"
  BY <1>1, <1>2 DEF Waits
<1>4. Waits'
  BY <1>1, <1>2, <1>3 DEF Waits
<1>5. ASSUME page = "restore", Settled(preview)
      PROVE  ShownFile' /\ ShownTable' /\ OfTheList(h)'
  <2>1. /\ call[h].op = "restore" /\ ShownFile /\ OfTheList(h)
        /\ \A rt \in byID : Shown(Of(rt))
    BY <1>1, <1>2, <1>5 DEF Waits, Within, ShownTable
  <2>2. OfTheList(h)' /\ \A rt \in byID' : Shown(Of(rt))'
    BY <1>1, <1>5, <2>1, ListStep
  <2>3. ShownFile'
    <3>1. \A cp : Shown(cp)' <=> Shown(cp)
      BY DEF Shown
    <3>2. CASE file'.cps = file.cps
      BY <2>1, <3>1, <3>2 DEF ShownFile
    <3>3. CASE file'.cps = <<>>
      BY <3>3 DEF ShownFile, Range
    <3>4. CASE file'.cps = Cps(order)
      BY <1>1, <2>1, <3>1, <3>4, CpsOfTable DEF ShownFile
    <3> QED  BY <3>2, <3>3, <3>4, FileAfter
  <2> QED  BY <2>2, <2>3 DEF ShownTable
<1>6. Within'
  BY <1>1, <1>3, <1>5 DEF Within, Quiet, Settled
<1> QED  BY <1>4, <1>6

\* The process ends or starts under the page.
LEMMA ProcessWithin ==
  ASSUME PageInv, Signal \/ Snapshot \/ Shutdown \/ Crash \/ Boot,
         UNCHANGED <<page, preview>>
  PROVE  Waits' /\ Within'
<1>1. Waits /\ Within
  BY DEF PageInv
<1>2. /\ file' \in {file, NoFile}
      /\ \/ UNCHANGED <<order, byID, call>>
         \/ byID' = {} /\ \A h \in Handler : call'[h] = Idle
  BY DEF Signal, Snapshot, Shutdown, StopNext, RemoveFile, Exit, Crash, Die, Boot
<1>3. \A cp : Shown(cp)' <=> Shown(cp)
  BY DEF Shown
<1>4. ShownFile => ShownFile'
  BY <1>2, <1>3 DEF ShownFile, NoFile, Range
<1>5. Settled(preview)' <=> Settled(preview)
  BY DEF Settled
<1>6. CASE byID' = {} /\ \A h \in Handler : call'[h] = Idle
  BY <1>1, <1>4, <1>5, <1>6 DEF Waits, Within, ShownTable, OfTheList, Idle
<1>7. CASE UNCHANGED <<order, byID, call>>
  <2>1. ShownTable => ShownTable'
    BY <1>2, <1>3, <1>7 DEF ShownTable
  <2>2. \A h \in Handler : OfTheList(h) => OfTheList(h)'
    BY <1>3, <1>7 DEF OfTheList
  <2>3. Waits'
    BY <1>1, <1>7 DEF Waits
  <2> QED  BY <1>1, <1>4, <1>5, <1>7, <2>1, <2>2, <2>3 DEF Within
<1> QED  BY <1>2, <1>6, <1>7

\* Every step keeps all of it.
LEMMA NextPageInv ==
  ASSUME Alone, NoFaults
  PROVE  PageInv /\ [PageNext]_pageVars => PageInv'
<1> SUFFICES ASSUME PageInv, [PageNext]_pageVars
             PROVE  PageInv'
  OBVIOUS
<1>1. OneInv' /\ PageTypeOK'
  BY PageSteps, NextOneInv, PageTypeStep DEF PageInv, OneInv, FaultInv
<1>2. CASE Open \/ ServeExists \/ ServePreview \/ LoadFails \/ Escape \/ NoAnswer
  BY <1>1, <1>2, GestureWithin DEF PageInv
<1>3. ASSUME NEW h \in Handler,
             PressRestore(h) \/ PressDismiss(h) \/ ChangeRoutes(h) \/ Answer(h)
      PROVE  PageInv'
  BY <1>1, <1>3, PressWithin, CallWithin DEF PageInv
<1>4. CASE Background
  BY <1>1, <1>4, WorkWithin, ProcessWithin DEF PageInv, Background
<1>5. CASE UNCHANGED pageVars
  <2>1. UNCHANGED <<order, byID, file, call, page, preview>>
    BY <1>5 DEF pageVars, vars
  <2>2. \A cp : Shown(cp)' <=> Shown(cp)
    BY <2>1 DEF Shown
  <2>3. (ShownFile => ShownFile') /\ (ShownTable => ShownTable')
    BY <2>1, <2>2 DEF ShownFile, ShownTable
  <2>4. \A h \in Handler : OfTheList(h) => OfTheList(h)'
    BY <2>1, <2>2 DEF OfTheList
  <2>5. Waits' /\ Within'
    BY <2>1, <2>3, <2>4 DEF PageInv, Waits, Within, Settled
  <2> QED  BY <1>1, <2>5 DEF PageInv
<1> QED  BY <1>2, <1>3, <1>4, <1>5 DEF PageNext

-----------------------------------------------------------------------------
\* The variables of the registry and of the page stay in their types, with any
\* number of handlers and whichever commands fail.
THEOREM PageTypeCorrect == PageSpec => []PageTypeOK
<1>1. PageInit => Inv /\ PageTypeOK
  BY InitInv DEF PageInit, PageTypeOK
<1>2. Inv /\ PageTypeOK /\ [PageNext]_pageVars => (Inv /\ PageTypeOK)'
  BY PageSteps, NextInv, PageTypeStep
<1> QED  BY <1>1, <1>2, PTL DEF PageSpec

\* With one call at a time and no failing command, a restore of a file that can
\* be converted plans to add every route of it, as converting it again leaves
\* it, keeps to the plan, and has saved it when it succeeds.  It fails only
\* because a route of the plan does not convert, or conflicts with another.
THEOREM RestoresExact ==
  ASSUME Alone, NoFaults
  PROVE  Spec => RestoreIsExact
<1> DEFINE Exact ==
             \A h \in Handler :
               main.pc = "run" /\ main'.pc = "run" /\ call[h].pc # "reply" => ExactFor(h)
<1>1. OneInv /\ [Next]_vars => [Exact]_vars
  BY ExactStep
<1>2. Spec => [][Exact]_vars
  BY <1>1, InitOneInv, NextOneInv, PTL DEF Spec
<1>3. [][Exact]_vars => RestoreIsExact
  BY DEF ExactFor, RestoreIsExact
<1> QED  BY <1>2, <1>3

\* Under the same conditions a restore that succeeds activates only routes of
\* the list the user agreed to, if the list converts to itself: however often
\* the process dies, starts or is stopped, and the page is loaded again.
THEOREM RestoresAsPreviewed ==
  ASSUME Alone, NoFaults
  PROVE  PageSpec => []RestoreAsPreviewed
<1>1. PageInv => RestoreAsPreviewed
  <2> SUFFICES ASSUME PageInv, NEW h \in Handler, page = "restore", Settled(preview),
                      call[h].op = "restore"
               PROVE  Activated(h) \subseteq Range(preview)
    BY DEF RestoreAsPreviewed
  <2>1. OfTheList(h)
    BY DEF PageInv, Within
  <2> QED  BY <2>1 DEF Activated, OfTheList, Of
<1>2. PageInit => PageInv
  BY InitOneInv DEF PageInit, PageInv, PageTypeOK, Waits, Within, Quiet, Init, Idle
<1> QED  BY <1>1, <1>2, NextPageInv, PTL DEF PageSpec

===============================================================================
