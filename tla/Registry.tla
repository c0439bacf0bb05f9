------------------------------- MODULE Registry -------------------------------
(***************************************************************************)
(* The route registry of funneltap (internal/routes/registry.go), the      *)
(* checkpoint file it keeps for crash recovery (recovery.go), the          *)
(* tailscale mounts it starts and stops, the API calls that change routes  *)
(* (internal/api/api.go) and the life of the process (cmd/funneltap):      *)
(* boot, serve, shut down on a signal, or die without one.                 *)
(*                                                                         *)
(* One step of the model is what happens between two points where the code *)
(* can be interrupted: taking Registry.mu, one run of the tailscale        *)
(* binary, one system call on the checkpoint file.                         *)
(***************************************************************************)
EXTENDS Naturals, Sequences, FiniteSets, SequencesExt

CONSTANTS
  Handler,   \* the goroutines that serve API calls, one call at a time each
  RouteId,   \* the values newRouteID draws from
  Path,      \* what may be typed as a mount path
  Target,    \* what may be typed as a target
  Overlap,   \* the pairs of paths for which PathsOverlap is true
  NormalizePath,  \* NormalizePath, as a function on the paths it accepts
  ParseTarget,    \* FormatTarget of ParseTarget, on the targets that parse
  Faults,    \* the steps that may fail
  Ops        \* the API calls that are made

ASSUME OverlapAssumption ==
  /\ Overlap \in SUBSET (Path \X Path)
  /\ \A p \in Path : <<p, p>> \in Overlap
  /\ \A p, q \in Path : <<p, q>> \in Overlap => <<q, p>> \in Overlap

\* A path or target that was converted may change once more when it is
\* converted again, and may be refused: "/a//" becomes "/a/" and that "/a",
\* and "/x" becomes "http://", which does not parse.
ASSUME ConversionAssumption ==
  /\ \E accepted \in SUBSET Path : NormalizePath \in [accepted -> Path]
  /\ \E accepted \in SUBSET Target : ParseTarget \in [accepted -> Target]

ASSUME FaultsAssumption ==
  Faults \subseteq {"start", "stop", "open", "write", "remove"}

ASSUME OpsAssumption == Ops \subseteq {"add", "delete", "restore", "dismiss"}

VARIABLES
  order,   \* Registry.order
  byID,    \* Registry.byID, as the set of its values
  mu,      \* the holder of Registry.mu as a writer; {} when it is free
  mounts,  \* what tailscaled serves: off, live (this process's) or stale
  file,    \* the checkpoint file
  call,    \* the API call each handler is serving
  main     \* the main goroutine

vars == <<order, byID, mu, mounts, file, call, main>>

\* What a call is given, and what the registry keeps: only paths and targets
\* that have been through their conversions.
Checkpoint == [path : Path, target : Target]
KeptPath == Range(NormalizePath)
KeptTarget == Range(ParseTarget)
Kept == [path : KeptPath, target : KeptTarget]
Route == [id : RouteId, path : KeptPath, target : KeptTarget]

(***************************************************************************)
(* A call's pc is the step it takes next.  todo are the routes it still    *)
(* has to add, the first of them converted once its add has the lock, acts *)
(* the ids of those it has added, left the ids it still has to delete, ok  *)
(* what it will reply.  POST /routes is a restore of one route: the same   *)
(* Add, with nothing to roll back.                                         *)
(***************************************************************************)
Call == [op   : {"none", "add", "delete", "restore", "dismiss"},
         pc   : {"idle", "add", "start", "save", "write", "undo",
                 "delete", "stop", "reply"},
         todo : Seq(Checkpoint),
         acts : Seq(RouteId),
         left : Seq(RouteId),
         ok   : BOOLEAN]

Idle == [op |-> "none", pc |-> "idle", todo |-> <<>>,
         acts |-> <<>>, left |-> <<>>, ok |-> TRUE]

File == [kind : {"absent", "empty", "garbled", "full"}, cps : Seq(Kept)]

NoFile == [kind |-> "absent", cps |-> <<>>]
Truncated == [kind |-> "empty", cps |-> <<>>]
Garbled == [kind |-> "garbled", cps |-> <<>>]
Saved(cps) == [kind |-> "full", cps |-> cps]

Main == [pc   : {"run", "snap", "stop", "remove", "close", "exited", "crashed"},
         left : Seq(Path)]

TypeOK ==
  /\ order \in Seq(Route)
  /\ byID \in SUBSET Route
  /\ mu \in SUBSET Handler
  /\ mounts \in [Path -> {"off", "live", "stale"}]
  /\ file \in File
  /\ call \in [Handler -> Call]
  /\ main \in Main

-----------------------------------------------------------------------------
(***************************************************************************)
(* Helpers.                                                                *)
(***************************************************************************)
Up == main.pc \notin {"exited", "crashed"}

Fails(step) == step \in Faults

Readable(cp) ==
  cp.path \in DOMAIN NormalizePath /\ cp.target \in DOMAIN ParseTarget

Converted(cp) ==
  [path |-> NormalizePath[cp.path], target |-> ParseTarget[cp.target]]

\* RestoreFromCheckpoint: the routes of the preview and of a restore.
AllReadable(cps) == \A i \in DOMAIN cps : Readable(cps[i])
Restored(cps) == [i \in DOMAIN cps |-> Converted(cps[i])]

\* The conflict that makes Add refuse path p.
\* (Faulty variant: only an equal path is refused.)
ClashesExactly(p) == \E i \in DOMAIN order : order[i].path = p

Clashes(p) == \E i \in DOMAIN order : <<p, order[i].path>> \in Overlap

\* An id that no route and no call in progress has: newRouteID draws 128
\* random bits, and the model lets no two of its draws agree.
InCall(id) ==
  \E h \in Handler : id \in Range(call[h].acts) \cup Range(call[h].left)
Fresh(id) == (\A i \in DOMAIN order : order[i].id # id) /\ ~InCall(id)

\* The content persistLocked hands to RecoveryFile.Write.
Cps(routes) ==
  [i \in DOMAIN routes |->
     [path |-> routes[i].path, target |-> routes[i].target]]

IndexOf(id) == CHOOSE i \in DOMAIN order : order[i].id = id
Present(id) == \E i \in DOMAIN order : order[i].id = id

Adding(h) == call[h].todo # <<>>

GoTo(h, pc) == call' = [call EXCEPT ![h].pc = pc]

\* (Faulty variant: a lock that is never released.)
UnlockForgotten(h) == h \in mu /\ UNCHANGED mu

Lock(h) == mu = {} /\ mu' = {h}
Unlock(h) == mu' = mu \ {h}

\* The tailscale commands that add a mount and take it away.
StartPath(p) == mounts' = [mounts EXCEPT ![p] = "live"]
StopPath(p) == mounts' = [mounts EXCEPT ![p] = "off"]

MountsAtDeath ==
  [p \in Path |-> IF mounts[p] = "live" THEN "stale" ELSE mounts[p]]

-----------------------------------------------------------------------------
(***************************************************************************)
(* The API calls arrive.                                                   *)
(***************************************************************************)
Accepts(h, op) == Up /\ op \in Ops /\ call[h].pc = "idle"

\* POST /routes; a body that is not JSON is refused.
AddCall(h) ==
  /\ Accepts(h, "add")
  /\ \/ \E cp \in Checkpoint :
          call' = [call EXCEPT ![h] =
                     [Idle EXCEPT !.op = "add", !.pc = "add", !.todo = <<cp>>]]
     \/ call' = [call EXCEPT ![h] =
                   [Idle EXCEPT !.op = "add", !.pc = "reply", !.ok = FALSE]]
  /\ UNCHANGED <<order, byID, mu, mounts, file, main>>

\* DELETE /routes/{id}.
DeleteCall(h) ==
  /\ Accepts(h, "delete")
  /\ \E id \in RouteId :
       call' = [call EXCEPT ![h] =
                  [Idle EXCEPT !.op = "delete", !.pc = "delete", !.left = <<id>>]]
  /\ UNCHANGED <<order, byID, mu, mounts, file, main>>

\* POST /recovery/restore reads the file, without the lock, and converts all
\* of it before it adds anything.  Nothing to restore is a success.
RestoreCall(h) ==
  /\ Accepts(h, "restore")
  /\ \/ /\ file.kind = "full" /\ AllReadable(file.cps)
        /\ call' = [call EXCEPT ![h] =
                      [Idle EXCEPT !.op = "restore", !.pc = "add",
                                   !.todo = Restored(file.cps)]]
     \/ \E ok \in BOOLEAN :
          /\ IF ok THEN file.kind \in {"absent", "empty"}
                   ELSE file.kind = "garbled" \/ ~AllReadable(file.cps)
          /\ call' = [call EXCEPT ![h] =
                        [Idle EXCEPT !.op = "restore", !.pc = "reply", !.ok = ok]]
  /\ UNCHANGED <<order, byID, mu, mounts, file, main>>

\* POST /recovery/dismiss removes the file, without the lock.
DismissCall(h) ==
  /\ Accepts(h, "dismiss")
  /\ \/ /\ file' = NoFile
        /\ call' = [call EXCEPT ![h] =
                      [Idle EXCEPT !.op = "dismiss", !.pc = "reply"]]
     \/ /\ Fails("remove") /\ file.kind # "absent"
        /\ call' = [call EXCEPT ![h] =
                      [Idle EXCEPT !.op = "dismiss", !.pc = "reply", !.ok = FALSE]]
        /\ UNCHANGED file
  /\ UNCHANGED <<order, byID, mu, mounts, main>>

Reply(h) ==
  /\ call[h].pc = "reply"
  /\ call' = [call EXCEPT ![h] = Idle]
  /\ UNCHANGED <<order, byID, mu, mounts, file, main>>

-----------------------------------------------------------------------------
(***************************************************************************)
(* Registry.Add, for the first route of todo.                              *)
(***************************************************************************)

\* Add returns an error.  ActivateCheckpoint then deletes what it added.
\* (Faulty variant: it returns without.)
KeepActivated(h) ==
  call' = [call EXCEPT ![h].pc = "reply", ![h].todo = <<>>, ![h].ok = FALSE]

FailAdd(h) ==
  call' = [call EXCEPT ![h].pc = IF call[h].acts = <<>> THEN "reply" ELSE "delete",
                       ![h].todo = <<>>,
                       ![h].left = call[h].acts,
                       ![h].ok = FALSE]

\* Add returns the route: the next one, or the reply.
FinishAdd(h) ==
  call' = [call EXCEPT ![h].pc = IF Len(call[h].todo) = 1 THEN "reply" ELSE "add",
                       ![h].todo = Tail(call[h].todo),
                       ![h].acts = Append(call[h].acts, Last(order).id)]

\* The path or the target is refused, before the lock is asked for.
AddRefuse(h) ==
  /\ call[h].pc = "add"
  /\ ~Readable(Head(call[h].todo))
  /\ FailAdd(h)
  /\ UNCHANGED <<order, byID, mu, mounts, file, main>>

\* Normalize the path and parse the target, take the lock and look for a
\* conflict.
\* (Faulty variants: what was typed is used; it is compared with the routes.)
AddLockTyped(h) ==
  /\ call[h].pc = "add" /\ Readable(Head(call[h].todo))
  /\ LET clash == Clashes(Converted(Head(call[h].todo)).path)
     IN  \/ ~clash /\ Lock(h) /\ GoTo(h, "start")
         \/ clash /\ mu = {} /\ FailAdd(h) /\ UNCHANGED mu
  /\ UNCHANGED <<order, byID, mounts, file, main>>

AddLockCompareTyped(h) ==
  /\ call[h].pc = "add" /\ Readable(Head(call[h].todo))
  /\ LET cp == Converted(Head(call[h].todo))
         clash == Clashes(Head(call[h].todo).path)
     IN  \/ /\ ~clash
            /\ Lock(h)
            /\ call' = [call EXCEPT ![h].pc = "start",
                                    ![h].todo = <<cp>> \o Tail(call[h].todo)]
         \/ clash /\ mu = {} /\ FailAdd(h) /\ UNCHANGED mu
  /\ UNCHANGED <<order, byID, mounts, file, main>>

AddLock(h) ==
  /\ call[h].pc = "add" /\ Readable(Head(call[h].todo))
  /\ LET cp == Converted(Head(call[h].todo))
     IN  \/ /\ ~Clashes(cp.path)
            /\ Lock(h)
            /\ call' = [call EXCEPT ![h].pc = "start",
                                    ![h].todo = <<cp>> \o Tail(call[h].todo)]
         \/ /\ Clashes(cp.path)
            /\ mu = {}
            /\ FailAdd(h)
            /\ UNCHANGED mu
  /\ UNCHANGED <<order, byID, mounts, file, main>>

\* The route enters the table under a new id.
\* (Faulty variant: it enters at the head of the list.)
EnterFirst(cp) ==
  \E id \in RouteId :
    LET rt == [id |-> id, path |-> cp.path, target |-> cp.target]
    IN  /\ Fresh(id)
        /\ order' = <<rt>> \o order
        /\ byID' = byID \cup {rt}

Enter(cp) ==
  \E id \in RouteId :
    LET rt == [id |-> id, path |-> cp.path, target |-> cp.target]
    IN  /\ Fresh(id)
        /\ order' = Append(order, rt)
        /\ byID' = byID \cup {rt}

\* funnel.StartPath, and the insertion that follows it.
AddStart(h) ==
  /\ call[h].pc = "start"
  /\ \/ /\ StartPath(Head(call[h].todo).path)
        /\ Enter(Head(call[h].todo))
        /\ GoTo(h, "save")
        /\ UNCHANGED mu
     \/ /\ Fails("start")
        /\ FailAdd(h)
        /\ Unlock(h)
        /\ UNCHANGED <<order, byID, mounts>>
  /\ UNCHANGED <<file, main>>

\* The checkpoint could not be written: stop the mount, whatever becomes of
\* that, and take the route out again.
\* (Faulty variants: the mount is left running; the map keeps the route.)
AddUndoMounted(h) ==
  /\ call[h].pc = "undo"
  /\ byID' = {rt \in byID : rt.id # Last(order).id}
  /\ order' = Front(order)
  /\ FailAdd(h)
  /\ Unlock(h)
  /\ UNCHANGED <<mounts, file, main>>

AddUndoListed(h) ==
  /\ call[h].pc = "undo"
  /\ \/ StopPath(Last(order).path)
     \/ Fails("stop") /\ UNCHANGED mounts
  /\ order' = Front(order)
  /\ FailAdd(h)
  /\ Unlock(h)
  /\ UNCHANGED <<byID, file, main>>

AddUndo(h) ==
  /\ call[h].pc = "undo"
  /\ \/ StopPath(Last(order).path)
     \/ Fails("stop") /\ UNCHANGED mounts
  /\ byID' = {rt \in byID : rt.id # Last(order).id}
  /\ order' = Front(order)
  /\ FailAdd(h)
  /\ Unlock(h)
  /\ UNCHANGED <<file, main>>

-----------------------------------------------------------------------------
(***************************************************************************)
(* Registry.Delete, for the first id of left.                              *)
(***************************************************************************)

\* Delete returns: the next id of a rollback, or the reply.
FinishDelete(h, ok) ==
  call' = [call EXCEPT ![h].pc = IF Len(call[h].left) = 1 THEN "reply" ELSE "delete",
                       ![h].left = Tail(call[h].left),
                       ![h].ok = call[h].ok /\ ok]

\* Take the lock and look the id up.
DeleteLock(h) ==
  /\ call[h].pc = "delete"
  /\ \/ /\ Present(Head(call[h].left))
        /\ Lock(h)
        /\ GoTo(h, "stop")
     \/ /\ ~Present(Head(call[h].left))
        /\ mu = {}
        /\ FinishDelete(h, FALSE)
        /\ UNCHANGED mu
  /\ UNCHANGED <<order, byID, mounts, file, main>>

\* The route leaves both the map and the list.
\* (Faulty variant: it stays in the map.)
LeaveOrder(id) ==
  /\ order' = RemoveAt(order, IndexOf(id))
  /\ UNCHANGED byID

Leave(id) ==
  /\ order' = RemoveAt(order, IndexOf(id))
  /\ byID' = {rt \in byID : rt.id # id}

\* funnel.StopPath, and the removal that follows it.
\* (Faulty variants: the error of StopPath is ignored; the smaller table is
\* not saved.)
DeleteStopIgnoringError(h) ==
  /\ call[h].pc = "stop"
  /\ LET id == Head(call[h].left)
     IN  /\ \/ StopPath(order[IndexOf(id)].path)
            \/ Fails("stop") /\ UNCHANGED mounts
         /\ Leave(id)
  /\ GoTo(h, "save")
  /\ UNCHANGED <<mu, file, main>>

DeleteStopUnsaved(h) ==
  /\ call[h].pc = "stop"
  /\ LET id == Head(call[h].left)
     IN  /\ StopPath(order[IndexOf(id)].path)
         /\ Leave(id)
  /\ FinishDelete(h, TRUE)
  /\ Unlock(h)
  /\ UNCHANGED <<file, main>>

DeleteStop(h) ==
  /\ call[h].pc = "stop"
  /\ LET id == Head(call[h].left)
     IN  \/ /\ StopPath(order[IndexOf(id)].path)
            /\ Leave(id)
            /\ GoTo(h, "save")
            /\ UNCHANGED mu
         \/ /\ Fails("stop")
            /\ FinishDelete(h, FALSE)
            /\ Unlock(h)
            /\ UNCHANGED <<order, byID, mounts>>
  /\ UNCHANGED <<file, main>>

-----------------------------------------------------------------------------
(***************************************************************************)
(* persistLocked and RecoveryFile.Write: os.Remove for an empty table, and *)
(* otherwise os.WriteFile, which truncates the file and then writes it.    *)
(***************************************************************************)
SaveSucceeds(h) ==
  /\ IF Adding(h) THEN FinishAdd(h) ELSE FinishDelete(h, TRUE)
  /\ Unlock(h)

SaveFails(h) ==
  IF Adding(h)
    THEN GoTo(h, "undo") /\ UNCHANGED mu
    ELSE FinishDelete(h, FALSE) /\ Unlock(h)

SaveOpen(h) ==
  /\ call[h].pc = "save"
  /\ \/ /\ order = <<>>
        /\ file' = NoFile
        /\ SaveSucceeds(h)
     \/ /\ order = <<>> /\ Fails("remove") /\ file.kind # "absent"
        /\ SaveFails(h)
        /\ UNCHANGED file
     \/ /\ order # <<>>
        /\ file' = Truncated
        /\ GoTo(h, "write")
        /\ UNCHANGED mu
     \/ /\ order # <<>> /\ Fails("open")
        /\ SaveFails(h)
        /\ UNCHANGED file
  /\ UNCHANGED <<order, byID, mounts, main>>

\* What is written to a file that was removed after it was opened is lost.
Written(content) == IF file.kind = "absent" THEN NoFile ELSE content

SaveWrite(h) ==
  /\ call[h].pc = "write"
  /\ \/ /\ file' = Written(Saved(Cps(order)))
        /\ SaveSucceeds(h)
     \/ /\ Fails("write")
        /\ file' \in {Written(Truncated), Written(Garbled)}
        /\ SaveFails(h)
  /\ UNCHANGED <<order, byID, mounts, main>>

-----------------------------------------------------------------------------
(***************************************************************************)
(* The main goroutine.                                                     *)
(***************************************************************************)
Signal ==
  /\ main.pc = "run"
  /\ main' = [main EXCEPT !.pc = "snap"]
  /\ UNCHANGED <<order, byID, mu, mounts, file, call>>

AfterStop(left) == IF left = <<>> THEN "remove" ELSE "stop"

\* StopAll copies the paths under the read lock ...
Snapshot ==
  /\ main.pc = "snap"
  /\ mu = {}
  /\ LET paths == [i \in DOMAIN order |-> order[i].path]
     IN  main' = [pc |-> AfterStop(paths), left |-> paths]
  /\ UNCHANGED <<order, byID, mu, mounts, file, call>>

\* ... and stops them one by one without it.
StopNext ==
  /\ main.pc = "stop"
  /\ \/ StopPath(Head(main.left))
     \/ Fails("stop") /\ UNCHANGED mounts
  /\ main' = [pc |-> AfterStop(Tail(main.left)), left |-> Tail(main.left)]
  /\ UNCHANGED <<order, byID, mu, file, call>>

RemoveFile ==
  /\ main.pc = "remove"
  /\ \/ file' = NoFile
     \/ Fails("remove") /\ UNCHANGED file
  /\ main' = [main EXCEPT !.pc = "close"]
  /\ UNCHANGED <<order, byID, mu, mounts, call>>

\* The process is gone, with its memory and its calls.  What it mounted with
\* --bg stays, and so does the file.
Die(pc) ==
  /\ main' = [pc |-> pc, left |-> <<>>]
  /\ order' = <<>>
  /\ byID' = {}
  /\ mu' = {}
  /\ mounts' = MountsAtDeath
  /\ call' = [h \in Handler |-> Idle]
  /\ UNCHANGED file

Exit == main.pc = "close" /\ Die("exited")

\* A kill, a power failure, or log.Fatalf in one of the listeners.
Crash == Up /\ Die("crashed")

Boot ==
  /\ ~Up
  /\ main' = [main EXCEPT !.pc = "run"]
  /\ UNCHANGED <<order, byID, mu, mounts, file, call>>

-----------------------------------------------------------------------------
Init ==
  /\ order = <<>>
  /\ byID = {}
  /\ mu = {}
  /\ mounts = [p \in Path |-> "off"]
  /\ file = NoFile
  /\ call = [h \in Handler |-> Idle]
  /\ main = [pc |-> "run", left |-> <<>>]

\* A handler waits for the lock, or works.
Acquire(h) == AddLock(h) \/ DeleteLock(h)
Work(h) == \/ AddRefuse(h) \/ AddStart(h) \/ AddUndo(h) \/ DeleteStop(h)
           \/ SaveOpen(h) \/ SaveWrite(h) \/ Reply(h)
Arrive(h) == AddCall(h) \/ DeleteCall(h) \/ RestoreCall(h) \/ DismissCall(h)

Shutdown == StopNext \/ RemoveFile \/ Exit

Next ==
  \/ \E h \in Handler : Arrive(h) \/ Acquire(h) \/ Work(h)
  \/ Signal \/ Snapshot \/ Shutdown
  \/ Crash \/ Boot

Spec == Init /\ [][Next]_vars

(***************************************************************************)
(* Every tailscale command and every system call returns, a goroutine that *)
(* can run does, and sync.RWMutex starves neither readers nor writers: a   *)
(* caller whose turn comes again and again gets the lock.  Nothing makes a *)
(* call arrive, a signal come, or the process die or start again.          *)
(***************************************************************************)
Fairness ==
  /\ \A h \in Handler : SF_vars(Acquire(h)) /\ WF_vars(Work(h))
  /\ SF_vars(Snapshot) /\ WF_vars(Shutdown)

FairSpec == Spec /\ Fairness

-----------------------------------------------------------------------------
(***************************************************************************)
(* Properties.                                                             *)
(***************************************************************************)

\* No two routes of the table conflict, whatever the order in which adds,
\* rollbacks and deletes of several handlers interleave (Registry.Add checks
\* under the lock it later inserts under).
RoutesDisjoint ==
  \A i, j \in DOMAIN order :
    i # j => <<order[i].path, order[j].path>> \notin Overlap

\* The map and the list of the registry hold the same routes and an id names
\* one of them: Get, Delete and the filter of the request list, which use
\* either, agree (Registry.Add and Delete change both, undo included).
IndexAgrees ==
  /\ byID = Range(order)
  /\ \A i, j \in DOMAIN order : order[i].id = order[j].id => i = j

\* When no one holds the lock, the mounts this process serves are those of
\* the routes in its table: a restore that fails half way leaves no mount
\* behind, and no route is left without one (Add, Delete, rollback).
MountsMatchRoutes ==
  main.pc \in {"run", "snap"} /\ mu = {} =>
    {p \in Path : mounts[p] = "live"} = {order[i].path : i \in DOMAIN order}

\* When no one holds the lock and the table has routes, the file holds them
\* all in their order, or was removed: it is never an older table and never
\* torn, even with a dismiss in the middle of a write (persistLocked).
CheckpointExact ==
  mu = {} /\ order # <<>> => file \in {NoFile, Saved(Cps(order))}

\* When no one holds the lock, a checkpoint that can be read has every route
\* of the table, whichever opens, writes and removals have failed: a failed
\* save costs the whole file or leaves a deleted route in it, and never loses
\* a single route (the undo in Add, Delete, persistLocked).
ReadableCheckpointComplete ==
  mu = {} /\ file.kind = "full" => Range(Cps(order)) \subseteq Range(file.cps)

\* No two routes of the checkpoint conflict as they are stored, across any
\* number of crashes, restores and rollbacks (Add checks the paths it keeps,
\* persistLocked saves them).  That does not make a restore succeed: it
\* converts them again (RestoreIsExact).
CheckpointDisjoint ==
  \A i, j \in DOMAIN file.cps :
    i # j => <<file.cps[i].path, file.cps[j].path>> \notin Overlap

\* A restore that replies with an error leaves none of its routes in the
\* table (the rollback loop of ActivateCheckpoint).
RestoreAllOrNothing ==
  \A h \in Handler :
    call[h].pc = "reply" /\ call[h].op = "restore" /\ ~call[h].ok =>
      \A i \in DOMAIN order : order[i].id \notin Range(call[h].acts)

Conflicting(cps) ==
  \E i, j \in DOMAIN cps : i # j /\ <<cps[i].path, cps[j].path>> \in Overlap

\* What Add makes of a route it is given; one that cannot be read stays.
Again(cp) == IF Readable(cp) THEN Converted(cp) ELSE cp
Anew(cps) == [i \in DOMAIN cps |-> Again(cps[i])]

\* The routes of the table followed by those still to be added, as Add will
\* keep them.  The first of these is converted once its add has started.
Planned(h) ==
  LET todo == call[h].todo
  IN  Cps(order) \o
        CASE call[h].pc \in {"save", "write"} -> Anew(Tail(todo))
          [] call[h].pc = "start" -> <<Head(todo)>> \o Anew(Tail(todo))
          [] OTHER -> Anew(todo)

\* Recovery works: with one call at a time and no failing command, a restore
\* of a file that reads plans to add every route of it, in its order, as
\* converting it twice leaves it; it keeps to that plan, and when it replies
\* the file holds it.  It fails only where a route does not parse again or two
\* routes of the plan conflict: never half way for another reason, whatever
\* the processes that crashed before it have left (handleRecoveryRestore,
\* ActivateCheckpoint, Add, persistLocked).
RestoreIsExact ==
  [][\A h \in Handler :
       main.pc = "run" /\ main'.pc = "run" /\ call[h].pc # "reply" =>
         /\ call[h].op = "none" /\ call'[h].op = "restore" /\ file.kind = "full" =>
              IF AllReadable(file.cps)
                THEN Planned(h)' = Cps(order) \o Anew(Anew(file.cps))
                ELSE ~call'[h].ok
         /\ call[h].op = "restore" /\ call[h].ok =>
              \/ /\ call'[h].ok
                 /\ Planned(h)' = Planned(h)
                 /\ call'[h].pc = "reply" => file' = Saved(Cps(order'))
              \/ /\ ~call'[h].ok
                 /\ \/ ~Readable(Head(call[h].todo))
                    \/ Conflicting(Planned(h))]_vars

\* What a reader sees.  A route that is being saved is in the table, but the
\* lock hides it until the save is done.
Hidden == {h \in mu : Adding(h) /\ call[h].pc \in {"save", "write", "undo"}}
Visible ==
  byID \ (IF Hidden = {} THEN {} ELSE {Last(order)})

Published == INSTANCE RouteTable
  WITH table <- Visible, Path <- KeptPath, Target <- KeptTarget

\* The registry implements the route table: readers see whole routes appear
\* and disappear one at a time, and never one whose save fails.
ImplementsRouteTable == Published!Spec

\* Every API call is answered, unless the process ends first: no handler
\* keeps the lock, and no two of them wait for each other, however often the
\* tailscale commands fail (Add, Delete and their error returns).
CallsReturn ==
  \A h \in Handler : call[h].pc # "idle" ~> call[h].pc = "idle"

\* A signal ends the process even while calls keep coming (main, StopAll).
ShutdownCompletes == main.pc = "snap" ~> ~Up

(***************************************************************************)
(* What the documents say and the code does not do.                        *)
(***************************************************************************)

\* README: route state is checkpointed to disk on every add or delete, so
\* that the next startup after a crash shows a recovery prompt.
CheckpointCoversRoutes ==
  main.pc = "run" /\ mu = {} /\ order # <<>> => file = Saved(Cps(order))

\* docs/plan-routes.md lists when the file is deleted: on graceful shutdown,
\* on Dismiss and with the last route; a restore that fails is none of them.
FailedRestoreKeepsFile ==
  \A h \in Handler :
    main.pc = "run" /\ call[h].pc = "reply" /\ call[h].op = "restore"
    /\ ~call[h].ok => file.kind # "absent"

\* docs/plan-routes.md: Recover loads the routes and runs funnel for each;
\* the file is updated on subsequent adds and deletes.  Until then it keeps
\* the routes that are still to be restored.
RestoreKeepsRest ==
  \A h \in Handler :
    main.pc = "run" /\ call[h].pc = "add" /\ call[h].op = "restore" =>
      Range(call[h].todo) \subseteq Range(file.cps)

\* README: after Ctrl+C funnel mounts are torn down and the recovery file is
\* removed.
CleanShutdown ==
  main.pc = "close" =>
    file = NoFile /\ \A p \in Path : mounts[p] # "live"

\* docs/plan-routes.md: after a crash the recovery file is present.  Every
\* route a reader has seen would be restored.
CrashKeepsRoutes ==
  main.pc = "run" =>
    \A rt \in Visible : [path |-> rt.path, target |-> rt.target] \in Range(file.cps)

=============================================================================
