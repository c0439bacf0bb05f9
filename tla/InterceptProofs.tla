---------------------------- MODULE InterceptProofs ----------------------------
(***************************************************************************)
(* Theorems about Intercept, for any number of connections, any limit and  *)
(* any store.  What they need of the store is taken from StoreProofs.      *)
(***************************************************************************)
EXTENDS Intercept, FiniteSetTheorems, SequenceTheorems, TLAPS

LogProofs == INSTANCE StoreProofs WITH Tag <- Conn, Proxy <- ProxyInfo, NoBody <- 0

LogInv == LogProofs!Inv

\* What StoreProofs assumes of the store's constants holds here.
LEMMA LogAssumption == LogProofs!StoreAssumption
BY InterceptAssumption
   DEF LogProofs!StoreAssumption, ProxyInfo, NoProxy, Body, Status

-----------------------------------------------------------------------------
(***************************************************************************)
(* The store, as the handlers use it.                                      *)
(***************************************************************************)

\* Entries are well typed, their ids have been given, and differ.
LEMMA EntryIds ==
  ASSUME LogInv
  PROVE  /\ nextID \in Nat
         /\ \A i \in DOMAIN entries :
              /\ entries[i] \in Log!Entry
              /\ entries[i].id \in 1..nextID \/ entries[i].id = 0
              /\ \A j \in DOMAIN entries : entries[i].id = entries[j].id => i = j
<1> DEFINE n == Len(entries)
<1>1. /\ nextID \in Nat /\ n \in Nat /\ DOMAIN entries = 1..n
      /\ \A i \in 1..n : /\ entries[i] \in LogProofs!Entry /\ entries[i].id \in Nat
                         /\ entries[i].id + n = nextID + i
  BY LogAssumption, LogProofs!Numbered DEF LogInv
<1> HIDE DEF n
<1>2. \A i, m \in Nat : i \in 1..n /\ m + n = nextID + i => m <= nextID
  BY <1>1
<1>3. \A i, j, m \in Nat : m + n = nextID + i /\ m + n = nextID + j => i = j
  BY <1>1
<1> QED  BY <1>1, <1>2, <1>3 DEF LogProofs!Entry, Log!Entry

Fresh(c) == [id |-> nextID + 1, tag |-> c, body |-> 0, proxy |-> NoProxy]

\* Store.Add adds an entry with the next id and changes none.
LEMMA AddEffect ==
  ASSUME LogInv, NEW c \in Conn, Log!Add(c)
  PROVE  /\ LogInv' /\ nextID' = nextID + 1
         /\ \A i \in DOMAIN entries' :
              \/ entries'[i] = Fresh(c)
              \/ \E j \in DOMAIN entries : entries'[i] = entries[j]
<1>1. LogProofs!Add(c)
  BY DEF Log!Add, LogProofs!Add, Log!Newest, LogProofs!Newest
<1>2. LogInv'
  BY <1>1, LogAssumption, LogProofs!AddStep DEF LogInv
<1> DEFINE n == Len(entries)
           m == Len(entries')
<1>3. /\ nextID' = nextID + 1
      /\ entries'[m] = Fresh(c)
      /\ \A i \in 1..(m - 1) :
           /\ i + (n + 1 - m) \in 1..n
           /\ entries'[i] = entries[i + (n + 1 - m)]
  BY <1>1, LogAssumption, LogProofs!AddElements DEF LogInv, Fresh
<1>4. /\ n \in Nat /\ DOMAIN entries = 1..n
      /\ m \in Nat /\ DOMAIN entries' = 1..m
  <2>1. LogProofs!Inv => n \in Nat /\ DOMAIN entries = 1..n
    BY LogAssumption, LogProofs!Numbered
  <2>2. entries \in Seq(LogProofs!Entry) /\ entries' \in Seq(LogProofs!Entry)
    BY <1>2 DEF LogInv, LogProofs!Inv, LogProofs!TypeOK
  <2> QED  BY <2>2, LenProperties
<1> HIDE DEF n, m
<1>5. \A i \in 1..m : i = m \/ i \in 1..(m - 1)
  BY <1>4
<1> QED  BY <1>2, <1>3, <1>4, <1>5

\* FinalizeBody and UpdateProxy change the entry with the id they are given.
LEMMA AmendEffect ==
  ASSUME LogInv, NEW id \in 1..nextID,
         NEW b \in Body, NEW p \in ProxyInfo,
         Log!FinalizeBody(id, b) \/ Log!UpdateProxy(id, p)
  PROVE  /\ LogInv' /\ nextID' = nextID
         /\ DOMAIN entries' = DOMAIN entries
         /\ \A i \in DOMAIN entries :
              entries[i].id # id => entries'[i] = entries[i]
         /\ \A i \in DOMAIN entries :
              entries[i].id = id =>
                /\ Log!FinalizeBody(id, b) => entries'[i] = [entries[i] EXCEPT !.body = b]
                /\ Log!UpdateProxy(id, p) => entries'[i] = [entries[i] EXCEPT !.proxy = p]
<1>1. LogProofs!Amend(id)
  BY DEF LogProofs!Amend, LogProofs!FinalizeBody, LogProofs!UpdateProxy,
         Log!FinalizeBody, Log!UpdateProxy, Log!Held, LogProofs!Held,
         Log!Position, LogProofs!Position
<1>2. LogInv'
  BY <1>1, LogAssumption, LogProofs!AmendStep DEF LogInv
<1>3. entries \in Seq(LogProofs!Entry) /\ nextID' = nextID
  BY DEF LogInv, LogProofs!Inv, LogProofs!TypeOK, Log!FinalizeBody, Log!UpdateProxy
<1>4. \A i \in DOMAIN entries :
        entries[i].id = id => Log!Held(id) /\ Log!Position(id) = i
  BY EntryIds DEF Log!Held, Log!Position
<1>5. CASE Log!Held(id)
  <2>1. PICK k \in DOMAIN entries : entries[k].id = id
    BY <1>5 DEF Log!Held
  <2>2. \A i \in DOMAIN entries : entries[i].id = id => i = k
    BY <2>1, EntryIds
  <2>3. Log!FinalizeBody(id, b) => entries' = [entries EXCEPT ![k].body = b]
    BY <1>4, <2>1 DEF Log!FinalizeBody
  <2>4. Log!UpdateProxy(id, p) => entries' = [entries EXCEPT ![k].proxy = p]
    BY <1>4, <2>1 DEF Log!UpdateProxy
  <2> QED  BY <1>2, <1>3, <2>1, <2>2, <2>3, <2>4
<1>6. CASE ~Log!Held(id)
  <2>1. entries' = entries /\ \A i \in DOMAIN entries : entries[i].id # id
    BY <1>6 DEF Log!FinalizeBody, Log!UpdateProxy, Log!Held
  <2> QED  BY <1>2, <1>3, <2>1
<1> QED  BY <1>5, <1>6

\* Clear leaves no entry.
LEMMA ClearEffect ==
  ASSUME LogInv, Log!Clear
  PROVE  LogInv' /\ nextID' = nextID /\ DOMAIN entries' = {}
<1>1. LogProofs!Clear
  BY DEF Log!Clear, LogProofs!Clear
<1>2. LogInv'
  BY <1>1, LogAssumption, LogProofs!ClearStep DEF LogInv
<1> QED  BY <1>2 DEF Log!Clear

-----------------------------------------------------------------------------
(***************************************************************************)
(* The inductive invariant.  Own says what a request's control state has   *)
(* to do with what it has read, captured and answered; Recorded what its   *)
(* entry says of it, if the store still has the entry.                     *)
(***************************************************************************)
Early == {"idle", "refuse", "refused", "add", "mark", "trip"}

Own(r) ==
  /\ r.id = 0 <=> r.pc \in {"idle", "refuse", "add"}
  /\ r.mode = "tunnel" => r.pc \notin {"refuse", "refused", "errorBody"}
  /\ r.mode = "inspect" => r.pc # "mark"
  /\ r.client # 0 => r.pc \in {"errorBody", "finish", "done"}
  /\ r.pc = "copy" => r.status \in Upstream
  /\ r.pc \in Early => ~r.whole

Capture(r) ==
  /\ r.captured <= MaxBody /\ r.read <= r.size
  /\ r.writer = "read" => r.read = r.captured
  /\ r.writer = "store" => r.read > r.captured /\ r.read <= MaxBody
  /\ r.tooLarge => r.writer = "end"
  /\ ~r.tooLarge => r.sent = r.captured
  /\ r.whole => r.captured = r.size

Shown(r, p) ==
  /\ r.mode = "tunnel" =>
       /\ r.pc \in {"trip", "copy"} => p.streaming /\ ~p.closed
       /\ r.pc = "done" /\ r.client # 0 => ~p.streaming /\ p.closed
  /\ r.mode = "inspect" =>
       /\ r.pc = "copy" => p.status = r.status /\ ~p.error
       /\ r.client # 0 => p.status = r.client /\ (p.error <=> r.client \in {413, 502})

BodyDue(r) == r.mode = "inspect" /\ r.pc = "done" /\ r.whole /\ r.client = r.status

Recorded(c, r, e) ==
  /\ e.tag = c /\ Shown(r, e.proxy)
  /\ BodyDue(r) => e.body = r.size

Room == nextID + Cardinality(Unrecorded) <= MaxID

IInv ==
  /\ LogInv /\ Room
  /\ req \in [Conn -> Request]
  /\ \A c \in Conn : Own(req[c]) /\ Capture(req[c]) /\ req[c].id <= nextID
  /\ \A i \in DOMAIN entries :
       /\ entries[i].body <= MaxBody
       /\ \A c \in Conn :
            req[c].id # 0 /\ entries[i].id = req[c].id => Recorded(c, req[c], entries[i])

\* What the invariant has to do with the properties.
LEMMA Implied ==
  IInv => /\ TypeOK /\ CaptureBounded /\ BodyExact
          /\ StatusAgrees /\ StreamFlagExact /\ AmendsOwnEntry
<1> SUFFICES ASSUME IInv
             PROVE  /\ TypeOK /\ CaptureBounded /\ BodyExact
                    /\ StatusAgrees /\ StreamFlagExact /\ AmendsOwnEntry
  OBVIOUS
<1>1. TypeOK
  BY DEF IInv, LogInv, LogProofs!Inv, LogProofs!TypeOK, TypeOK,
         Log!TypeOK, LogProofs!Entry, Log!Entry
<1>2. ASSUME NEW c \in Conn, Kept(c)
      PROVE  EntryOf(c) \in Log!Entry /\ Recorded(c, req[c], EntryOf(c))
  <2>1. PICK i \in DOMAIN entries : entries[i].id = req[c].id
    BY <1>2 DEF Kept, Log!Held
  <2>2. Log!Position(req[c].id) = i
    BY <2>1, EntryIds DEF IInv, Log!Position
  <2> QED  BY <1>2, <2>1, <2>2, EntryIds DEF IInv, Kept, EntryOf
<1>3. \A c \in Conn : req[c] \in Request /\ Own(req[c]) /\ Capture(req[c])
  BY DEF IInv
<1>4. CaptureBounded
  BY <1>3 DEF IInv, CaptureBounded, Capture
<1>5. BodyExact
  BY <1>2 DEF BodyExact, Recorded, BodyDue
<1>6. StatusAgrees
  BY <1>2 DEF StatusAgrees, Recorded, Shown
<1>7. StreamFlagExact
  BY <1>2 DEF StreamFlagExact, Recorded, Shown
<1>8. AmendsOwnEntry
  BY <1>2 DEF AmendsOwnEntry, Recorded
<1> QED  BY <1>1, <1>4, <1>5, <1>6, <1>7, <1>8

-----------------------------------------------------------------------------
(***************************************************************************)
(* The three kinds of steps of a request: they leave the store alone, add  *)
(* an entry, or amend the entry of the request.                            *)
(***************************************************************************)

\* Request c becomes r, which is sound by itself, and no other changes.
Becomes(c, r) ==
  /\ req' = [req EXCEPT ![c] = r]
  /\ r \in Request /\ Own(r) /\ Capture(r) /\ r.id <= nextID'

\* A step that leaves the store alone keeps the invariant, if the request still
\* agrees with its entry.
LEMMA StayStep ==
  ASSUME IInv, NEW c \in Conn, NEW r, Becomes(c, r), UNCHANGED <<entries, nextID>>, Room',
         r.id \in {0, req[c].id},
         \A i \in DOMAIN entries :
           r.id # 0 /\ entries[i].id = r.id /\ Recorded(c, req[c], entries[i])
             => Recorded(c, r, entries[i])
  PROVE  IInv'
<1>1. LogInv'
  BY DEF IInv, LogInv, LogProofs!Inv, LogProofs!TypeOK, LogProofs!Contiguous, LogProofs!Bounded
<1>2. /\ req' \in [Conn -> Request] /\ req'[c] = r
      /\ \A d \in Conn : d # c => req'[d] = req[d]
  BY DEF IInv, Becomes
<1>3. \A d \in Conn : Own(req'[d]) /\ Capture(req'[d]) /\ req'[d].id <= nextID'
  BY <1>2 DEF IInv, Becomes
<1>4. ASSUME NEW i \in DOMAIN entries', NEW d \in Conn,
             req'[d].id # 0, entries'[i].id = req'[d].id
      PROVE  Recorded(d, req'[d], entries'[i])
  BY <1>2, <1>4 DEF IInv
<1> QED  BY <1>1, <1>2, <1>3, <1>4 DEF IInv

\* So does one that records the request in a new entry.
LEMMA AddingStep ==
  ASSUME IInv, NEW c \in Conn, NEW r, Becomes(c, r), Log!Add(c), Room',
         r.id = nextID + 1, Recorded(c, r, Fresh(c))
  PROVE  IInv'
<1>1. /\ LogInv' /\ nextID' = nextID + 1 /\ nextID \in Nat
      /\ \A i \in DOMAIN entries' :
           entries'[i] = Fresh(c) \/ \E j \in DOMAIN entries : entries'[i] = entries[j]
      /\ \A j \in DOMAIN entries : entries[j].id <= nextID /\ entries[j].id \in Nat
  BY AddEffect, EntryIds DEF IInv
<1>2. /\ req' \in [Conn -> Request] /\ req'[c] = r
      /\ \A d \in Conn : d # c => req'[d] = req[d]
  BY DEF IInv, Becomes
<1>3. \A d \in Conn : req[d].id \in Nat /\ req[d].id <= nextID
  BY InterceptAssumption DEF IInv, Request
<1>4. \A d \in Conn : Own(req'[d]) /\ Capture(req'[d]) /\ req'[d].id <= nextID'
  BY <1>1, <1>2, <1>3 DEF IInv, Becomes
<1>5. Fresh(c).id = nextID + 1 /\ Fresh(c).body = 0
  BY DEF Fresh
<1>6. ASSUME NEW i \in DOMAIN entries', NEW d \in Conn,
             req'[d].id # 0, entries'[i].id = req'[d].id
      PROVE  Recorded(d, req'[d], entries'[i])
  <2>1. CASE entries'[i] = Fresh(c)
    <3>1. d = c
      BY <1>1, <1>2, <1>3, <1>5, <1>6, <2>1
    <3> QED  BY <1>2, <2>1, <3>1
  <2>2. CASE \E j \in DOMAIN entries : entries'[i] = entries[j]
    <3>1. d # c
      BY <1>1, <1>2, <1>6, <2>2
    <3> QED  BY <1>2, <1>6, <2>2, <3>1 DEF IInv
  <2> QED  BY <1>1, <2>1, <2>2
<1>7. \A i \in DOMAIN entries' : entries'[i].body <= MaxBody
  BY <1>1, <1>5, InterceptAssumption DEF IInv
<1> QED  BY <1>1, <1>2, <1>4, <1>6, <1>7 DEF IInv

\* So does one that amends the entry of the request, if the request agrees
\* with what it becomes.
LEMMA AmendingStep ==
  ASSUME IInv, NEW c \in Conn, NEW r, Becomes(c, r), Room',
         r.id = req[c].id, r.id # 0,
         NEW b \in Body, NEW p \in ProxyInfo, b <= MaxBody,
         \/ /\ Log!FinalizeBody(r.id, b)
            /\ \A e \in Log!Entry :
                 Recorded(c, req[c], e) => Recorded(c, r, [e EXCEPT !.body = b])
         \/ /\ Log!UpdateProxy(r.id, p)
            /\ \A e \in Log!Entry :
                 Recorded(c, req[c], e) => Recorded(c, r, [e EXCEPT !.proxy = p])
  PROVE  IInv'
<1>1. /\ nextID \in Nat
      /\ \A i \in DOMAIN entries : entries[i] \in Log!Entry
  BY EntryIds DEF IInv
<1>2. r.id \in 1..nextID
  BY <1>1 DEF IInv, Request
<1>3. /\ LogInv' /\ nextID' = nextID /\ DOMAIN entries' = DOMAIN entries
      /\ \A i \in DOMAIN entries :
           /\ entries[i].id # r.id => entries'[i] = entries[i]
           /\ entries[i].id = r.id =>
                /\ Log!FinalizeBody(r.id, b) => entries'[i] = [entries[i] EXCEPT !.body = b]
                /\ Log!UpdateProxy(r.id, p) => entries'[i] = [entries[i] EXCEPT !.proxy = p]
  BY <1>2, AmendEffect DEF IInv
<1>4. /\ req' \in [Conn -> Request] /\ req'[c] = r
      /\ \A d \in Conn : d # c => req'[d] = req[d]
  BY DEF IInv, Becomes
<1>5. \A d \in Conn : Own(req'[d]) /\ Capture(req'[d]) /\ req'[d].id <= nextID'
  BY <1>3, <1>4 DEF IInv, Becomes
<1>6. ASSUME NEW i \in DOMAIN entries'
      PROVE  /\ entries'[i].id = entries[i].id
             /\ entries'[i].body <= MaxBody
             /\ \A d \in Conn : req'[d].id # 0 /\ entries'[i].id = req'[d].id
                                  => Recorded(d, req'[d], entries'[i])
  <2>1. CASE entries[i].id # r.id
    BY <1>3, <1>4, <2>1 DEF IInv
  <2>2. CASE entries[i].id = r.id
    <3> DEFINE e == entries[i]
    <3>1. e \in Log!Entry /\ e.body <= MaxBody /\ Recorded(c, req[c], e)
      BY <1>1, <1>3, <2>2 DEF IInv
    <3>2. /\ [e EXCEPT !.body = b].id = e.id /\ [e EXCEPT !.body = b].body = b
          /\ [e EXCEPT !.proxy = p].id = e.id /\ [e EXCEPT !.proxy = p].body = e.body
      BY <3>1 DEF Log!Entry
    <3>3. entries'[i].id = e.id /\ entries'[i].body <= MaxBody
      BY <1>3, <2>2, <3>1, <3>2
    <3>4. Recorded(c, r, entries'[i])
      BY <1>3, <2>2, <3>1
    <3>5. ASSUME NEW d \in Conn, req'[d].id = e.id
          PROVE  d = c
      <4>1. d # c => Recorded(d, req[d], e)
        BY <1>2, <1>3, <1>4, <2>2, <3>5 DEF IInv
      <4> QED  BY <3>1, <4>1 DEF Recorded
    <3> QED  BY <1>4, <3>3, <3>4, <3>5
  <2> QED  BY <2>1, <2>2
<1> QED  BY <1>3, <1>4, <1>5, <1>6 DEF IInv

-----------------------------------------------------------------------------
(***************************************************************************)
(* Room: an id is reserved for every request that has yet to be recorded.  *)
(***************************************************************************)
Waits(r) == r.pc \in {"refuse", "add"}

\* The requests that still have to be recorded find an id.
LEMMA RoomStep ==
  ASSUME IInv, NEW c \in Conn, NEW r, req' = [req EXCEPT ![c] = r],
         \/ UNCHANGED nextID /\ (Waits(r) => Waits(req[c]))
         \/ UNCHANGED nextID /\ nextID + Cardinality(Unrecorded) < MaxID
         \/ nextID' = nextID + 1 /\ Waits(req[c]) /\ ~Waits(r)
  PROVE  Room'
<1> DEFINE U == Unrecorded
<1>1. /\ IsFiniteSet(U) /\ Cardinality(U) \in Nat /\ nextID \in Nat
      /\ nextID + Cardinality(U) <= MaxID
  <2>1. U \in SUBSET Conn
    BY DEF Unrecorded
  <2> QED  BY <2>1, FS_Subset, FS_CardinalityType, EntryIds, InterceptAssumption DEF IInv, Room
<1>2. c \in U <=> Waits(req[c])
  BY DEF Unrecorded, Waits
<1>3. U' = IF Waits(r) THEN U \cup {c} ELSE U \ {c}
  BY DEF IInv, Unrecorded, Waits
<1> HIDE DEF U
<1>4. /\ Cardinality(U \cup {c}) = IF c \in U THEN Cardinality(U) ELSE Cardinality(U) + 1
      /\ Cardinality(U \ {c}) = IF c \in U THEN Cardinality(U) - 1 ELSE Cardinality(U)
  BY <1>1, FS_AddElement, FS_RemoveElement
<1> DEFINE k == Cardinality(U)
           k2 == Cardinality(U')
<1>5. /\ k \in Nat
      /\ \/ k2 = k + 1 /\ Waits(r) /\ ~Waits(req[c])
         \/ k2 = k /\ (Waits(r) <=> Waits(req[c]))
         \/ k2 = k - 1 /\ ~Waits(r) /\ Waits(req[c])
  BY <1>1, <1>2, <1>3, <1>4
<1>6. nextID + k <= MaxID /\ MaxID \in Nat
  BY <1>1, InterceptAssumption
<1> HIDE DEF k, k2
<1>7. \/ nextID' = nextID /\ (k2 = k \/ k2 = k - 1)
      \/ nextID' = nextID /\ k2 = k + 1 /\ nextID + k < MaxID
      \/ nextID' = nextID + 1 /\ k2 = k - 1
  BY <1>5 DEF U, k
<1>8. nextID' + k2 <= MaxID
  BY <1>1, <1>5, <1>6, <1>7
<1> QED  BY <1>8 DEF Room, U, k2

\* A request that is recorded gets an id within bounds.
LEMMA RoomForOne ==
  ASSUME IInv, NEW c \in Conn, Waits(req[c])
  PROVE  nextID + 1 \in 1..MaxID
<1>1. Unrecorded \in SUBSET Conn /\ c \in Unrecorded
  BY DEF Unrecorded, Waits
<1>2. /\ IsFiniteSet(Unrecorded) /\ Cardinality(Unrecorded) \in Nat
      /\ Cardinality(Unrecorded) # 0
  BY <1>1, FS_Subset, FS_CardinalityType, FS_EmptySet, InterceptAssumption
<1> QED  BY <1>2, EntryIds, InterceptAssumption DEF IInv, Room

-----------------------------------------------------------------------------
(***************************************************************************)
(* The actions.                                                            *)
(***************************************************************************)
\* A free connection is sound.
LEMMA NoRequestSound == NoRequest \in Request /\ Own(NoRequest) /\ Capture(NoRequest)
BY InterceptAssumption DEF NoRequest, Request, Own, Capture, Body, Status, Early

\* The invariant holds at the start.
LEMMA InitIInv == Init => IInv
<1> SUFFICES ASSUME Init
             PROVE  IInv
  OBVIOUS
<1>1. LogProofs!Init
  BY DEF Init, Log!Init, LogProofs!Init
<1>2. LogInv
  BY <1>1, LogAssumption, LogProofs!InitInv DEF LogInv
<1>3. DOMAIN entries = {} /\ nextID = 0
  BY DEF Init, Log!Init
<1>4. \A c \in Conn : req[c] = NoRequest
  BY DEF Init
<1>5. Unrecorded = {}
  BY <1>4 DEF Unrecorded, NoRequest
<1>6. Room
  BY <1>3, <1>5, FS_EmptySet, InterceptAssumption DEF Room
<1>7. req \in [Conn -> Request]
  BY NoRequestSound DEF Init
<1>8. \A c \in Conn : Own(req[c]) /\ Capture(req[c]) /\ req[c].id <= nextID
  <2>1. NoRequest.id = 0 /\ 0 <= 0
    BY DEF NoRequest
  <2> QED  BY <1>3, <1>4, <2>1, NoRequestSound
<1> QED  BY <1>2, <1>3, <1>6, <1>7, <1>8 DEF IInv

\* A request arrives, if there is room to record it.
LEMMA ArriveStep ==
  ASSUME IInv, NEW c \in Conn, Arrive(c)
  PROVE  IInv'
<1>1. PICK upgrade, websocket, eventStream, bodyMethod, declared \in BOOLEAN,
             size \in Body :
        LET mode == Classify(websocket, eventStream, bodyMethod)
            inspect == mode = "inspect"
        IN  /\ websocket => upgrade
            /\ ~inspect => size = 0 /\ declared
            /\ req' = [req EXCEPT ![c] =
                 [NoRequest EXCEPT
                    !.pc = IF inspect /\ declared /\ size > MaxBody
                             THEN "refuse" ELSE "add",
                    !.mode = mode, !.upgrade = upgrade,
                    !.size = size, !.declared = declared,
                    !.writer = IF inspect THEN "read" ELSE "end"]]
  BY DEF Arrive
<1> DEFINE mode == Classify(websocket, eventStream, bodyMethod)
           inspect == mode = "inspect"
           r == [NoRequest EXCEPT
                   !.pc = IF inspect /\ declared /\ size > MaxBody
                            THEN "refuse" ELSE "add",
                   !.mode = mode, !.upgrade = upgrade,
                   !.size = size, !.declared = declared,
                   !.writer = IF inspect THEN "read" ELSE "end"]
<1>2. mode \in {"tunnel", "inspect"}
  BY DEF Classify
<1> HIDE DEF mode
<1>a. /\ r.pc \in {"refuse", "add"} /\ (mode = "tunnel" => r.pc = "add")
      /\ r.mode = mode /\ r.upgrade = upgrade /\ r.size = size /\ r.declared = declared
      /\ r.writer \in {"read", "end"} /\ r.id = 0 /\ r.status = 0 /\ r.client = 0
      /\ r.read = 0 /\ r.captured = 0 /\ r.sent = 0
      /\ r.tooLarge = FALSE /\ r.whole = FALSE
  BY <1>2 DEF NoRequest
<1>b. r \in Request
  <2> DEFINE pc == IF inspect /\ declared /\ size > MaxBody THEN "refuse" ELSE "add"
             writer == IF inspect THEN "read" ELSE "end"
  <2>1. pc \in {"refuse", "add"} /\ writer \in {"read", "end"}
    OBVIOUS
  <2> HIDE DEF pc, writer
  <2>2. [NoRequest EXCEPT !.pc = pc, !.mode = mode, !.upgrade = upgrade,
                          !.size = size, !.declared = declared, !.writer = writer]
          \in Request
    BY <1>2, <2>1, NoRequestSound DEF Request
  <2> QED  BY <2>2 DEF pc, writer
<1>c. 0 <= MaxBody /\ 0 <= size
  BY InterceptAssumption DEF Body
<1> HIDE DEF r
<1>d. Own(r) /\ Waits(r)
  BY <1>2, <1>a DEF Own, Waits, Early
<1>e. Capture(r)
  BY <1>a, <1>c DEF Capture
<1>3. /\ r \in Request /\ Own(r) /\ Capture(r) /\ r.id = 0 /\ Waits(r)
  BY <1>a, <1>b, <1>d, <1>e
<1>4. req' = [req EXCEPT ![c] = r] /\ UNCHANGED <<entries, nextID>>
  BY <1>1 DEF Arrive, mode, r
<1>5. req[c].id = 0 /\ nextID \in Nat
  BY EntryIds DEF Arrive, IInv, Own
<1>6. Room'
  BY <1>4, RoomStep DEF Arrive
<1>7. Becomes(c, r)
  BY <1>3, <1>4, <1>5 DEF Becomes
<1> QED  BY <1>3, <1>4, <1>5, <1>6, <1>7, StayStep

\* The request is recorded: RefuseAdd and RecordAdd.
LEMMA RecordStep ==
  ASSUME IInv, NEW c \in Conn, RefuseAdd(c) \/ RecordAdd(c)
  PROVE  IInv'
<1> DEFINE r == req'[c]
<1>1. /\ req[c] \in Request /\ Own(req[c]) /\ Capture(req[c])
      /\ nextID \in Nat /\ nextID' = nextID + 1
      /\ Log!Add(c) /\ Waits(req[c])
  BY EntryIds DEF IInv, RefuseAdd, RecordAdd, Log!Add, Waits
<1>2. nextID + 1 \in 1..MaxID
  BY <1>1, RoomForOne
<1>3. PICK pc \in {"refused", "mark", "trip"} :
        /\ req' = [req EXCEPT ![c].pc = pc, ![c].id = nextID + 1]
        /\ pc = "refused" <=> req[c].pc = "refuse"
        /\ pc = "mark" => req[c].mode = "tunnel"
        /\ pc = "trip" => req[c].mode = "inspect"
  BY <1>1 DEF RefuseAdd, RecordAdd, Request, Waits
<1>4. /\ r = [req[c] EXCEPT !.pc = pc, !.id = nextID + 1]
      /\ req' = [req EXCEPT ![c] = r]
  BY <1>3 DEF IInv
<1> HIDE DEF r
<1>a. /\ r.pc = pc /\ r.id = nextID + 1
      /\ r.mode = req[c].mode /\ r.size = req[c].size
      /\ r.writer = req[c].writer /\ r.status = req[c].status
      /\ r.client = req[c].client /\ r.read = req[c].read
      /\ r.captured = req[c].captured /\ r.sent = req[c].sent
      /\ r.tooLarge = req[c].tooLarge /\ r.whole = req[c].whole
  BY <1>1, <1>4 DEF Request
<1>b. r \in Request
  <2> DEFINE id == nextID + 1
  <2>1. id \in 0..MaxID /\ r = [req[c] EXCEPT !.pc = pc, !.id = id]
    BY <1>2, <1>4, InterceptAssumption
  <2> HIDE DEF id
  <2> QED  BY <1>1, <1>3, <2>1 DEF Request
<1>c. nextID + 1 # 0
  BY <1>1
<1>d. Own(r) /\ ~Waits(r)
  BY <1>1, <1>3, <1>a, <1>c DEF Own, Waits, Early
<1>e. Capture(r)
  BY <1>1, <1>a DEF Capture
<1>5. r \in Request /\ Own(r) /\ Capture(r) /\ r.id = nextID + 1 /\ ~Waits(r)
  BY <1>a, <1>b, <1>d, <1>e
<1>6. Recorded(c, r, Fresh(c))
  BY <1>1, <1>3, <1>4 DEF Recorded, Shown, BodyDue, Fresh, NoProxy, Own, Request, Waits
<1>7. Room'
  BY <1>1, <1>4, <1>5, RoomStep
<1>8. Becomes(c, r)
  BY <1>1, <1>4, <1>5 DEF Becomes
<1> QED  BY <1>1, <1>5, <1>6, <1>7, <1>8, AddingStep

\* What a step of request c starts from.
LEMMA Current ==
  ASSUME IInv, NEW c \in Conn
  PROVE  /\ req[c] \in Request /\ Own(req[c]) /\ Capture(req[c])
         /\ req[c].id <= nextID /\ nextID \in Nat
BY EntryIds DEF IInv

\* Steps after which the request does not wait leave the room there is.
LEMMA RoomKept ==
  ASSUME IInv, NEW c \in Conn, NEW r, req' = [req EXCEPT ![c] = r],
         UNCHANGED nextID, ~Waits(r)
  PROVE  Room'
BY RoomStep


\* A step that changes what the entry of request c says of its outcome.
LEMMA ProxyStep ==
  ASSUME IInv, NEW c \in Conn, NEW r \in Request, NEW p \in ProxyInfo,
         req' = [req EXCEPT ![c] = r], Log!UpdateProxy(r.id, p),
         r.id = req[c].id, r.id # 0, Own(r), Capture(r), ~Waits(r),
         Shown(r, p), ~BodyDue(r)
  PROVE  IInv'
<1>1. UNCHANGED nextID
  BY DEF Log!UpdateProxy
<1>2. Becomes(c, r) /\ Room'
  BY <1>1, Current, RoomKept DEF Becomes
<1>3. ASSUME NEW e \in Log!Entry, Recorded(c, req[c], e)
      PROVE  Recorded(c, r, [e EXCEPT !.proxy = p])
  <2>1. [e EXCEPT !.proxy = p].tag = e.tag /\ [e EXCEPT !.proxy = p].proxy = p
    BY DEF Log!Entry
  <2> QED  BY <1>3, <2>1 DEF Recorded
<1>4. 0 \in Body /\ 0 <= MaxBody
  BY InterceptAssumption DEF Body
<1> QED  BY <1>2, <1>3, <1>4, AmendingStep

\* A step that puts a body into the entry of request c.
LEMMA BodyStep ==
  ASSUME IInv, NEW c \in Conn, NEW r \in Request, NEW b \in Body, b <= MaxBody,
         req' = [req EXCEPT ![c] = r], Log!FinalizeBody(r.id, b),
         r.id = req[c].id, r.id # 0, Own(r), Capture(r), ~Waits(r),
         \A p \in ProxyInfo : Shown(req[c], p) => Shown(r, p),
         BodyDue(r) => b = r.size
  PROVE  IInv'
<1>1. UNCHANGED nextID
  BY DEF Log!FinalizeBody
<1>2. Becomes(c, r) /\ Room'
  BY <1>1, Current, RoomKept DEF Becomes
<1>3. ASSUME NEW e \in Log!Entry, Recorded(c, req[c], e)
      PROVE  Recorded(c, r, [e EXCEPT !.body = b])
  <2>1. /\ [e EXCEPT !.body = b].tag = e.tag
        /\ [e EXCEPT !.body = b].proxy = e.proxy /\ e.proxy \in ProxyInfo
        /\ [e EXCEPT !.body = b].body = b
    BY DEF Log!Entry
  <2> QED  BY <1>3, <2>1 DEF Recorded
<1>4. NoProxy \in ProxyInfo
  BY DEF NoProxy, ProxyInfo, Status
<1> QED  BY <1>2, <1>3, <1>4, AmendingStep

\* A step that the store does not see.
LEMMA LocalStep ==
  ASSUME IInv, NEW c \in Conn, NEW r \in Request,
         req' = [req EXCEPT ![c] = r], UNCHANGED <<entries, nextID>>,
         r.id \in {0, req[c].id}, Own(r), Capture(r), ~Waits(r),
         r.id # 0 => \A p \in ProxyInfo : Shown(req[c], p) => Shown(r, p),
         BodyDue(r) => BodyDue(req[c]) /\ r.size = req[c].size
  PROVE  IInv'
<1>1. r.id <= nextID'
  BY Current
<1>2. Becomes(c, r) /\ Room'
  BY <1>1, RoomKept DEF Becomes
<1>3. ASSUME NEW i \in DOMAIN entries, r.id # 0, Recorded(c, req[c], entries[i])
      PROVE  Recorded(c, r, entries[i])
  <2>1. entries[i].proxy \in ProxyInfo
    BY EntryIds DEF IInv, Log!Entry
  <2> QED  BY <1>3, <2>1 DEF Recorded
<1> QED  BY <1>2, <1>3, StayStep



\* How the handler's steps after Add change their request.
Pc == {"idle", "refuse", "refused", "add", "mark", "trip", "copy",
       "errorBody", "finish", "done"}

Turn(r, pc) == [r EXCEPT !.pc = pc]
Answer(r, pc, status) == [r EXCEPT !.pc = pc, !.client = status]

\* The fields of such a request.
LEMMA Turned ==
  ASSUME NEW old \in Request, Capture(old), NEW pc \in Pc
  PROVE  LET r == Turn(old, pc)
         IN  /\ r \in Request /\ Capture(r) /\ r.pc = pc
             /\ r.status = old.status /\ r.whole = old.whole /\ r.client = old.client
             /\ r.id = old.id /\ r.mode = old.mode /\ r.size = old.size
<1> DEFINE r == Turn(old, pc)
<1>1. r \in Request
  BY DEF Turn, Request, Pc
<1>2. /\ r.pc = pc
      /\ r.status = old.status /\ r.whole = old.whole /\ r.client = old.client
      /\ r.id = old.id /\ r.mode = old.mode /\ r.size = old.size
      /\ r.read = old.read /\ r.captured = old.captured /\ r.tooLarge = old.tooLarge
      /\ r.writer = old.writer /\ r.sent = old.sent
  BY DEF Turn, Request
<1> HIDE DEF r
<1>3. Capture(r)
  BY <1>2 DEF Capture
<1> QED  BY <1>1, <1>2, <1>3 DEF r

\* The fields of one that is answered.
LEMMA Answered ==
  ASSUME NEW old \in Request, Capture(old), NEW pc \in Pc, NEW status \in Status
  PROVE  LET r == Answer(old, pc, status)
         IN  /\ r \in Request /\ Capture(r) /\ r.pc = pc /\ r.client = status
             /\ r.status = old.status /\ r.whole = old.whole
             /\ r.id = old.id /\ r.mode = old.mode /\ r.size = old.size
<1> DEFINE r == Answer(old, pc, status)
<1>1. r \in Request
  BY DEF Answer, Request, Pc
<1>2. /\ r.pc = pc /\ r.client = status
      /\ r.status = old.status /\ r.whole = old.whole
      /\ r.id = old.id /\ r.mode = old.mode /\ r.size = old.size
      /\ r.read = old.read /\ r.captured = old.captured /\ r.tooLarge = old.tooLarge
      /\ r.writer = old.writer /\ r.sent = old.sent
  BY DEF Answer, Request
<1> HIDE DEF r
<1>3. Capture(r)
  BY <1>2 DEF Capture
<1> QED  BY <1>1, <1>2, <1>3 DEF r

\* What is recorded of an error.
LEMMA Failure ==
  ASSUME NEW s \in Status
  PROVE  LET p == [NoProxy EXCEPT !.status = s, !.error = TRUE]
         IN  p \in ProxyInfo /\ p.status = s /\ p.error = TRUE
<1> DEFINE p == [NoProxy EXCEPT !.status = s, !.error = TRUE]
<1>1. NoProxy \in ProxyInfo
  BY DEF NoProxy, ProxyInfo, Status
<1> QED  BY <1>1 DEF ProxyInfo

\* 413 for an announced body: the outcome is recorded and answered.
LEMMA RefuseStep ==
  ASSUME IInv, NEW c \in Conn, Refuse(c)
  PROVE  IInv'
<1> DEFINE old == req[c]
           r == Answer(old, "done", 413)
           p == [NoProxy EXCEPT !.status = 413, !.error = TRUE]
<1>1. /\ old \in Request /\ Own(old) /\ Capture(old) /\ old.pc = "refused"
      /\ req' = [req EXCEPT ![c] = r] /\ Log!UpdateProxy(old.id, p)
  <2>1. req' = [req EXCEPT ![c].pc = "done", ![c].client = 413]
    BY DEF Refuse
  <2>2. req' = [req EXCEPT ![c] = r]
    <3>1. req \in [Conn -> Request]
      BY DEF IInv
    <3> DEFINE pc == "done"
               status == 413
    <3>2. req' = [req EXCEPT ![c].pc = pc, ![c].client = status]
      BY <2>1
    <3> HIDE DEF pc, status, p
    <3>3. req' = [req EXCEPT ![c] = Answer(old, pc, status)]
      BY <3>1, <3>2 DEF Answer
    <3> QED  BY <3>3 DEF pc, status
  <2>3. old.pc = "refused" /\ Log!UpdateProxy(old.id, p)
    BY Zenon DEF Refuse
  <2> QED  BY <2>2, <2>3, Current
<1>2. p \in ProxyInfo /\ p.status = 413 /\ p.error = TRUE
  <2>1. 413 \in Status
    BY DEF Status
  <2> QED  BY <2>1, Failure
<1> HIDE DEF old, p
<1>3. /\ r \in Request /\ Capture(r) /\ r.pc = "done" /\ r.whole = old.whole
      /\ r.client = 413 /\ r.id = old.id /\ r.mode = old.mode
  <2>1. "done" \in Pc /\ 413 \in Status
    BY DEF Pc, Status
  <2> QED  BY <1>1, <2>1, Answered
<1> HIDE DEF r
<1>4. Own(r) /\ ~Waits(r) /\ r.id # 0 /\ r.mode = "inspect" /\ ~r.whole
  BY <1>1, <1>3 DEF Own, Waits, Early, Request
<1>5. Shown(r, p) /\ ~BodyDue(r)
  BY <1>2, <1>3, <1>4 DEF Shown, BodyDue
<1> QED  BY <1>1, <1>2, <1>3, <1>4, <1>5, ProxyStep DEF old

\* A tunnelled request is marked as streaming.
LEMMA MarkStep ==
  ASSUME IInv, NEW c \in Conn, Mark(c)
  PROVE  IInv'
<1> DEFINE old == req[c]
           r == Turn(old, "trip")
           p == [NoProxy EXCEPT !.streaming = TRUE]
<1>1. /\ old \in Request /\ Own(old) /\ Capture(old) /\ old.pc = "mark"
      /\ req' = [req EXCEPT ![c] = r] /\ Log!UpdateProxy(old.id, p)
  BY Current DEF Mark, IInv, Turn
<1>2. p \in ProxyInfo /\ p.streaming = TRUE /\ p.closed = FALSE
  BY DEF ProxyInfo, NoProxy, Status
<1> HIDE DEF old, p
<1>3. /\ r \in Request /\ Capture(r) /\ r.pc = "trip" /\ r.whole = old.whole
      /\ r.client = old.client /\ r.id = old.id /\ r.mode = old.mode
  <2>1. "trip" \in Pc
    BY DEF Pc
  <2> QED  BY <1>1, <2>1, Turned
<1> HIDE DEF r
<1>4. Own(r) /\ ~Waits(r) /\ r.id # 0 /\ r.mode = "tunnel"
  BY <1>1, <1>3 DEF Own, Waits, Early, Request
<1>5. Shown(r, p) /\ ~BodyDue(r)
  BY <1>2, <1>3, <1>4 DEF Shown, BodyDue
<1> QED  BY <1>1, <1>2, <1>3, <1>4, <1>5, ProxyStep DEF old

\* modifyResponse records the upstream's answer.
LEMMA RespondStep ==
  ASSUME IInv, NEW c \in Conn, Respond(c)
  PROVE  IInv'
<1> DEFINE old == req[c]
<1>1. PICK s \in Upstream :
        /\ Log!UpdateProxy(old.id,
             [NoProxy EXCEPT !.status = s, !.streaming = (old.mode = "tunnel")])
        /\ req' = [req EXCEPT ![c].pc = "copy", ![c].status = s,
                              ![c].whole = old.sent = old.size /\ ~old.tooLarge]
  BY DEF Respond
<1> DEFINE r == [old EXCEPT !.pc = "copy", !.status = s,
                            !.whole = old.sent = old.size /\ ~old.tooLarge]
           p == [NoProxy EXCEPT !.status = s, !.streaming = (old.mode = "tunnel")]
<1>2. /\ old \in Request /\ Own(old) /\ Capture(old) /\ old.pc = "trip"
      /\ req' = [req EXCEPT ![c] = r] /\ Log!UpdateProxy(old.id, p)
  BY <1>1, Current DEF Respond, IInv
<1>3. s \in Status
  BY DEF Upstream, Status
<1> HIDE DEF old
<1>4. p \in ProxyInfo
  BY <1>3 DEF ProxyInfo, NoProxy
<1>5. /\ p.status = s /\ p.error = FALSE /\ p.closed = FALSE
      /\ p.streaming <=> old.mode = "tunnel"
  BY DEF NoProxy
<1>6. r \in Request
  BY <1>2, <1>3 DEF Request
<1>7. /\ r.pc = "copy" /\ r.status = s
      /\ r.whole <=> old.sent = old.size /\ ~old.tooLarge
      /\ r.client = old.client /\ r.id = old.id /\ r.mode = old.mode
  BY <1>2 DEF Request
<1>8. /\ r.size = old.size /\ r.read = old.read /\ r.captured = old.captured
      /\ r.tooLarge = old.tooLarge /\ r.writer = old.writer /\ r.sent = old.sent
  BY <1>2 DEF Request
<1> HIDE DEF r, p
<1>9. Own(r) /\ ~Waits(r) /\ r.id # 0 /\ r.client = 0
  BY <1>2, <1>7 DEF Own, Waits, Early, Request
<1>10. Capture(r)
  BY <1>2, <1>7, <1>8 DEF Capture
<1>11. Shown(r, p) /\ ~BodyDue(r)
  BY <1>5, <1>7, <1>9 DEF Shown, BodyDue
<1> QED  BY <1>2, <1>4, <1>6, <1>7, <1>9, <1>10, <1>11, ProxyStep DEF old

\* Request c is replaced by r.
Turns(c, r) == req' = [req EXCEPT ![c] = r]

\* What errorHandler makes of its request.
LEMMA ErrorEffect ==
  ASSUME NEW c \in Conn, NEW status, req \in [Conn -> Request], ErrorHandler(c, status)
  PROVE  \E pc \in {"errorBody", "finish"} :
           /\ Turns(c, Answer(req[c], pc, status))
           /\ pc = "errorBody" => req[c].mode = "inspect"
<1> DEFINE pc == IF req[c].mode = "inspect" /\ ~(req[c].declared /\ req[c].size = 0)
                   THEN "errorBody" ELSE "finish"
<1>1. req' = [req EXCEPT ![c].pc = pc, ![c].client = status]
  BY DEF ErrorHandler
<1>2. pc \in {"errorBody", "finish"} /\ (pc = "errorBody" => req[c].mode = "inspect")
  OBVIOUS
<1> HIDE DEF pc
<1>3. Turns(c, Answer(req[c], pc, status))
  BY <1>1 DEF Answer, Turns
<1> QED  BY <1>2, <1>3

\* errorHandler records and answers 413 or 502.
LEMMA ErrorStep ==
  ASSUME IInv, NEW c \in Conn, TooLarge(c) \/ Fail(c)
  PROVE  IInv'
<1> DEFINE old == req[c]
<1>1. PICK status \in {413, 502} : ErrorHandler(c, status)
  BY DEF TooLarge, Fail
<1> DEFINE p == [NoProxy EXCEPT !.status = status, !.error = TRUE]
<1>2. PICK pc \in {"errorBody", "finish"} :
        /\ Turns(c, Answer(old, pc, status))
        /\ pc = "errorBody" => old.mode = "inspect"
  <2>1. req \in [Conn -> Request]
    BY DEF IInv
  <2> QED  BY <1>1, <2>1, ErrorEffect
<1> DEFINE r == Answer(old, pc, status)
<1>3. /\ old \in Request /\ Own(old) /\ Capture(old) /\ old.pc \in {"trip", "copy"}
      /\ req' = [req EXCEPT ![c] = r] /\ Log!UpdateProxy(old.id, p)
  <2>1. Log!UpdateProxy(old.id, p)
    BY <1>1 DEF ErrorHandler
  <2>2. old.pc \in {"trip", "copy"}
    BY DEF TooLarge, Fail
  <2> QED  BY <1>2, <2>1, <2>2, Current DEF Turns
<1>4. p \in ProxyInfo /\ p.status = status /\ p.error = TRUE
  <2>1. status \in Status
    BY DEF Status
  <2> QED  BY <2>1, Failure
<1>5. pc \in {"errorBody", "finish"} /\ (pc = "errorBody" => old.mode = "inspect")
  BY <1>2
<1> HIDE DEF old, p
<1>6. /\ r \in Request /\ Capture(r) /\ r.pc = pc /\ r.client = status
      /\ r.id = old.id /\ r.mode = old.mode /\ r.whole = old.whole
  <2>1. pc \in Pc /\ status \in Status
    BY <1>5 DEF Pc, Status
  <2> QED  BY <1>3, <2>1, Answered
<1> HIDE DEF r
<1>7. Own(r) /\ ~Waits(r) /\ r.id # 0
  BY <1>3, <1>5, <1>6 DEF Own, Waits, Early, Request
<1>8. Shown(r, p) /\ ~BodyDue(r)
  BY <1>4, <1>5, <1>6, <1>7 DEF Shown, BodyDue
<1> QED  BY <1>3, <1>4, <1>6, <1>7, <1>8, ProxyStep DEF old

\* What captureReader.bytes returns is within the limit, and the whole body
\* when all of it was sent.
LEMMA BytesSound ==
  ASSUME IInv, NEW c \in Conn, NEW b \in Bytes(c)
  PROVE  /\ b \in Body /\ b <= MaxBody
         /\ req[c].whole => b = req[c].size
<1> DEFINE old == req[c]
<1>1. /\ old.captured \in Nat /\ old.read \in Nat /\ old.size \in 0..MaxSize
      /\ Capture(old) /\ MaxSize \in Nat /\ MaxBody \in Nat
      /\ \/ b = old.captured
         \/ old.writer = "store" /\ b = old.read
  BY Current, InterceptAssumption DEF Request, Body, Bytes
<1> HIDE DEF old
<1>2. b \in 0..MaxSize /\ b <= MaxBody /\ (old.whole => b = old.size)
  <2>1. CASE b = old.captured
    <3>1. old.captured \in 0..MaxSize
      BY Current DEF old, Request, Body
    <3> QED  BY <1>1, <2>1, <3>1 DEF Capture
  <2>2. CASE old.writer = "store" /\ b = old.read
    BY <1>1, <2>2 DEF Capture
  <2> QED  BY <1>1, <2>1, <2>2
<1> QED  BY <1>2 DEF Body, old

\* errorHandler finalizes the body.
LEMMA ErrorBodyStep ==
  ASSUME IInv, NEW c \in Conn, ErrorBody(c)
  PROVE  IInv'
<1> DEFINE old == req[c]
           r == Turn(old, "finish")
<1>1. PICK b \in Bytes(c) : Log!FinalizeBody(old.id, b)
  BY DEF ErrorBody
<1>2. /\ old \in Request /\ Own(old) /\ Capture(old) /\ old.pc = "errorBody"
      /\ req' = [req EXCEPT ![c] = r]
  BY Current DEF ErrorBody, IInv, Turn
<1>3. b \in Body /\ b <= MaxBody
  BY BytesSound
<1> HIDE DEF old
<1>4. /\ r \in Request /\ Capture(r) /\ r.pc = "finish" /\ r.client = old.client
      /\ r.id = old.id /\ r.mode = old.mode /\ r.status = old.status
  <2>1. "finish" \in Pc
    BY DEF Pc
  <2> QED  BY <1>2, <2>1, Turned
<1> HIDE DEF r
<1>5. Own(r) /\ ~Waits(r) /\ r.id # 0 /\ ~BodyDue(r)
  BY <1>2, <1>4 DEF Own, Waits, Early, Request, BodyDue
<1>6. \A p \in ProxyInfo : Shown(old, p) => Shown(r, p)
  BY <1>4 DEF Shown
<1> QED  BY <1>1, <1>2, <1>3, <1>4, <1>5, <1>6, BodyStep DEF old

\* ServeHTTP finalizes the body, or marks the stream as closed.
LEMMA FinishStep ==
  ASSUME IInv, NEW c \in Conn, Finish(c)
  PROVE  IInv'
<1> DEFINE old == req[c]
           r == Turn(old, "done")
           status == IF old.status = 0 THEN 200 ELSE old.status
           p == [NoProxy EXCEPT !.status = status, !.closed = TRUE]
<1>1. /\ old \in Request /\ Own(old) /\ Capture(old) /\ old.pc = "finish"
      /\ req' = [req EXCEPT ![c] = r]
  BY Current DEF Finish, IInv, Turn
<1>2. \/ old.mode = "inspect" /\ \E b \in Bytes(c) : Log!FinalizeBody(old.id, b)
      \/ old.mode = "tunnel" /\ Log!UpdateProxy(old.id, p)
  BY DEF Finish
<1>3. p \in ProxyInfo /\ p.streaming = FALSE /\ p.closed = TRUE
  <2>1. status \in Status
    BY <1>1 DEF Request, Status
  <2> HIDE DEF status
  <2> QED  BY <2>1 DEF ProxyInfo, NoProxy
<1>4. \A b \in Bytes(c) : b \in Body /\ b <= MaxBody /\ (old.whole => b = old.size)
  BY BytesSound
<1> HIDE DEF old, p
<1>5. /\ r \in Request /\ Capture(r) /\ r.pc = "done" /\ r.client = old.client
      /\ r.id = old.id /\ r.mode = old.mode /\ r.status = old.status
      /\ r.whole = old.whole /\ r.size = old.size
  <2>1. "done" \in Pc
    BY DEF Pc
  <2> QED  BY <1>1, <2>1, Turned
<1> HIDE DEF r
<1>6. Own(r) /\ ~Waits(r) /\ r.id # 0
  BY <1>1, <1>5 DEF Own, Waits, Early, Request
<1>7. CASE old.mode = "inspect"
  <2>1. PICK b \in Bytes(c) : Log!FinalizeBody(old.id, b)
    BY <1>2, <1>7
  <2>2. \A q \in ProxyInfo : Shown(old, q) => Shown(r, q)
    BY <1>1, <1>5, <1>7 DEF Shown
  <2>3. BodyDue(r) => b = r.size
    BY <1>4, <1>5 DEF BodyDue
  <2> QED  BY <1>1, <1>4, <1>5, <1>6, <2>1, <2>2, <2>3, BodyStep DEF old
<1>8. CASE old.mode = "tunnel"
  <2>1. Shown(r, p) /\ ~BodyDue(r) /\ Log!UpdateProxy(r.id, p)
    BY <1>2, <1>3, <1>5, <1>8 DEF Shown, BodyDue
  <2> QED  BY <1>1, <1>3, <1>5, <1>6, <2>1, ProxyStep DEF old
<1> QED  BY <1>2, <1>7, <1>8

\* The response comes to its end, or breaks off.
LEMMA CopyStep ==
  ASSUME IInv, NEW c \in Conn, CopyEnd(c) \/ CopyAbort(c)
  PROVE  IInv'
<1> DEFINE old == req[c]
<1>1. /\ old \in Request /\ Own(old) /\ Capture(old) /\ old.pc = "copy"
      /\ UNCHANGED <<entries, nextID>>
  BY Current DEF CopyEnd, CopyAbort
<1>2. old.id # 0 /\ old.status \in Upstream /\ old.client = 0 /\ old.status \in Status
  BY <1>1 DEF Own, Request
<1>3. CASE CopyEnd(c)
  <2> DEFINE r == Answer(old, "finish", old.status)
  <2>1. req' = [req EXCEPT ![c] = r]
    BY <1>3 DEF CopyEnd, IInv, Answer
  <2>2. "finish" \in Pc
    BY DEF Pc
  <2> HIDE DEF old
  <2>3. /\ r \in Request /\ Capture(r) /\ r.pc = "finish" /\ r.client = old.status
        /\ r.id = old.id /\ r.mode = old.mode /\ r.status = old.status
    BY <1>1, <1>2, <2>2, Answered
  <2> HIDE DEF r
  <2>4. Own(r) /\ ~Waits(r) /\ r.id # 0 /\ ~BodyDue(r)
    BY <1>1, <1>2, <2>3 DEF Own, Waits, Early, Request, BodyDue
  <2>5. \A p \in ProxyInfo : Shown(old, p) => Shown(r, p)
    BY <1>1, <1>2, <2>3 DEF Shown, Upstream
  <2> QED  BY <1>1, <2>1, <2>3, <2>4, <2>5, LocalStep DEF old
<1>4. CASE CopyAbort(c)
  <2> DEFINE r == Turn(old, "done")
  <2>1. req' = [req EXCEPT ![c] = r]
    BY <1>4 DEF CopyAbort, IInv, Turn
  <2>2. "done" \in Pc
    BY DEF Pc
  <2> HIDE DEF old
  <2>3. /\ r \in Request /\ Capture(r) /\ r.pc = "done" /\ r.client = old.client
        /\ r.id = old.id /\ r.mode = old.mode /\ r.status = old.status
    BY <1>1, <1>2, <2>2, Turned
  <2> HIDE DEF r
  <2>4. Own(r) /\ ~Waits(r) /\ r.id # 0 /\ ~BodyDue(r)
    BY <1>1, <1>2, <2>3 DEF Own, Waits, Early, Request, BodyDue, Upstream
  <2>5. \A p \in ProxyInfo : Shown(old, p) => Shown(r, p)
    BY <1>1, <1>2, <2>3 DEF Shown
  <2> QED  BY <1>1, <2>1, <2>3, <2>4, <2>5, LocalStep DEF old
<1> QED  BY <1>3, <1>4

\* The connection is free again.
LEMMA LeaveStep ==
  ASSUME IInv, NEW c \in Conn, Leave(c)
  PROVE  IInv'
<1>1. /\ req' = [req EXCEPT ![c] = NoRequest] /\ UNCHANGED <<entries, nextID>>
      /\ NoRequest.id = 0 /\ ~Waits(NoRequest) /\ ~BodyDue(NoRequest)
  BY DEF Leave, NoRequest, Waits, BodyDue
<1> QED  BY <1>1, NoRequestSound, LocalStep

\* captureReader takes the next chunk.
LEMMA ReadStep ==
  ASSUME IInv, NEW c \in Conn, ReadChunk(c)
  PROVE  IInv'
<1> DEFINE old == req[c]
<1>a. PICK n \in 1..(old.size - old.read) :
        LET tooLarge == old.read + n > MaxBody
        IN  req' = [req EXCEPT ![c].read = @ + n,
                               ![c].tooLarge = tooLarge,
                               ![c].sent = IF tooLarge THEN @ + n ELSE @,
                               ![c].writer = IF tooLarge THEN "end" ELSE "store"]
  BY DEF ReadChunk
<1> DEFINE read == old.read + n
           tooLarge == read > MaxBody
           sent == IF tooLarge THEN old.sent + n ELSE old.sent
           writer == IF tooLarge THEN "end" ELSE "store"
           r == [old EXCEPT !.read = read, !.tooLarge = tooLarge,
                            !.sent = sent, !.writer = writer]
<1>1. /\ old \in Request /\ Own(old) /\ Capture(old)
      /\ old.pc \in {"trip", "copy", "errorBody"}
      /\ old.writer = "read"
      /\ UNCHANGED <<entries, nextID>>
  BY Current DEF ReadChunk, BodyOpen
<1>2. req' = [req EXCEPT ![c] = r]
  BY <1>a DEF IInv
<1> HIDE DEF old
<1>3. /\ old.read \in Nat /\ old.captured = old.read /\ old.size \in 0..MaxSize
      /\ MaxSize \in Nat /\ MaxBody \in Nat /\ ~old.tooLarge /\ old.sent = old.captured
      /\ old.whole => old.captured = old.size
  BY <1>1, InterceptAssumption DEF Request, Body, Capture
<1>4. old.read < old.size /\ n \in Nat /\ n > 0 /\ old.read + n <= old.size /\ ~old.whole
  BY <1>3
<1>5. /\ read \in Body /\ sent \in Body /\ tooLarge \in BOOLEAN
      /\ writer \in {"read", "store", "end"} /\ read <= old.size
      /\ tooLarge => writer = "end"
      /\ ~tooLarge => writer = "store" /\ sent = old.captured /\ read <= MaxBody
      /\ old.captured <= MaxBody /\ writer # "read"
      /\ read > old.captured
  BY <1>1, <1>3, <1>4 DEF Body, Capture
<1>6. r = [old EXCEPT !.read = read, !.tooLarge = tooLarge, !.sent = sent, !.writer = writer]
  OBVIOUS
<1> HIDE DEF read, sent, tooLarge, writer, r
<1>7. r \in Request
  BY <1>1, <1>5, <1>6 DEF Request
<1>8. /\ r.pc = old.pc /\ r.client = old.client /\ r.status = old.status
      /\ r.whole = old.whole /\ r.id = old.id /\ r.mode = old.mode /\ r.size = old.size
      /\ r.captured = old.captured /\ r.read = read /\ r.sent = sent
      /\ r.writer = writer
  BY <1>1, <1>6 DEF Request
<1>9. r.tooLarge <=> tooLarge
  BY <1>1, <1>6 DEF Request
<1>10. Own(r) /\ ~Waits(r) /\ ~BodyDue(r)
  BY <1>1, <1>8 DEF Own, Waits, BodyDue, Early
<1>11. Capture(r)
  BY <1>4, <1>5, <1>8, <1>9 DEF Capture
<1>12. \A p \in ProxyInfo : Shown(old, p) => Shown(r, p)
  BY <1>8 DEF Shown
<1> QED  BY <1>1, <1>2, <1>7, <1>8, <1>10, <1>11, <1>12, LocalStep DEF old

\* captureReader keeps the chunk, and it goes upstream.
LEMMA StoreStep ==
  ASSUME IInv, NEW c \in Conn, StoreChunk(c)
  PROVE  IInv'
<1> DEFINE old == req[c]
           r == [old EXCEPT !.captured = old.read, !.sent = old.read,
                            !.writer = "read"]
<1>1. /\ old \in Request /\ Own(old) /\ Capture(old)
      /\ old.pc \in {"trip", "copy", "errorBody", "finish"}
      /\ old.writer = "store"
      /\ UNCHANGED <<entries, nextID>>
  BY Current DEF StoreChunk, BodyOpen
<1>2. req' = [req EXCEPT ![c] = r]
  BY DEF StoreChunk, IInv
<1> HIDE DEF old
<1>3. /\ old.read \in Nat /\ old.captured \in Nat /\ old.size \in 0..MaxSize
      /\ old.read > old.captured /\ old.read <= old.size /\ old.read <= MaxBody
      /\ MaxSize \in Nat /\ MaxBody \in Nat
      /\ ~old.tooLarge /\ old.sent = old.captured
      /\ old.whole => old.captured = old.size
  BY <1>1, InterceptAssumption DEF Request, Body, Capture
<1>4. ~old.whole
  BY <1>1, <1>3
<1> DEFINE more == old.read
<1>5. more \in Body /\ more <= MaxBody /\ more = old.read
  BY <1>3 DEF Body
<1>6. r = [old EXCEPT !.captured = more, !.sent = more, !.writer = "read"]
  OBVIOUS
<1> HIDE DEF more, r
<1>7. r \in Request
  BY <1>1, <1>5, <1>6 DEF Request
<1>8. /\ r.pc = old.pc /\ r.client = old.client /\ r.status = old.status
      /\ r.whole = old.whole /\ r.id = old.id /\ r.mode = old.mode /\ r.size = old.size
      /\ r.captured = more /\ r.read = old.read /\ r.sent = more
      /\ r.writer = "read" /\ r.tooLarge = old.tooLarge
  BY <1>1, <1>6 DEF Request
<1>9. Own(r) /\ ~Waits(r) /\ ~BodyDue(r)
  BY <1>1, <1>8 DEF Own, Waits, BodyDue, Early
<1>10. Capture(r)
  BY <1>3, <1>4, <1>5, <1>8 DEF Capture
<1>11. \A p \in ProxyInfo : Shown(old, p) => Shown(r, p)
  BY <1>8 DEF Shown
<1> QED  BY <1>1, <1>2, <1>7, <1>8, <1>9, <1>10, <1>11, LocalStep DEF old

\* DELETE /requests.
LEMMA ClearStep ==
  ASSUME IInv, Clear
  PROVE  IInv'
<1>1. LogInv' /\ nextID' = nextID /\ DOMAIN entries' = {} /\ req' = req
  BY ClearEffect DEF IInv, Clear
<1>2. Room'
  BY <1>1 DEF IInv, Room, Unrecorded
<1> QED  BY <1>1, <1>2 DEF IInv

\* A step that changes nothing.
LEMMA StutterStep ==
  ASSUME IInv, UNCHANGED vars
  PROVE  IInv'
<1>1. LogInv'
  BY DEF IInv, vars, LogInv, LogProofs!Inv, LogProofs!TypeOK,
         LogProofs!Contiguous, LogProofs!Bounded
<1>2. Room'
  BY DEF IInv, vars, Room, Unrecorded
<1> QED  BY <1>1, <1>2 DEF IInv, vars

\* Every step preserves the invariant.
LEMMA NextIInv == IInv /\ [Next]_vars => IInv'
<1> SUFFICES ASSUME IInv, [Next]_vars
             PROVE  IInv'
  OBVIOUS
<1>1. ASSUME NEW c \in Conn, Arrive(c) \/ Handle(c) \/ Write(c) \/ Leave(c)
      PROVE  IInv'
  BY <1>1, ArriveStep, RecordStep, RefuseStep, MarkStep, RespondStep, ErrorStep,
     ErrorBodyStep, CopyStep, FinishStep, ReadStep, StoreStep, LeaveStep
     DEF Handle, Write
<1> QED  BY <1>1, ClearStep, StutterStep DEF Next

-----------------------------------------------------------------------------
(***************************************************************************)
(* The theorems.                                                           *)
(***************************************************************************)

\* The store and every request in flight are well typed.
THEOREM TypeCorrect == Spec => []TypeOK
<1>1. IInv => TypeOK
  BY Implied
<1> QED  BY <1>1, InitIInv, NextIInv, PTL DEF Spec

\* No captured body is larger than the limit, whatever part of the body each
\* Read takes, one that ends above the limit included, and whenever the body
\* is finalized.
THEOREM BodiesBounded == Spec => []CaptureBounded
<1>1. IInv => CaptureBounded
  BY Implied
<1> QED  BY <1>1, InitIInv, NextIInv, PTL DEF Spec

\* A body that the upstream had when it answered, of a request that ended
\* well, is recorded whole, whatever order the writer and the handler run in.
THEOREM BodiesExact == Spec => []BodyExact
<1>1. IInv => BodyExact
  BY Implied
<1> QED  BY <1>1, InitIInv, NextIInv, PTL DEF Spec

\* The recorded status of an inspected request is the one its client got.
THEOREM StatusesAgree == Spec => []StatusAgrees
<1>1. IInv => StatusAgrees
  BY Implied
<1> QED  BY <1>1, InitIInv, NextIInv, PTL DEF Spec

\* A tunnelled request is shown as streaming exactly while it is open.
THEOREM StreamFlagsExact == Spec => []StreamFlagExact
<1>1. IInv => StreamFlagExact
  BY Implied
<1> QED  BY <1>1, InitIInv, NextIInv, PTL DEF Spec

\* No handler amends an entry of another request, whatever is evicted and
\* however often the store is cleared.
THEOREM OwnEntriesAmended == Spec => []AmendsOwnEntry
<1>1. IInv => AmendsOwnEntry
  BY Implied
<1> QED  BY <1>1, InitIInv, NextIInv, PTL DEF Spec
=============================================================================
