------------------------------ MODULE Intercept ------------------------------
(***************************************************************************)
(* The intercept server (internal/intercept): it classifies each request,  *)
(* records it in the store, forwards it through httputil.ReverseProxy and  *)
(* records what came of it, while other requests do the same and the store *)
(* may be cleared.                                                         *)
(*                                                                         *)
(* A request has two goroutines.  The handler runs ServeHTTP and, inside   *)
(* it, the proxy's RoundTrip, its copy of the response and the callbacks   *)
(* modifyResponse and errorHandler.  The writer is the transport's: it     *)
(* reads the body through captureReader and sends it upstream, and may     *)
(* still run when RoundTrip has returned.  The proxy, the client and the   *)
(* upstream are external: they do what net/http lets them do.              *)
(*                                                                         *)
(* Of a body only the length counts; a Read may take any part of it, so a  *)
(* chunk may begin below the limit and end above it.                       *)
(***************************************************************************)
EXTENDS Naturals, Sequences, FiniteSets

CONSTANTS
  Conn,       \* client connections, one request at a time each
  MaxBody,    \* Handler.MaxBodyBytes
  MaxSize,    \* bound: the largest body a client sends
  MaxEntries, \* Store.maxEntries
  MaxID       \* bound: how many requests are recorded

ASSUME InterceptAssumption ==
  /\ IsFiniteSet(Conn)
  /\ MaxBody \in Nat /\ MaxBody >= 1   \* config.Load refuses less
  /\ MaxSize \in Nat
  /\ MaxEntries \in Nat /\ MaxEntries >= 1
  /\ MaxID \in Nat

VARIABLES
  entries, nextID,  \* the store
  req               \* the request on each connection

vars == <<entries, nextID, req>>

Body == 0..MaxSize
Status == {0, 101, 200, 204, 413, 502}
Upstream == {101, 204}   \* what an upstream answers: a change of protocol, or not

ProxyInfo == [status : Status, error : BOOLEAN,
              streaming : BOOLEAN, closed : BOOLEAN]

NoProxy == [status |-> 0, error |-> FALSE, streaming |-> FALSE, closed |-> FALSE]

Log == INSTANCE Store WITH Tag <- Conn, Proxy <- ProxyInfo, NoBody <- 0

(***************************************************************************)
(* A request.  size and declared are the client's: how long the body is    *)
(* and whether Content-Length says so.  pc, mode, id and status belong to  *)
(* the handler (ServeHTTP, reqCtx); read, captured and tooLarge to the     *)
(* captureReader (c.n, the length of c.buf); writer is what the writer     *)
(* does next, sent how much of the body it has sent upstream.  upgrade     *)
(* says whether the client asks for another protocol, be it websocket or   *)
(* one that ServeHTTP does not tell from other requests.  whole says       *)
(* whether that was all of it when the upstream answered, and client is    *)
(* the status of the response that the client got to the end.              *)
(***************************************************************************)
Request ==
  [pc       : {"idle", "refuse", "refused", "add", "mark", "trip", "copy",
               "errorBody", "finish", "done"},
   mode     : {"inspect", "tunnel"}, upgrade : BOOLEAN,
   size     : Body, declared : BOOLEAN,
   id       : 0..MaxID, status : Status,
   read     : Body, captured : Body, tooLarge : BOOLEAN,
   writer   : {"read", "store", "end"}, sent : Body,
   whole    : BOOLEAN, client : Status]

NoRequest == [pc |-> "idle", mode |-> "tunnel", upgrade |-> FALSE,
              size |-> 0, declared |-> TRUE, id |-> 0, status |-> 0,
              read |-> 0, captured |-> 0, tooLarge |-> FALSE,
              writer |-> "end", sent |-> 0, whole |-> FALSE, client |-> 0]

TypeOK ==
  /\ Log!TypeOK
  /\ req \in [Conn -> Request]

-----------------------------------------------------------------------------
\* Requests that have yet to call Store.Add.
Unrecorded == {c \in Conn : req[c].pc \in {"refuse", "add"}}

Classify(websocket, eventStream, bodyMethod) ==
  IF websocket \/ eventStream \/ ~bodyMethod THEN "tunnel" ELSE "inspect"

\* A request with a matching route arrives (the others get a 404 and change
\* nothing).  The body of a tunnelled one is not looked at.
Arrive(c) ==
  /\ req[c].pc = "idle"
  /\ nextID + Cardinality(Unrecorded) < MaxID
  /\ \E upgrade, websocket, eventStream, bodyMethod, declared \in BOOLEAN,
        size \in Body :
       LET mode == Classify(websocket, eventStream, bodyMethod)
           inspect == mode = "inspect"
       IN  /\ websocket => upgrade
           /\ ~inspect => size = 0 /\ declared
           /\ req' = [req EXCEPT ![c] =
                [NoRequest EXCEPT
                   !.pc = IF inspect /\ declared /\ size > MaxBody
                            THEN "refuse" ELSE "add",
                   !.mode = mode, !.upgrade = upgrade,
                   !.size = size, !.declared = declared,
                   !.writer = IF inspect THEN "read" ELSE "end"]]
  /\ UNCHANGED <<entries, nextID>>

\* Content-Length is over the limit: record the request and answer 413.
RefuseAdd(c) ==
  /\ req[c].pc = "refuse"
  /\ Log!Add(c)
  /\ req' = [req EXCEPT ![c].pc = "refused", ![c].id = nextID']

Refuse(c) ==
  /\ req[c].pc = "refused"
  /\ Log!UpdateProxy(req[c].id, [NoProxy EXCEPT !.status = 413, !.error = TRUE])
  /\ req' = [req EXCEPT ![c].pc = "done", ![c].client = 413]

\* Record the request; a tunnelled one is marked as streaming.
RecordAdd(c) ==
  /\ req[c].pc = "add"
  /\ Log!Add(c)
  /\ req' = [req EXCEPT ![c].pc = IF req[c].mode = "tunnel" THEN "mark" ELSE "trip",
                        ![c].id = nextID']

Mark(c) ==
  /\ req[c].pc = "mark"
  /\ Log!UpdateProxy(req[c].id, [NoProxy EXCEPT !.streaming = TRUE])
  /\ req' = [req EXCEPT ![c].pc = "trip"]

-----------------------------------------------------------------------------
(***************************************************************************)
(* The writer.                                                             *)
(***************************************************************************)
BodyOpen(c) == req[c].pc \in {"trip", "copy", "errorBody"}

\* captureReader.Read gets a chunk of any length from the client.  The one
\* that goes over the limit is returned to the writer, which sends it, with
\* the error that ends the writing; it is not captured.
\* (Faulty variants: the limit is looked at before the chunk is taken; the
\* chunk goes upstream before it is captured.)
ReadUnchecked(c) ==
  LET tooLarge == req[c].read >= MaxBody
  IN  /\ req[c].writer = "read" /\ BodyOpen(c)
      /\ \E n \in 1..(req[c].size - req[c].read) :
           req' = [req EXCEPT ![c].read = @ + n,
                              ![c].tooLarge = tooLarge,
                              ![c].sent = IF tooLarge THEN @ + n ELSE @,
                              ![c].writer = IF tooLarge THEN "end" ELSE "store"]
      /\ UNCHANGED <<entries, nextID>>

ReadAndSend(c) ==
  /\ req[c].writer = "read" /\ BodyOpen(c)
  /\ \E n \in 1..(req[c].size - req[c].read) :
       LET tooLarge == req[c].read + n > MaxBody
       IN  req' = [req EXCEPT ![c].read = @ + n,
                              ![c].tooLarge = tooLarge,
                              ![c].sent = @ + n,
                              ![c].writer = IF tooLarge THEN "end" ELSE "store"]
  /\ UNCHANGED <<entries, nextID>>

ReadChunk(c) ==
  /\ req[c].writer = "read" /\ BodyOpen(c)
  /\ \E n \in 1..(req[c].size - req[c].read) :
       LET tooLarge == req[c].read + n > MaxBody
       IN  req' = [req EXCEPT ![c].read = @ + n,
                              ![c].tooLarge = tooLarge,
                              ![c].sent = IF tooLarge THEN @ + n ELSE @,
                              ![c].writer = IF tooLarge THEN "end" ELSE "store"]
  /\ UNCHANGED <<entries, nextID>>

\* The rest of that Read: the chunk goes into the buffer and then upstream.
\* (Faulty variant: it is stored again and again.)
StoreChunkRepeated(c) ==
  /\ req[c].writer = "store" /\ (BodyOpen(c) \/ req[c].pc = "finish")
  /\ req' = [req EXCEPT ![c].captured = @ + (req[c].read - req[c].sent)]
  /\ UNCHANGED <<entries, nextID>>

StoreChunk(c) ==
  /\ req[c].writer = "store" /\ (BodyOpen(c) \/ req[c].pc = "finish")
  /\ req' = [req EXCEPT ![c].captured = req[c].read,
                        ![c].sent = req[c].read,
                        ![c].writer = "read"]
  /\ UNCHANGED <<entries, nextID>>

\* captureReader.bytes.  Nothing orders it after the write to the buffer that
\* a Read in progress is about to make: it finds the chunk or not.
Bytes(c) ==
  {req[c].captured} \cup
    (IF req[c].writer = "store" THEN {req[c].read} ELSE {})

-----------------------------------------------------------------------------
(***************************************************************************)
(* The proxy's RoundTrip and the callbacks.                                *)
(***************************************************************************)

\* The upstream answers, be it before it has the body: modifyResponse.
\* (Faulty variant: a tunnelled request is recorded like the others.)
RespondAsInspected(c) ==
  /\ req[c].pc = "trip"
  /\ \E s \in Upstream :
       /\ Log!UpdateProxy(req[c].id, [NoProxy EXCEPT !.status = s])
       /\ req' = [req EXCEPT ![c].pc = "copy", ![c].status = s,
                             ![c].whole = /\ req[c].sent = req[c].size
                                          /\ ~req[c].tooLarge]

Respond(c) ==
  /\ req[c].pc = "trip"
  /\ \E s \in Upstream :
       /\ Log!UpdateProxy(req[c].id,
            [NoProxy EXCEPT !.status = s, !.streaming = (req[c].mode = "tunnel")])
       /\ req' = [req EXCEPT ![c].pc = "copy", ![c].status = s,
                             ![c].whole = /\ req[c].sent = req[c].size
                                          /\ ~req[c].tooLarge]

\* errorHandler, which finalizes the body of a request that has one.
\* (Faulty variant: it leaves the outcome that modifyResponse recorded.)
ErrorHandlerOnce(c, status) ==
  /\ IF req[c].status = 0
       THEN Log!UpdateProxy(req[c].id, [NoProxy EXCEPT !.status = status, !.error = TRUE])
       ELSE UNCHANGED <<entries, nextID>>
  /\ req' = [req EXCEPT
       ![c].pc = IF req[c].mode = "inspect" /\ ~(req[c].declared /\ req[c].size = 0)
                   THEN "errorBody" ELSE "finish",
       ![c].client = status]

ErrorHandler(c, status) ==
  /\ Log!UpdateProxy(req[c].id, [NoProxy EXCEPT !.status = status, !.error = TRUE])
  /\ req' = [req EXCEPT
       ![c].pc = IF req[c].mode = "inspect" /\ ~(req[c].declared /\ req[c].size = 0)
                   THEN "errorBody" ELSE "finish",
       ![c].client = status]

ErrorBody(c) ==
  /\ req[c].pc = "errorBody"
  /\ \E b \in Bytes(c) : Log!FinalizeBody(req[c].id, b)
  /\ req' = [req EXCEPT ![c].pc = "finish"]

\* The writer met the limit.
TooLarge(c) == req[c].pc = "trip" /\ req[c].tooLarge /\ ErrorHandler(c, 413)

\* The upstream cannot be reached or breaks off, the client goes away, or an
\* upgrade that the upstream accepted cannot be made: errorHandler then runs
\* after modifyResponse, in a tunnelled request or an inspected one.
Fail(c) ==
  /\ \/ req[c].pc = "trip"
     \/ req[c].pc = "copy" /\ req[c].status = 101
  /\ ErrorHandler(c, 502)

\* The response, or the upgraded connection, comes to its end.  A 101 that the
\* client has not asked for is never passed on.
CopyEnd(c) ==
  /\ req[c].pc = "copy"
  /\ req[c].status = 101 => req[c].upgrade
  /\ req' = [req EXCEPT ![c].pc = "finish", ![c].client = req[c].status]
  /\ UNCHANGED <<entries, nextID>>

\* The client or the upstream breaks off in the middle of the response: the
\* proxy panics with http.ErrAbortHandler, through ServeHTTP.
CopyAbort(c) ==
  /\ req[c].pc = "copy" /\ req[c].status # 101
  /\ req' = [req EXCEPT ![c].pc = "done"]
  /\ UNCHANGED <<entries, nextID>>

\* What ServeHTTP does when the proxy returns: FinalizeBody or finishStream.
Finish(c) ==
  /\ req[c].pc = "finish"
  /\ \/ /\ req[c].mode = "inspect"
        /\ \E b \in Bytes(c) : Log!FinalizeBody(req[c].id, b)
     \/ /\ req[c].mode = "tunnel"
        /\ LET status == IF req[c].status = 0 THEN 200 ELSE req[c].status
           IN  Log!UpdateProxy(req[c].id,
                 [NoProxy EXCEPT !.status = status, !.closed = TRUE])
  /\ req' = [req EXCEPT ![c].pc = "done"]

\* The connection is free for the next request.
Leave(c) ==
  /\ req[c].pc = "done"
  /\ req' = [req EXCEPT ![c] = NoRequest]
  /\ UNCHANGED <<entries, nextID>>

\* DELETE /requests.
Clear == Log!Clear /\ UNCHANGED req

-----------------------------------------------------------------------------
Init ==
  /\ Log!Init
  /\ req = [c \in Conn |-> NoRequest]

Handle(c) ==
  \/ RefuseAdd(c) \/ Refuse(c) \/ RecordAdd(c) \/ Mark(c)
  \/ Respond(c) \/ TooLarge(c) \/ Fail(c) \/ ErrorBody(c)
  \/ CopyEnd(c) \/ CopyAbort(c) \/ Finish(c)

Write(c) == ReadChunk(c) \/ StoreChunk(c)

Next ==
  \/ \E c \in Conn : Arrive(c) \/ Handle(c) \/ Write(c) \/ Leave(c)
  \/ Clear

Spec == Init /\ [][Next]_vars

-----------------------------------------------------------------------------
(***************************************************************************)
(* Properties.                                                             *)
(***************************************************************************)
Kept(c) == req[c].id # 0 /\ Log!Held(req[c].id)
EntryOf(c) == entries[Log!Position(req[c].id)]

\* No body in memory is larger than the limit, whatever part of it each Read
\* takes and whenever it is finalized: the chunk that ends above the limit is
\* not kept, not even in part (captureReader.Read).
CaptureBounded ==
  /\ \A c \in Conn : req[c].captured <= MaxBody
  /\ \A i \in DOMAIN entries : entries[i].body <= MaxBody

\* An inspected request that was answered after its body had gone upstream,
\* and whose response reached the client, is recorded with its whole body,
\* unless it was evicted or cleared (the capture races with the transport).
BodyExact ==
  \A c \in Conn :
    req[c].pc = "done" /\ req[c].mode = "inspect" /\ req[c].whole
    /\ req[c].client = req[c].status /\ Kept(c) => EntryOf(c).body = req[c].size

\* What the list shows as the outcome of an inspected request is what its
\* client got: of modifyResponse, errorHandler and ServeHTTP, which amend the
\* entry one after the other, the one that decides what the client gets
\* decides what is recorded.  Both callbacks run when the upstream answers 101
\* and the upgrade then fails.
StatusAgrees ==
  \A c \in Conn :
    req[c].pc = "done" /\ req[c].mode = "inspect" /\ req[c].client # 0 /\ Kept(c) =>
      /\ EntryOf(c).proxy.status = req[c].client
      /\ EntryOf(c).proxy.error <=> req[c].client \in {413, 502}

\* A tunnelled request is shown as streaming as long as it is open, and as
\* closed when it has come to its end (Mark, modifyResponse, finishStream).
StreamFlagExact ==
  \A c \in Conn :
    req[c].mode = "tunnel" /\ Kept(c) =>
      LET proxy == EntryOf(c).proxy
      IN  /\ req[c].pc \in {"trip", "copy"} => proxy.streaming /\ ~proxy.closed
          /\ req[c].pc = "done" /\ req[c].client # 0 => ~proxy.streaming /\ proxy.closed

\* A handler that finishes late amends the entry it made or none: not one
\* that was made after the store was cleared (Store.nextID survives Clear).
AmendsOwnEntry ==
  \A c \in Conn : Kept(c) => EntryOf(c).tag = c

(***************************************************************************)
(* What the documents say and the code does not do.                        *)
(***************************************************************************)

\* README: requests appear in the list with their proxy status.
TunnelStatusAgrees ==
  \A c \in Conn :
    req[c].pc = "done" /\ req[c].mode = "tunnel" /\ req[c].client # 0 /\ Kept(c) =>
      EntryOf(c).proxy.status = req[c].client

\* docs/plan-proxy-streaming.md: proxy.streaming is true while the stream is
\* open and false after it closes.
ClosedStreamsAreClosed ==
  \A c \in Conn :
    req[c].pc = "done" /\ Kept(c) => ~EntryOf(c).proxy.streaming

\* docs/plan-proxy-streaming.md: a body over the limit is answered with 413
\* before anything is forwarded.
TooLargeNotForwarded ==
  \A c \in Conn : req[c].client = 413 => req[c].sent = 0

\* docs/plan-proxy-streaming.md: FinalizeBody when the request side completes.
CompletedBodyKept ==
  \A c \in Conn :
    req[c].pc = "done" /\ req[c].mode = "inspect" /\ req[c].whole /\ Kept(c) =>
      EntryOf(c).body = req[c].size

=============================================================================
