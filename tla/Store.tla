-------------------------------- MODULE Store --------------------------------
(***************************************************************************)
(* The request store (internal/store/store.go): a bounded list of entries, *)
(* oldest first, and the counter their ids come from.  Every operation     *)
(* runs under Store.mu and is one step.  What an entry keeps of a request  *)
(* when it arrives (method, path, headers, route, target) never changes;   *)
(* it is the entry's tag.                                                  *)
(*                                                                         *)
(* The operators are used by the intercept handler (module Intercept); the *)
(* specification below drives them in any order.                           *)
(***************************************************************************)
EXTENDS Naturals, Sequences, SequencesExt, Sublists

CONSTANTS
  MaxEntries,  \* Store.maxEntries
  Tag,         \* what an entry keeps of a request
  Body,        \* request bodies
  Proxy,       \* the values of ProxyInfo
  NoBody,      \* the empty body
  NoProxy,     \* the zero ProxyInfo
  MaxID        \* bound: how many requests are recorded

ASSUME StoreAssumption ==
  /\ MaxEntries \in Nat /\ MaxEntries >= 1   \* config.Load refuses less
  /\ MaxID \in Nat
  /\ NoBody \in Body
  /\ NoProxy \in Proxy

VARIABLES
  entries,  \* Store.entries
  nextID    \* Store.nextID: the id given last

storeVars == <<entries, nextID>>

Entry == [id : Nat, tag : Tag, body : Body, proxy : Proxy]

TypeOK ==
  /\ entries \in Seq(Entry)
  /\ nextID \in Nat

-----------------------------------------------------------------------------
\* The newest max elements of s.
\* (Faulty variants: the oldest; one too many.)
Oldest(s, max) == IF Len(s) > max THEN SubSeq(s, 1, max) ELSE s
NewestOneMore(s, max) ==
  IF Len(s) > max + 1 THEN SubSeq(s, Len(s) - max, Len(s)) ELSE s

Newest(s, max) ==
  IF Len(s) > max THEN SubSeq(s, Len(s) - max + 1, Len(s)) ELSE s

Held(id) == \E i \in DOMAIN entries : entries[i].id = id

\* The entry the loops of FinalizeBody and UpdateProxy stop at.
\* (Faulty variant: the last one, whatever its id.)
LastEntry(id) == Len(entries)

Position(id) ==
  CHOOSE i \in DOMAIN entries :
    /\ entries[i].id = id
    /\ \A j \in DOMAIN entries : entries[j].id = id => i <= j

\* Store.Add; it returns nextID'.
Add(tag) ==
  /\ nextID' = nextID + 1
  /\ entries' = Newest(Append(entries, [id |-> nextID', tag |-> tag,
                                        body |-> NoBody, proxy |-> NoProxy]),
                       MaxEntries)

FinalizeBody(id, body) ==
  /\ entries' = IF Held(id) THEN [entries EXCEPT ![Position(id)].body = body]
                            ELSE entries
  /\ UNCHANGED nextID

UpdateProxy(id, proxy) ==
  /\ entries' = IF Held(id) THEN [entries EXCEPT ![Position(id)].proxy = proxy]
                            ELSE entries
  /\ UNCHANGED nextID

\* (Faulty variants: the counter starts again; it gives back the ids of a full
\* list.)
ClearAll == entries' = <<>> /\ nextID' = 0
ClearGivingBack == entries' = <<>> /\ nextID' = nextID - MaxEntries

Clear == entries' = <<>> /\ UNCHANGED nextID

\* Store.ListAfter, and Store.List as ListAfter(0, Tag): the entries newer
\* than the given id whose tag is one of tags, newest first.
\* (Faulty variant: the entry with the given id is listed again.)
ListFrom(after, tags) ==
  LET all == Reverse(entries)
  IN  Sublist(all, {i \in DOMAIN all : all[i].id >= after /\ all[i].tag \in tags})

ListAfter(after, tags) ==
  LET all == Reverse(entries)
  IN  Sublist(all, {i \in DOMAIN all : all[i].id > after /\ all[i].tag \in tags})

-----------------------------------------------------------------------------
Init == entries = <<>> /\ nextID = 0

Record(tag) == nextID < MaxID /\ Add(tag)

\* A handler amends an entry it made, which may be gone by then.
Amend(id) == \/ \E b \in Body : FinalizeBody(id, b)
             \/ \E p \in Proxy : UpdateProxy(id, p)

Next == \/ \E tag \in Tag : Record(tag)
        \/ \E id \in 1..nextID : Amend(id)
        \/ Clear

Spec == Init /\ [][Next]_storeVars

-----------------------------------------------------------------------------
\* The ids of the list are consecutive and end at the newest id given, after
\* any number of evictions and clears: ids are never reused and nothing is
\* lost but from the old end (Store.Add, Clear).
Contiguous ==
  \A i \in DOMAIN entries : entries[i].id + Len(entries) = nextID + i

\* The list never holds more than MaxEntries (the trim in Store.Add).
Bounded == Len(entries) <= MaxEntries

\* A poll is exact: it returns each entry newer than the id it names once,
\* newest first, so that a reader who asks again with the newest id it got
\* misses nothing that is still kept, and the sort in summariesFrom has
\* nothing to do.
PollExact ==
  \A after \in 0..nextID, tags \in SUBSET Tag :
    LET got == ListAfter(after, tags)
    IN  /\ Range(got) = {e \in Range(entries) : e.id > after /\ e.tag \in tags}
        /\ \A i, j \in DOMAIN got : i < j => got[i].id > got[j].id

\* A request that was evicted or cleared never comes back, nor does its id,
\* and one that is kept keeps what it recorded on arrival, whatever late
\* amendments do.
GoneIsGone ==
  [][/\ nextID <= nextID'
     /\ \A id \in 1..nextID :
          /\ ~Held(id) => ~Held(id)'
          /\ Held(id) /\ Held(id)' =>
               entries'[Position(id)'].tag = entries[Position(id)].tag]_storeVars

Kept(id) ==
  LET e == entries[Position(id)]
  IN  [tag |-> e.tag, body |-> e.body, proxy |-> e.proxy]

Log == INSTANCE RequestLog WITH
         log <- [id \in {entries[i].id : i \in DOMAIN entries} |-> Kept(id)],
         last <- nextID

\* The list with its loops and its trim implements the log.
ImplementsRequestLog == Log!Spec
=============================================================================
