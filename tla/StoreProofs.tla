------------------------------ MODULE StoreProofs ------------------------------
(***************************************************************************)
(* Theorems about Store, for every bound on its length, every set of tags, *)
(* bodies and proxy values, and any number of requests.                    *)
(***************************************************************************)
EXTENDS Store, SequenceFacts

\* The inductive invariant: the ids can be computed from the positions only
\* while no amendment changes them, so the three parts go together.
Inv == TypeOK /\ Contiguous /\ Bounded

-----------------------------------------------------------------------------
\* The trim keeps the newest elements, in their order, and at least one.
LEMMA NewestElements ==
  ASSUME NEW S, NEW s \in Seq(S), NEW max \in Nat, max >= 1
  PROVE  /\ Newest(s, max) \in Seq(S)
         /\ Len(Newest(s, max)) = IF Len(s) > max THEN max ELSE Len(s)
         /\ \A i \in 1..Len(Newest(s, max)) :
              Newest(s, max)[i] = s[i + (Len(s) - Len(Newest(s, max)))]
<1> DEFINE n == Len(s)
<1>0. n \in Nat /\ \A i \in 1..n : s[i] \in S
  BY LenProperties, ElementOfSeq
<1>1. CASE n > max
  <2> DEFINE t == SubSeq(s, n - max + 1, n)
  <2>0. \A m \in Nat : m > max =>
          /\ m - max + 1 \in 1..m /\ m - (m - max + 1) + 1 = max
          /\ m - max + 1 <= m
    OBVIOUS
  <2>1. /\ n - max + 1 \in 1..n /\ n - (n - max + 1) + 1 = max
        /\ n - max + 1 <= n
    BY <1>0, <1>1, <2>0
  <2>2. \A i \in (n - max + 1)..n : s[i] \in S
    BY <1>0, <2>1
  <2>3. /\ t \in Seq(S) /\ Len(t) = max
        /\ \A i \in 1..max : t[i] = s[n - max + 1 + i - 1]
    BY <1>0, <2>1, <2>2, SubSeqProperties
  <2>4. \A i \in 1..max : n - max + 1 + i - 1 = i + (n - max)
    BY <1>0
  <2>5. Newest(s, max) = t
    BY <1>1 DEF Newest
  <2> HIDE DEF t
  <2>6. Len(Newest(s, max)) = max
    BY <2>3, <2>5
  <2>7. \A i \in 1..max : Newest(s, max)[i] = s[i + (n - max)]
    BY <2>3, <2>4, <2>5
  <2> QED  BY <1>1, <2>3, <2>5, <2>6, <2>7
<1>2. CASE ~(n > max)
  <2>1. Newest(s, max) = s
    BY <1>2 DEF Newest
  <2>2. \A i \in 1..n : i + (n - n) = i
    BY <1>0
  <2> QED  BY <1>2, <2>1, <2>2
<1> QED  BY <1>1, <1>2

\* An id has one position.
LEMMA PositionOfId ==
  ASSUME Inv, NEW i \in 1..Len(entries)
  PROVE  Held(entries[i].id) /\ Position(entries[i].id) = i
<1>1. /\ Len(entries) \in Nat /\ nextID \in Nat /\ DOMAIN entries = 1..Len(entries)
      /\ \A j \in 1..Len(entries) : entries[j].id \in Nat
  <2>1. \A j \in 1..Len(entries) : entries[j] \in Entry
    BY ElementOfSeq DEF Inv, TypeOK
  <2> QED  BY <2>1, LenProperties DEF Inv, TypeOK, Entry
<1>2. \A j \in 1..Len(entries) : entries[j].id = entries[i].id => j = i
  <2>1. \A j \in 1..Len(entries) : entries[j].id + Len(entries) = nextID + j
    BY <1>1 DEF Inv, Contiguous
  <2> QED  BY <1>1, <2>1
<1>3. \A j \in DOMAIN entries :
        (/\ entries[j].id = entries[i].id
         /\ \A k \in DOMAIN entries : entries[k].id = entries[i].id => j <= k)
        <=> j = i
  BY <1>1, <1>2
<1>4. Position(entries[i].id) = CHOOSE j \in DOMAIN entries : j = i
  BY <1>3 DEF Position
<1> QED  BY <1>1, <1>4 DEF Held

\* The invariant, element by element.
LEMMA Numbered ==
  Inv => /\ nextID \in Nat /\ Len(entries) \in Nat
         /\ DOMAIN entries = 1..Len(entries)
         /\ \A i \in 1..Len(entries) :
              /\ entries[i] \in Entry /\ entries[i].id \in Nat
              /\ entries[i].id + Len(entries) = nextID + i
<1> SUFFICES ASSUME Inv
             PROVE  /\ nextID \in Nat /\ Len(entries) \in Nat
                    /\ DOMAIN entries = 1..Len(entries)
                    /\ \A i \in 1..Len(entries) :
                         /\ entries[i] \in Entry /\ entries[i].id \in Nat
                         /\ entries[i].id + Len(entries) = nextID + i
  OBVIOUS
<1>1. /\ nextID \in Nat /\ Len(entries) \in Nat
      /\ DOMAIN entries = 1..Len(entries)
  BY LenProperties DEF Inv, TypeOK
<1>2. \A i \in 1..Len(entries) : entries[i] \in Entry
  BY ElementOfSeq DEF Inv, TypeOK
<1>3. \A i \in 1..Len(entries) : entries[i].id \in Nat
  BY <1>2 DEF Entry
<1> QED  BY <1>1, <1>2, <1>3 DEF Inv, Contiguous

\* Which ids are in the list can be told from its length and the last id.
LEMMA HeldIds ==
  Inv => \A id \in Nat :
           Held(id) <=> nextID < id + Len(entries) /\ id <= nextID
<1> SUFFICES ASSUME Inv, NEW id \in Nat
             PROVE  Held(id) <=> nextID < id + Len(entries) /\ id <= nextID
  OBVIOUS
<1> DEFINE n == Len(entries)
<1>1. /\ nextID \in Nat /\ n \in Nat /\ DOMAIN entries = 1..n
      /\ \A i \in 1..n : entries[i].id \in Nat /\ entries[i].id + n = nextID + i
  BY Numbered
<1> HIDE DEF n
<1>2. ASSUME Held(id)
      PROVE  nextID < id + n /\ id <= nextID
  <2>1. PICK i \in 1..n : entries[i].id = id
    BY <1>1, <1>2 DEF Held
  <2>2. id + n = nextID + i
    BY <1>1, <2>1
  <2> QED  BY <1>1, <2>2
<1>3. ASSUME nextID < id + n, id <= nextID
      PROVE  Held(id)
  <2>1. id + n - nextID \in 1..n /\ nextID + (id + n - nextID) = id + n
    BY <1>1, <1>3
  <2>2. /\ entries[id + n - nextID].id \in Nat
        /\ entries[id + n - nextID].id + n = id + n
    BY <1>1, <2>1
  <2>3. entries[id + n - nextID].id = id
    BY <1>1, <2>2
  <2> QED  BY <1>1, <2>1, <2>3 DEF Held
<1> QED  BY <1>2, <1>3 DEF n

\* Amending one entry leaves the length and every id and tag as they are.
LEMMA AmendElements ==
  ASSUME Inv, NEW id \in Nat,
         (\E b \in Body : FinalizeBody(id, b)) \/ (\E p \in Proxy : UpdateProxy(id, p))
  PROVE  /\ entries' \in Seq(Entry) /\ nextID' = nextID
         /\ Len(entries') = Len(entries)
         /\ \A i \in 1..Len(entries) : /\ entries'[i].id = entries[i].id
                                       /\ entries'[i].tag = entries[i].tag
<1>0. /\ Len(entries) \in Nat /\ DOMAIN entries = 1..Len(entries)
      /\ \A i \in 1..Len(entries) : entries[i] \in Entry
      /\ entries \in [1..Len(entries) -> Entry]
      /\ nextID' = nextID
  BY LenProperties, ElementOfSeq DEF Inv, TypeOK, FinalizeBody, UpdateProxy
<1>1. CASE entries' = entries
  BY <1>0, <1>1 DEF Inv, TypeOK
<1>2. CASE Held(id) /\ entries' # entries
  <2>1. PICK i \in 1..Len(entries) : entries[i].id = id
    BY <1>0, <1>2 DEF Held
  <2>2. Position(id) = i
    BY <2>1, PositionOfId
  <2>3. \/ \E b \in Body : entries' = [entries EXCEPT ![i].body = b]
        \/ \E p \in Proxy : entries' = [entries EXCEPT ![i].proxy = p]
    BY <1>2, <2>2 DEF FinalizeBody, UpdateProxy
  <2>4. PICK e \in Entry : /\ entries' = [entries EXCEPT ![i] = e]
                           /\ e.id = entries[i].id /\ e.tag = entries[i].tag
    <3>1. \A b \in Body : /\ [entries[i] EXCEPT !.body = b] \in Entry
                          /\ [entries[i] EXCEPT !.body = b].id = entries[i].id
                          /\ [entries[i] EXCEPT !.body = b].tag = entries[i].tag
      BY <1>0 DEF Entry
    <3>2. \A p \in Proxy : /\ [entries[i] EXCEPT !.proxy = p] \in Entry
                           /\ [entries[i] EXCEPT !.proxy = p].id = entries[i].id
                           /\ [entries[i] EXCEPT !.proxy = p].tag = entries[i].tag
      BY <1>0 DEF Entry
    <3> QED  BY <2>3, <3>1, <3>2
  <2>5. entries' \in [1..Len(entries) -> Entry]
    BY <1>0, <2>4
  <2>6. entries' \in Seq(Entry) /\ Len(entries') = Len(entries)
    BY <1>0, <2>5, SeqDef, LenProperties
  <2> QED  BY <1>0, <2>4, <2>6
<1> QED  BY <1>0, <1>1, <1>2 DEF FinalizeBody, UpdateProxy

-----------------------------------------------------------------------------
\* The new entry is the last one, and before it are the newest of the old.
LEMMA AddElements ==
  ASSUME Inv, NEW tag \in Tag, Add(tag)
  PROVE  /\ nextID' = nextID + 1
         /\ entries' \in Seq(Entry)
         /\ Len(entries') = IF Len(entries) + 1 > MaxEntries THEN MaxEntries
                                                             ELSE Len(entries) + 1
         /\ entries'[Len(entries')] =
              [id |-> nextID + 1, tag |-> tag, body |-> NoBody, proxy |-> NoProxy]
         /\ \A i \in 1..(Len(entries') - 1) :
              /\ i + (Len(entries) + 1 - Len(entries')) \in 1..Len(entries)
              /\ entries'[i] = entries[i + (Len(entries) + 1 - Len(entries'))]
<1> DEFINE e == [id |-> nextID + 1, tag |-> tag, body |-> NoBody, proxy |-> NoProxy]
           longer == Append(entries, e)
           n == Len(entries)
           m == Len(entries')
<1>1. /\ n \in Nat /\ nextID \in Nat
      /\ nextID' = nextID + 1 /\ entries \in Seq(Entry)
      /\ entries' = Newest(longer, MaxEntries)
      /\ MaxEntries \in Nat /\ MaxEntries >= 1
  BY LenProperties, StoreAssumption DEF Inv, TypeOK, Add
<1>2. e \in Entry
  BY <1>1, StoreAssumption DEF Entry
<1> HIDE DEF e
<1>3. /\ longer \in Seq(Entry) /\ Len(longer) = n + 1
      /\ \A i \in 1..n : longer[i] = entries[i]
      /\ longer[n + 1] = e
  BY <1>1, <1>2, AppendProperties
<1> HIDE DEF longer
<1>4. /\ entries' \in Seq(Entry)
      /\ m = IF n + 1 > MaxEntries THEN MaxEntries ELSE n + 1
      /\ \A i \in 1..m : entries'[i] = longer[i + (n + 1 - m)]
  <2> DEFINE t == Newest(longer, MaxEntries)
  <2>1. /\ t \in Seq(Entry)
        /\ Len(t) = IF Len(longer) > MaxEntries THEN MaxEntries ELSE Len(longer)
        /\ \A i \in 1..Len(t) : t[i] = longer[i + (Len(longer) - Len(t))]
    BY <1>1, <1>3, NewestElements
  <2> HIDE DEF t
  <2>2. entries' = t
    BY <1>1 DEF t
  <2> DEFINE k == Len(longer)
  <2>3. k = n + 1
    BY <1>3
  <2> HIDE DEF n, k
  <2>4. m = IF n + 1 > MaxEntries THEN MaxEntries ELSE n + 1
    BY <2>1, <2>2, <2>3 DEF k
  <2>5. \A i \in 1..m : entries'[i] = longer[i + (n + 1 - m)]
    <3>1. m = Len(t)
      BY <2>2
    <3>2. \A i \in 1..Len(t) : t[i] = longer[i + (k - Len(t))]
      BY <2>1 DEF k
    <3> HIDE DEF m
    <3>3. \A i \in 1..m : t[i] = longer[i + (k - m)]
      BY <3>1, <3>2
    <3>4. k - m = n + 1 - m
      <4>1. n \in Nat /\ m \in Nat
        BY <1>1, <2>4, StoreAssumption
      <4> QED  BY <4>1, <2>3
    <3> QED  BY <3>3, <3>4, <2>2
  <2> QED  BY <2>1, <2>2, <2>4, <2>5
<1> HIDE DEF n, m
<1>5. m \in Nat /\ m >= 1 /\ m <= n + 1
  BY <1>1, <1>4
<1>6. entries'[m] = e
  <2>1. m \in 1..m /\ m + (n + 1 - m) = n + 1
    BY <1>1, <1>5
  <2> QED  BY <2>1, <1>3, <1>4
<1>7. ASSUME NEW i \in 1..(m - 1)
      PROVE  i + (n + 1 - m) \in 1..n /\ entries'[i] = entries[i + (n + 1 - m)]
  <2>1. i \in 1..m /\ i + (n + 1 - m) \in 1..n
    BY <1>1, <1>5
  <2> QED  BY <2>1, <1>3, <1>4
<1> QED  BY <1>1, <1>4, <1>6, <1>7 DEF e, m, n

\* An entry that is added gets the next id, and the trim takes the oldest.
LEMMA AddStep ==
  ASSUME Inv, NEW tag \in Tag, Add(tag)
  PROVE  Inv'
<1> DEFINE n == Len(entries)
           m == Len(entries')
<1>1. /\ n \in Nat /\ nextID \in Nat /\ MaxEntries \in Nat /\ MaxEntries >= 1
      /\ \A i \in 1..n : entries[i].id \in Nat /\ entries[i].id + n = nextID + i
  BY Numbered, StoreAssumption
<1>2. /\ nextID' = nextID + 1 /\ entries' \in Seq(Entry)
      /\ m = IF n + 1 > MaxEntries THEN MaxEntries ELSE n + 1
      /\ entries'[m].id = nextID + 1
      /\ \A i \in 1..(m - 1) : /\ i + (n + 1 - m) \in 1..n
                               /\ entries'[i] = entries[i + (n + 1 - m)]
  <2> DEFINE e == [id |-> nextID + 1, tag |-> tag, body |-> NoBody, proxy |-> NoProxy]
  <2>1. e.id = nextID + 1
    OBVIOUS
  <2>2. entries'[m] = e
    BY AddElements
  <2> HIDE DEF e
  <2>3. entries'[m].id = nextID + 1
    BY <2>1, <2>2
  <2> QED  BY <2>3, AddElements
<1>3. DOMAIN entries' = 1..m
  BY <1>2, LenProperties
<1> HIDE DEF n, m
<1>4. m \in Nat /\ m >= 1 /\ m <= n + 1 /\ m <= MaxEntries
  BY <1>1, <1>2
<1>5. ASSUME NEW i \in 1..m
      PROVE  entries'[i].id + m = nextID' + i
  <2>1. CASE i = m
    BY <2>1, <1>2
  <2>2. CASE i # m
    <3>1. i \in 1..(m - 1)
      BY <2>2, <1>4
    <3>2. /\ i + (n + 1 - m) \in 1..n
          /\ entries'[i] = entries[i + (n + 1 - m)]
      BY <3>1, <1>2
    <3>3. entries'[i].id \in Nat /\ entries'[i].id + n = nextID + (i + (n + 1 - m))
      BY <3>2, <1>1
    <3>4. \A id, j, k, l, last \in Nat :
            id + k = last + (j + (k + 1 - l)) => id + l = last + 1 + j
      OBVIOUS
    <3>5. i \in Nat
      BY <1>4
    <3>6. PICK id \in Nat : id = entries'[i].id
      BY <3>3
    <3>7. id + n = nextID + (i + (n + 1 - m))
      BY <3>3, <3>6
    <3>8. id + m = nextID + 1 + i
      BY <3>4, <3>5, <3>7, <1>1, <1>4
    <3> QED  BY <3>6, <3>8, <1>2
  <2> QED  BY <2>1, <2>2
<1> QED  BY <1>2, <1>3, <1>4, <1>5 DEF Inv, TypeOK, Contiguous, Bounded, m

\* An amendment leaves the ids and the length alone.
LEMMA AmendStep ==
  ASSUME Inv, NEW id \in 1..nextID, Amend(id)
  PROVE  Inv'
<1>1. id \in Nat
  BY DEF Inv, TypeOK
<1>2. /\ entries' \in Seq(Entry) /\ nextID' = nextID
      /\ Len(entries') = Len(entries)
      /\ \A i \in 1..Len(entries) : entries'[i].id = entries[i].id
  BY <1>1, AmendElements DEF Amend
<1>3. DOMAIN entries' = 1..Len(entries) /\ DOMAIN entries = 1..Len(entries)
  BY <1>2, LenProperties DEF Inv, TypeOK
<1> QED  BY <1>2, <1>3 DEF Inv, TypeOK, Contiguous, Bounded

\* An empty list satisfies all that is asked of one.
LEMMA ClearStep ==
  ASSUME Inv, Clear
  PROVE  Inv'
<1>1. entries' = <<>> /\ nextID' = nextID
  BY DEF Clear
<1>2. entries' \in Seq(Entry) /\ Len(entries') = 0 /\ DOMAIN entries' = {}
  BY <1>1
<1> QED  BY <1>1, <1>2, StoreAssumption DEF Inv, TypeOK, Contiguous, Bounded

\* The store starts empty.
LEMMA InitInv == Init => Inv
<1> SUFFICES ASSUME Init
             PROVE  Inv
  OBVIOUS
<1>1. entries = <<>> /\ nextID = 0
  BY DEF Init
<1>2. entries \in Seq(Entry) /\ Len(entries) = 0 /\ DOMAIN entries = {}
  BY <1>1
<1> QED  BY <1>1, <1>2, StoreAssumption DEF Inv, TypeOK, Contiguous, Bounded

\* Every step keeps the invariant.
LEMMA NextInv == Inv /\ [Next]_storeVars => Inv'
<1> SUFFICES ASSUME Inv, [Next]_storeVars
             PROVE  Inv'
  OBVIOUS
<1>1. CASE UNCHANGED storeVars
  BY <1>1 DEF storeVars, Inv, TypeOK, Contiguous, Bounded
<1>2. ASSUME NEW tag \in Tag, Record(tag)
      PROVE  Inv'
  BY <1>2, AddStep DEF Record
<1>3. ASSUME NEW id \in 1..nextID, Amend(id)
      PROVE  Inv'
  BY <1>3, AmendStep
<1>4. CASE Clear
  BY <1>4, ClearStep
<1> QED  BY <1>1, <1>2, <1>3, <1>4 DEF Next

\* The store is always in a state its types allow.
THEOREM TypeCorrect == Spec => []TypeOK
<1>1. Inv => TypeOK
  BY DEF Inv
<1> QED  BY <1>1, InitInv, NextInv, PTL DEF Spec

\* The store never holds more than MaxEntries entries.
THEOREM NeverTooLong == Spec => []Bounded
<1>1. Inv => Bounded
  BY DEF Inv
<1> QED  BY <1>1, InitInv, NextInv, PTL DEF Spec

\* The ids kept are always the newest ones, without a gap.
THEOREM AlwaysContiguous == Spec => []Contiguous
<1>1. Inv => Contiguous
  BY DEF Inv
<1> QED  BY <1>1, InitInv, NextInv, PTL DEF Spec

-----------------------------------------------------------------------------
(***************************************************************************)
(* What a poll returns.                                                    *)
(***************************************************************************)

\* The entries asked for, each once, the newest first.
LEMMA PollElements ==
  ASSUME Inv, NEW after, NEW tags
  PROVE  LET got == ListAfter(after, tags)
         IN  /\ got \in Seq(Entry)
             /\ Range(got) = {e \in Range(entries) : e.id > after /\ e.tag \in tags}
             /\ \A i, j \in DOMAIN got : i < j => got[i].id > got[j].id
<1> DEFINE n == Len(entries)
           all == Reverse(entries)
           I == {i \in DOMAIN all : all[i].id > after /\ all[i].tag \in tags}
           got == Sublist(all, I)
<1>1. /\ nextID \in Nat /\ n \in Nat /\ DOMAIN entries = 1..n
      /\ entries \in Seq(Entry)
      /\ \A i \in 1..n : entries[i].id \in Nat /\ entries[i].id + n = nextID + i
  BY Numbered DEF Inv, TypeOK
<1>2. /\ all \in Seq(Entry) /\ DOMAIN all = 1..n
      /\ \A i \in 1..n : all[i] = entries[n - i + 1] /\ n - i + 1 \in 1..n
      /\ Range(all) = Range(entries)
  BY <1>1, ReverseElements
<1> HIDE DEF n, all
<1>3. I \subseteq DOMAIN all
  OBVIOUS
<1> HIDE DEF I
<1>4. /\ got \in Seq(Entry)
      /\ Range(got) = {all[i] : i \in I}
      /\ \A k \in DOMAIN got : Nth(I, k) \in I /\ got[k] = all[Nth(I, k)]
      /\ \A j, k \in DOMAIN got : j < k => Nth(I, j) < Nth(I, k)
  BY <1>2, <1>3, SublistElements
<1> HIDE DEF got
<1>5. Range(got) = {e \in Range(entries) : e.id > after /\ e.tag \in tags}
  <2>1. {all[i] : i \in I} = {e \in {all[i] : i \in DOMAIN all} : e.id > after /\ e.tag \in tags}
    BY DEF I
  <2> QED  BY <1>2, <1>4, <2>1 DEF Range
<1>6. \A i, j \in 1..n : i < j => all[i].id > all[j].id
  <2> SUFFICES ASSUME NEW i \in 1..n, NEW j \in 1..n, i < j
               PROVE  all[i].id > all[j].id
    OBVIOUS
  <2>1. /\ n - i + 1 \in 1..n /\ all[i] = entries[n - i + 1]
        /\ n - j + 1 \in 1..n /\ all[j] = entries[n - j + 1]
    BY <1>2
  <2>2. /\ all[i].id \in Nat /\ all[i].id + n = nextID + (n - i + 1)
        /\ all[j].id \in Nat /\ all[j].id + n = nextID + (n - j + 1)
    BY <1>1, <2>1
  <2>3. i \in Nat /\ j \in Nat /\ n \in Nat /\ nextID \in Nat
    BY <1>1
  <2>4. ASSUME NEW a \in Nat, NEW b \in Nat,
               a + n = nextID + (n - i + 1), b + n = nextID + (n - j + 1)
        PROVE  a > b
    <3> HIDE DEF n
    <3> QED  BY <2>3, <2>4
  <2> QED  BY <2>2, <2>4
<1>7. ASSUME NEW i \in DOMAIN got, NEW j \in DOMAIN got, i < j
      PROVE  got[i].id > got[j].id
  <2>1. Nth(I, i) \in 1..n /\ Nth(I, j) \in 1..n /\ Nth(I, i) < Nth(I, j)
    BY <1>2, <1>3, <1>4, <1>7
  <2> QED  BY <1>4, <1>6, <2>1
<1>8. ListAfter(after, tags) = got
  BY DEF ListAfter, got, I, all
<1> QED  BY <1>4, <1>5, <1>7, <1>8

\* A poll never misses, repeats or reorders what it asks for, after any number
\* of evictions, clears and amendments (ListAfter).
THEOREM PollsExact == Spec => []PollExact
<1>1. Inv => PollExact
  BY PollElements DEF PollExact
<1> QED  BY <1>1, InitInv, NextInv, PTL DEF Spec

-----------------------------------------------------------------------------
(***************************************************************************)
(* Nothing that is gone comes back.                                        *)
(***************************************************************************)

\* An id names the entry at one position.
PositionsKnown == \A i \in 1..Len(entries) : Position(entries[i].id) = i

\* Each entry is at the position its id is looked up at.
LEMMA IdsHavePositions == Inv => PositionsKnown
BY PositionOfId DEF PositionsKnown

\* An old id that is in the list after a step was there before, with the tag.
NothingNew ==
  \A j \in 1..Len(entries') :
    entries'[j].id <= nextID =>
      \E i \in 1..Len(entries) : /\ entries[i].id = entries'[j].id
                                 /\ entries[i].tag = entries'[j].tag

\* The only entry an add brings has a new id.
LEMMA AddNothingOld ==
  ASSUME Inv, NEW tag \in Tag, Add(tag)
  PROVE  NothingNew
<1> DEFINE n == Len(entries)
           m == Len(entries')
           e == [id |-> nextID + 1, tag |-> tag, body |-> NoBody, proxy |-> NoProxy]
<1>1. /\ nextID \in Nat /\ n \in Nat /\ MaxEntries \in Nat /\ MaxEntries >= 1
  BY Numbered, StoreAssumption
<1>2. /\ m = IF n + 1 > MaxEntries THEN MaxEntries ELSE n + 1
      /\ entries'[m] = e
      /\ \A j \in 1..(m - 1) : /\ j + (n + 1 - m) \in 1..n
                               /\ entries'[j] = entries[j + (n + 1 - m)]
  BY AddElements
<1>3. e.id = nextID + 1
  OBVIOUS
<1> HIDE DEF n, m, e
<1>4. m \in Nat
  BY <1>1, <1>2
<1> SUFFICES ASSUME NEW j \in 1..m, entries'[j].id <= nextID
             PROVE  \E i \in 1..n : /\ entries[i].id = entries'[j].id
                                    /\ entries[i].tag = entries'[j].tag
  BY DEF NothingNew, n, m
<1>5. j # m
  BY <1>1, <1>2, <1>3
<1>6. j \in 1..(m - 1)
  BY <1>4, <1>5
<1> QED  BY <1>2, <1>6

\* No step brings an entry with an old id.
LEMMA StepNothingOld ==
  ASSUME Inv, [Next]_storeVars
  PROVE  nextID <= nextID' /\ NothingNew
<1>1. nextID \in Nat /\ Len(entries) \in Nat
  BY Numbered
<1>2. CASE UNCHANGED storeVars
  BY <1>1, <1>2 DEF storeVars, NothingNew
<1>3. ASSUME NEW tag \in Tag, Record(tag)
      PROVE  nextID <= nextID' /\ NothingNew
  BY <1>1, <1>3, AddNothingOld DEF Record, Add
<1>4. ASSUME NEW id \in 1..nextID, Amend(id)
      PROVE  nextID <= nextID' /\ NothingNew
  BY <1>1, <1>4, AmendElements DEF Amend, NothingNew
<1>5. CASE Clear
  <2>1. Len(entries') = 0 /\ nextID' = nextID
    BY <1>5 DEF Clear
  <2> QED  BY <1>1, <2>1 DEF NothingNew
<1> QED  BY <1>2, <1>3, <1>4, <1>5 DEF Next

\* A request that was evicted or cleared never comes back, and one that is
\* kept keeps its tag (Store.Add, Clear, FinalizeBody, UpdateProxy).
THEOREM NothingReturns == Spec => GoneIsGone
<1>1. ASSUME Inv, Inv', PositionsKnown, PositionsKnown', [Next]_storeVars
      PROVE  [/\ nextID <= nextID'
              /\ \A id \in 1..nextID :
                   /\ ~Held(id) => ~Held(id)'
                   /\ Held(id) /\ Held(id)' =>
                        entries'[Position(id)'].tag = entries[Position(id)].tag]_storeVars
  <2>1. nextID <= nextID' /\ NothingNew
    BY <1>1, StepNothingOld
  <2>2. /\ nextID \in Nat
        /\ DOMAIN entries = 1..Len(entries) /\ DOMAIN entries' = 1..Len(entries')
    BY <1>1, LenProperties DEF Inv, TypeOK
  <2> SUFFICES ASSUME NEW id \in 1..nextID, Held(id)'
               PROVE  /\ Held(id)
                      /\ entries'[Position(id)'].tag = entries[Position(id)].tag
    BY <2>1
  <2>3. PICK j \in 1..Len(entries') : entries'[j].id = id
    BY <2>2 DEF Held
  <2>4. PICK i \in 1..Len(entries) : /\ entries[i].id = id
                                    /\ entries[i].tag = entries'[j].tag
    BY <2>1, <2>2, <2>3 DEF NothingNew
  <2>5. Position(id)' = j /\ Position(id) = i
    BY <1>1, <2>3, <2>4 DEF PositionsKnown
  <2> QED  BY <2>2, <2>4, <2>5 DEF Held
<1> QED  BY <1>1, InitInv, NextInv, IdsHavePositions, PTL DEF Spec, GoneIsGone

-----------------------------------------------------------------------------
(***************************************************************************)
(* The store implements the request log.                                   *)
(***************************************************************************)

\* The log the list stands for, as the instance Log is given it.
LogNow == [id \in {entries[i].id : i \in DOMAIN entries} |-> Kept(id)]

RecordOf(e) == [tag |-> e.tag, body |-> e.body, proxy |-> e.proxy]

\* Its ids are those of the list, and its records the entries'.
LogIsList ==
  /\ DOMAIN LogNow = {id \in Nat : nextID < id + Len(entries) /\ id <= nextID}
  /\ LogNow = [id \in DOMAIN LogNow |-> LogNow[id]]
  /\ \A id \in DOMAIN LogNow : \E i \in 1..Len(entries) : entries[i].id = id
  /\ \A i \in 1..Len(entries) : /\ entries[i].id \in DOMAIN LogNow
                                /\ LogNow[entries[i].id] = RecordOf(entries[i])

\* The records of the log are those of the entries, under their ids.
LEMMA LogOfList == Inv => LogIsList
<1> SUFFICES ASSUME Inv
             PROVE  LogIsList
  OBVIOUS
<1>1. /\ DOMAIN entries = 1..Len(entries)
      /\ \A i \in 1..Len(entries) : entries[i].id \in Nat
  BY Numbered
<1>2. DOMAIN LogNow = {entries[i].id : i \in 1..Len(entries)}
  BY <1>1 DEF LogNow
<1>3. \A id \in Nat : (\E i \in 1..Len(entries) : entries[i].id = id) <=>
                      nextID < id + Len(entries) /\ id <= nextID
  BY <1>1, HeldIds DEF Held
<1>4. DOMAIN LogNow = {id \in Nat : nextID < id + Len(entries) /\ id <= nextID}
  BY <1>1, <1>2, <1>3
<1>5. LogNow = [id \in DOMAIN LogNow |-> LogNow[id]]
  BY DEF LogNow
<1>6. ASSUME NEW i \in 1..Len(entries)
      PROVE  LogNow[entries[i].id] = RecordOf(entries[i])
  <2>1. Position(entries[i].id) = i
    BY PositionOfId
  <2>2. LogNow[entries[i].id] = Kept(entries[i].id)
    BY <1>1 DEF LogNow
  <2> QED  BY <2>1, <2>2 DEF Kept, RecordOf
<1> QED  BY <1>2, <1>4, <1>5, <1>6 DEF LogIsList

\* Add records: the trim drops the ids the log no longer keeps.
LEMMA AddRecords ==
  ASSUME Inv, LogIsList, LogIsList', NEW tag \in Tag, Add(tag)
  PROVE  Log!Record(tag)
<1> DEFINE n == Len(entries)
           m == Len(entries')
           new == [tag |-> tag, body |-> NoBody, proxy |-> NoProxy]
           e == [id |-> nextID + 1, tag |-> tag, body |-> NoBody, proxy |-> NoProxy]
           kept == {i \in DOMAIN LogNow : i + MaxEntries > nextID + 1}
<1>1. /\ nextID \in Nat /\ n \in Nat /\ MaxEntries \in Nat /\ MaxEntries >= 1
      /\ n <= MaxEntries
  BY Numbered, StoreAssumption DEF Inv, Bounded
<1>2. /\ nextID' = nextID + 1
      /\ m = IF n + 1 > MaxEntries THEN MaxEntries ELSE n + 1
      /\ entries'[m] = e
      /\ \A j \in 1..(m - 1) : /\ j + (n + 1 - m) \in 1..n
                               /\ entries'[j] = entries[j + (n + 1 - m)]
  BY AddElements
<1>3. e.id = nextID + 1 /\ RecordOf(e) = new
  BY DEF RecordOf
<1>4. /\ DOMAIN LogNow = {id \in Nat : nextID < id + n /\ id <= nextID}
      /\ DOMAIN LogNow' = {id \in Nat : nextID' < id + m /\ id <= nextID'}
      /\ LogNow' = [id \in DOMAIN LogNow' |-> LogNow'[id]]
      /\ \A id \in DOMAIN LogNow' : \E j \in 1..m : entries'[j].id = id
      /\ \A j \in 1..m : LogNow'[entries'[j].id] = RecordOf(entries'[j])
      /\ \A i \in 1..n : /\ entries[i].id \in DOMAIN LogNow
                         /\ LogNow[entries[i].id] = RecordOf(entries[i])
  BY DEF LogIsList, RecordOf
<1> HIDE DEF n, m, e, new
<1>5. DOMAIN LogNow' = kept \cup {nextID + 1}
  <2>1. \A id \in Nat : nextID + 1 < id + m /\ id <= nextID + 1
          <=> \/ nextID < id + n /\ id <= nextID /\ id + MaxEntries > nextID + 1
              \/ id = nextID + 1
    BY <1>1, <1>2
  <2>2. nextID + 1 \in Nat
    BY <1>1
  <2> QED  BY <1>2, <1>4, <2>1, <2>2
<1>6. ASSUME NEW id \in DOMAIN LogNow'
      PROVE  LogNow'[id] = IF id = nextID + 1 THEN new ELSE LogNow[id]
  <2>1. PICK j \in 1..m : entries'[j].id = id
    BY <1>4
  <2>2. CASE j = m
    BY <1>2, <1>3, <1>4, <2>1, <2>2
  <2>3. CASE j # m
    <3>1. m \in Nat
      BY <1>1, <1>2
    <3>2. j \in 1..(m - 1)
      BY <2>3, <3>1
    <3>3. PICK i \in 1..n : entries'[j] = entries[i]
      BY <1>2, <3>2
    <3>4. id \in DOMAIN LogNow /\ LogNow[id] = RecordOf(entries[i])
      BY <1>4, <2>1, <3>3
    <3>5. id # nextID + 1
      BY <1>1, <1>4, <3>4
    <3> QED  BY <1>4, <2>1, <3>3, <3>4, <3>5
  <2> QED  BY <2>2, <2>3
<1>7. LogNow' = [i \in kept \cup {nextID + 1} |->
                   IF i = nextID + 1 THEN new ELSE LogNow[i]]
  BY <1>4, <1>5, <1>6
<1> QED  BY <1>2, <1>7 DEF Log!Record, LogNow, new

\* An amendment of an entry that is held amends its record and no other.
LEMMA AmendAmends ==
  ASSUME Inv, LogIsList, LogIsList', NEW id \in 1..nextID, Amend(id), Held(id)
  PROVE  Log!Amend(id) /\ id \in DOMAIN LogNow
<1>1. /\ nextID \in Nat /\ id \in Nat
      /\ DOMAIN entries = 1..Len(entries)
      /\ \A j \in 1..Len(entries) : entries[j] \in Entry
  BY Numbered
<1>2. PICK i \in 1..Len(entries) : entries[i].id = id
  BY <1>1 DEF Held
<1>3. Position(id) = i
  BY <1>2, PositionOfId
<1>4. /\ nextID' = nextID /\ Len(entries') = Len(entries)
      /\ \A j \in 1..Len(entries) : entries'[j].id = entries[j].id
  BY <1>1, AmendElements DEF Amend
<1>5. \A j \in 1..Len(entries) : entries[j].id = id => j = i
  <2> TAKE j \in 1..Len(entries)
  <2> QED  BY <1>3, PositionOfId
<1>6. /\ DOMAIN LogNow' = DOMAIN LogNow
      /\ LogNow = [x \in DOMAIN LogNow |-> LogNow[x]]
      /\ LogNow' = [x \in DOMAIN LogNow' |-> LogNow'[x]]
      /\ \A x \in DOMAIN LogNow : \E j \in 1..Len(entries) : entries[j].id = x
      /\ \A j \in 1..Len(entries) :
           /\ entries[j].id \in DOMAIN LogNow
           /\ LogNow[entries[j].id] = RecordOf(entries[j])
           /\ LogNow'[entries[j].id] = RecordOf(entries'[j])
  BY <1>4 DEF LogIsList, RecordOf
<1>7. ASSUME NEW x \in DOMAIN LogNow, x # id, entries' = [entries EXCEPT ![i] = entries'[i]]
      PROVE  LogNow'[x] = LogNow[x]
  <2>1. PICK j \in 1..Len(entries) : entries[j].id = x
    BY <1>6
  <2>2. j # i
    BY <1>2, <1>7, <2>1
  <2>3. entries'[j] = entries[j]
    BY <1>1, <1>7, <2>2
  <2>4. LogNow'[x] = RecordOf(entries'[j]) /\ LogNow[x] = RecordOf(entries[j])
    BY <1>6, <2>1
  <2>5. RecordOf(entries'[j]) = RecordOf(entries[j])
    BY <2>3 DEF RecordOf
  <2> QED  BY <2>4, <2>5
<1>8. ASSUME NEW b \in Body, FinalizeBody(id, b)
      PROVE  LogNow' = [LogNow EXCEPT ![id].body = b]
  <2>1. entries' = [entries EXCEPT ![i].body = b]
    BY <1>3, <1>8 DEF FinalizeBody
  <2>2. /\ entries'[i] = [entries[i] EXCEPT !.body = b]
        /\ entries' = [entries EXCEPT ![i] = entries'[i]]
    BY <1>1, <2>1
  <2>3. RecordOf(entries'[i]) = [RecordOf(entries[i]) EXCEPT !.body = b]
    BY <1>1, <2>2 DEF RecordOf, Entry
  <2>4. LogNow'[id] = [LogNow[id] EXCEPT !.body = b]
    BY <1>2, <1>6, <2>3
  <2> QED  BY <1>2, <1>6, <1>7, <2>2, <2>4
<1>9. ASSUME NEW p \in Proxy, UpdateProxy(id, p)
      PROVE  LogNow' = [LogNow EXCEPT ![id].proxy = p]
  <2>1. entries' = [entries EXCEPT ![i].proxy = p]
    BY <1>3, <1>9 DEF UpdateProxy
  <2>2. /\ entries'[i] = [entries[i] EXCEPT !.proxy = p]
        /\ entries' = [entries EXCEPT ![i] = entries'[i]]
    BY <1>1, <2>1
  <2>3. RecordOf(entries'[i]) = [RecordOf(entries[i]) EXCEPT !.proxy = p]
    BY <1>1, <2>2 DEF RecordOf, Entry
  <2>4. LogNow'[id] = [LogNow[id] EXCEPT !.proxy = p]
    BY <1>2, <1>6, <2>3
  <2> QED  BY <1>2, <1>6, <1>7, <2>2, <2>4
<1>10. id \in DOMAIN LogNow
  BY <1>2, <1>6
<1> QED  BY <1>4, <1>8, <1>9, <1>10 DEF Amend, Log!Amend, LogNow

\* One of an entry that is gone changes nothing, as does a clear to the rest.
LEMMA StepImplements ==
  ASSUME Inv, LogIsList, LogIsList', [Next]_storeVars
  PROVE  [Log!Next]_<<LogNow, nextID>>
<1>1. CASE UNCHANGED <<entries, nextID>>
  BY <1>1 DEF LogNow, Kept, Position
<1>2. ASSUME NEW tag \in Tag, Record(tag)
      PROVE  Log!Next
  BY <1>2, AddRecords DEF Record, Log!Next
<1>3. ASSUME NEW id \in 1..nextID, Amend(id), Held(id)
      PROVE  Log!Next
  BY <1>3, AmendAmends DEF Log!Next, LogNow
<1>4. ASSUME NEW id \in 1..nextID, Amend(id), ~Held(id)
      PROVE  UNCHANGED <<entries, nextID>>
  BY <1>4 DEF Amend, FinalizeBody, UpdateProxy
<1>5. ASSUME Clear
      PROVE  Log!Next
  <2>1. entries' = <<>> /\ nextID' = nextID
    BY <1>5 DEF Clear
  <2>2. DOMAIN entries' = {}
    BY <2>1
  <2>3. LogNow' = [id \in {} |-> NoBody]
    BY <2>2 DEF LogNow
  <2> QED  BY <2>1, <2>3 DEF Log!Next, Log!Clear, LogNow
<1> QED  BY <1>1, <1>2, <1>3, <1>4, <1>5 DEF Next, storeVars

\* The empty store is the empty log.
LEMMA InitImplements == Init => Log!Init
<1> SUFFICES ASSUME Init
             PROVE  Log!Init
  OBVIOUS
<1>1. DOMAIN entries = {} /\ nextID = 0
  BY DEF Init
<1>2. LogNow = [id \in {} |-> NoBody]
  BY <1>1 DEF LogNow
<1> QED  BY <1>1, <1>2 DEF Log!Init, LogNow

\* The list, with its loops and its trim, implements the log (all of Store).
THEOREM ListImplementsLog == Spec => ImplementsRequestLog
<1>1. ASSUME Inv, LogIsList, LogIsList', [Next]_storeVars
      PROVE  [Log!Next]_<<LogNow, nextID>>
  BY <1>1, StepImplements
<1> QED  BY <1>1, InitInv, NextInv, LogOfList, InitImplements, PTL
         DEF Spec, ImplementsRequestLog, Log!Spec, LogNow

=============================================================================
