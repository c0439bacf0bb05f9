--------------------------- MODULE RequestListProofs ---------------------------
(***************************************************************************)
(* Theorems about RequestList, for every set of routes, any number of      *)
(* tasks, any store and any number of requests.  What they need of the     *)
(* store is taken from StoreProofs.                                        *)
(***************************************************************************)
EXTENDS RequestList, SequenceFacts

LogProofs == INSTANCE StoreProofs WITH Tag <- Route, Body <- {0}, NoBody <- 0,
                                       Proxy <- {"open", "done"}, NoProxy <- "open"

\* What StoreProofs assumes of the store's constants holds here.
LEMMA LogAssumption == LogProofs!StoreAssumption
BY RequestListAssumption DEF LogProofs!StoreAssumption

\* No request has two items.
Once(items) == \A i, j \in DOMAIN items : items[i].id = items[j].id => i = j

\* The store has its invariant, and has given every id it holds.
StoreInv ==
  /\ LogProofs!Inv
  /\ nextID <= MaxID /\ Len(entries) <= nextID

\* A request was recorded when its route had been up.
ServerInv ==
  /\ StoreInv
  /\ life \in [Route -> {"new", "up", "gone"}]
  /\ \A i \in DOMAIN entries : life[entries[i].tag] # "new"

\* The list and what the page knows of it go together.
ListOK ==
  /\ rows \in Seq(Row) /\ knownIds \in SUBSET (1..MaxID)
  /\ newestId \in 0..MaxID /\ filter \in Filter
  /\ ListConsistent /\ RowsPassFilter

PaneOK == selected \in Selection /\ detail \in Pane

\* The answers under way have a request once, as the list does.
TasksOK ==
  /\ task \in [Task -> TaskState]
  /\ \A t \in Task : Once(task[t].items)

\* The inductive invariant of the list.
ListInv == ServerInv /\ ListOK /\ PaneOK /\ TasksOK

-----------------------------------------------------------------------------
(***************************************************************************)
(* Facts about items and rows.                                             *)
(***************************************************************************)

\* Items by place, and their ids.
LEMMA ItemIds ==
  ASSUME NEW s \in Seq(Row)
  PROVE  /\ Len(s) \in Nat /\ DOMAIN s = 1..Len(s)
         /\ \A i \in DOMAIN s : /\ s[i] \in Row /\ s[i].id \in 1..MaxID
                                /\ s[i].route \in Route /\ s[i].open \in BOOLEAN
         /\ IdsOf(s) \subseteq 1..MaxID
<1>1. Len(s) \in Nat /\ DOMAIN s = 1..Len(s) /\ \A i \in 1..Len(s) : s[i] \in Row
  BY LenProperties, ElementOfSeq
<1> QED  BY <1>1 DEF Row, IdsOf

\* The greatest id of a set, or zero.
LEMMA MaxOfIds ==
  ASSUME NEW ids, ids \subseteq 0..MaxID
  PROVE  /\ MaxOf(ids) \in ids \cup {0} /\ MaxOf(ids) \in 0..MaxID
         /\ \A id \in ids : id <= MaxOf(ids)
         /\ \A m \in ids \cup {0} : (\A id \in ids : id <= m) => m = MaxOf(ids)
<1> DEFINE V == {id + 1 : id \in ids \cup {0}}
<1>1. MaxID \in Nat
  BY RequestListAssumption
<1>2. MaxID + 1 \in Nat /\ V \subseteq 1..(MaxID + 1) /\ V # {}
  BY <1>1
<1>3. PICK v \in V : \A w \in V : w <= v
  <2> HIDE DEF V
  <2> QED  BY <1>2, Greatest
<1>4. PICK m \in ids \cup {0} : v = m + 1
  OBVIOUS
<1>5. \A id \in ids \cup {0} : id \in 0..MaxID
  BY <1>1
<1>6. \A id \in ids : id <= m
  <2> TAKE id \in ids
  <2>1. id + 1 <= m + 1
    BY <1>3, <1>4
  <2>2. id \in Nat /\ m \in Nat
    BY <1>1, <1>5
  <2> QED  BY <2>1, <2>2
<1>7. \A a, b \in ids \cup {0} :
        (\A id \in ids : id <= a) /\ (\A id \in ids : id <= b) => a = b
  <2> SUFFICES ASSUME NEW a \in ids \cup {0}, NEW b \in ids \cup {0},
                      \A id \in ids : id <= a, \A id \in ids : id <= b
               PROVE  a = b
    OBVIOUS
  <2>1. a \in Nat /\ b \in Nat
    BY <1>1, <1>5
  <2>2. a <= b /\ b <= a
    BY <2>1
  <2> QED  BY <2>1, <2>2
<1>8. MaxOf(ids) \in ids \cup {0} /\ \A id \in ids : id <= MaxOf(ids)
  BY <1>6 DEF MaxOf
<1> QED  BY <1>5, <1>7, <1>8

\* A sublist of items.
LEMMA SublistItems ==
  ASSUME NEW s \in Seq(Row), Once(s), NEW I, I \subseteq DOMAIN s
  PROVE  /\ Sublist(s, I) \in Seq(Row) /\ Once(Sublist(s, I))
         /\ \A k \in DOMAIN Sublist(s, I) : \E i \in I : Sublist(s, I)[k] = s[i]
         /\ IdsOf(Sublist(s, I)) = {s[i].id : i \in I}
<1> DEFINE u == Sublist(s, I)
<1>1. /\ u \in Seq(Row) /\ Range(u) = {s[i] : i \in I}
      /\ \A k \in DOMAIN u : Nth(I, k) \in I /\ u[k] = s[Nth(I, k)]
      /\ \A j, k \in DOMAIN u : j < k => Nth(I, j) < Nth(I, k)
  BY SublistElements
<1> HIDE DEF u
<1>2. \A k \in DOMAIN u : k \in Nat
  BY <1>1, LenProperties
<1>3. \A i \in I : i \in Nat
  BY ItemIds
<1>4. Once(u)
  <2> SUFFICES ASSUME NEW j \in DOMAIN u, NEW k \in DOMAIN u, u[j].id = u[k].id, j # k
               PROVE  FALSE
    BY DEF Once
  <2>1. Nth(I, j) = Nth(I, k)
    BY <1>1 DEF Once
  <2>2. j < k \/ k < j
    BY <1>2
  <2>3. Nth(I, j) < Nth(I, k) \/ Nth(I, k) < Nth(I, j)
    BY <1>1, <2>2
  <2>4. Nth(I, j) \in Nat /\ Nth(I, k) \in Nat
    BY <1>1, <1>3
  <2> QED  BY <2>1, <2>3, <2>4
<1>5. IdsOf(u) = {s[i].id : i \in I}
  <2>1. IdsOf(u) = {x.id : x \in Range(u)}
    BY DEF IdsOf, Range
  <2> QED  BY <1>1, <2>1
<1> QED  BY <1>1, <1>4, <1>5 DEF u

\* Items turned round.
LEMMA ReverseItems ==
  ASSUME NEW s \in Seq(Row), Once(s)
  PROVE  /\ Reverse(s) \in Seq(Row) /\ Once(Reverse(s)) /\ IdsOf(Reverse(s)) = IdsOf(s)
         /\ \A k \in DOMAIN Reverse(s) : \E i \in DOMAIN s : Reverse(s)[k] = s[i]
<1> DEFINE n == Len(s)
           u == Reverse(s)
<1>1. /\ u \in Seq(Row) /\ DOMAIN u = DOMAIN s /\ Range(u) = Range(s)
      /\ \A i \in DOMAIN s : u[i] = s[n - i + 1] /\ n - i + 1 \in DOMAIN s
      /\ n \in Nat /\ DOMAIN s = 1..n
  BY ReverseElements, LenProperties
<1> HIDE DEF n, u
<1>2. Once(u)
  <2> SUFFICES ASSUME NEW i \in 1..n, NEW j \in 1..n, u[i].id = u[j].id
               PROVE  i = j
    BY <1>1 DEF Once
  <2>1. PICK a \in DOMAIN s : a = n - i + 1 /\ u[i] = s[a]
    BY <1>1
  <2>2. PICK b \in DOMAIN s : b = n - j + 1 /\ u[j] = s[b]
    BY <1>1
  <2>3. a = b
    BY <2>1, <2>2 DEF Once
  <2>4. n - i + 1 = n - j + 1
    BY <2>1, <2>2, <2>3
  <2> QED  BY <1>1, <2>4
<1>3. IdsOf(u) = {x.id : x \in Range(u)} /\ IdsOf(s) = {x.id : x \in Range(s)}
  BY DEF IdsOf, Range
<1> QED  BY <1>1, <1>2, <1>3 DEF u

\* Items followed by others.
LEMMA ConcatItems ==
  ASSUME NEW s \in Seq(Row), NEW u \in Seq(Row), Once(s), Once(u),
         IdsOf(s) \cap IdsOf(u) = {}
  PROVE  /\ s \o u \in Seq(Row) /\ Once(s \o u) /\ IdsOf(s \o u) = IdsOf(s) \cup IdsOf(u)
         /\ \A k \in DOMAIN (s \o u) : \/ \E i \in DOMAIN s : (s \o u)[k] = s[i]
                                       \/ \E j \in DOMAIN u : (s \o u)[k] = u[j]
<1> DEFINE n == Len(s)
           m == Len(u)
           w == s \o u
<1>1. n \in Nat /\ m \in Nat /\ DOMAIN s = 1..n /\ DOMAIN u = 1..m
  BY LenProperties
<1>2. /\ w \in Seq(Row) /\ Len(w) = n + m
      /\ \A k \in 1..(n + m) : w[k] = IF k <= n THEN s[k] ELSE u[k - n]
  BY ConcatProperties
<1> HIDE DEF n, m, w
<1>3. DOMAIN w = 1..(n + m)
  BY <1>2, LenProperties
<1>4. \A k \in 1..(n + m) : \/ k \in 1..n /\ w[k] = s[k]
                            \/ k - n \in 1..m /\ w[k] = u[k - n]
  <2> TAKE k \in 1..(n + m)
  <2>1. w[k] = IF k <= n THEN s[k] ELSE u[k - n]
    BY <1>2
  <2>2. CASE k <= n
    BY <1>1, <2>1, <2>2
  <2>3. CASE ~(k <= n)
    <3>1. k - n \in 1..m
      BY <1>1, <2>3
    <3> QED  BY <2>1, <2>3, <3>1
  <2> QED  BY <2>2, <2>3
<1>5. \A i \in 1..n : i \in 1..(n + m) /\ w[i] = s[i]
  <2> TAKE i \in 1..n
  <2>1. i \in 1..(n + m) /\ i <= n
    BY <1>1
  <2> QED  BY <1>2, <2>1
<1>6. \A j \in 1..m : \E k \in 1..(n + m) : w[k] = u[j]
  <2> TAKE j \in 1..m
  <2>1. PICK k : k = n + j
    OBVIOUS
  <2>2. k \in 1..(n + m) /\ ~(k <= n) /\ k - n = j
    BY <1>1, <2>1
  <2>3. w[k] = IF k <= n THEN s[k] ELSE u[k - n]
    BY <1>2, <2>2
  <2> QED  BY <2>2, <2>3
<1>7. \A i \in 1..n, j \in 1..m : s[i].id # u[j].id
  BY <1>1 DEF IdsOf
<1>8. Once(w)
  <2> SUFFICES ASSUME NEW k \in 1..(n + m), NEW l \in 1..(n + m), w[k].id = w[l].id
               PROVE  k = l
    BY <1>3 DEF Once
  <2>1. CASE k \in 1..n /\ w[k] = s[k] /\ l \in 1..n /\ w[l] = s[l]
    BY <1>1, <2>1 DEF Once
  <2>2. CASE k - n \in 1..m /\ w[k] = u[k - n] /\ l - n \in 1..m /\ w[l] = u[l - n]
    <3>1. k - n = l - n
      BY <1>1, <2>2 DEF Once
    <3> QED  BY <1>1, <3>1
  <2> QED  BY <1>4, <1>7, <2>1, <2>2
<1>9. IdsOf(w) = IdsOf(s) \cup IdsOf(u)
  <2>1. IdsOf(w) \subseteq IdsOf(s) \cup IdsOf(u)
    BY <1>1, <1>3, <1>4 DEF IdsOf
  <2>2. IdsOf(s) \subseteq IdsOf(w)
    BY <1>1, <1>3, <1>5 DEF IdsOf
  <2>3. IdsOf(u) \subseteq IdsOf(w)
    BY <1>1, <1>3, <1>6 DEF IdsOf
  <2> QED  BY <2>1, <2>2, <2>3
<1>10. \A k \in DOMAIN w : \/ \E i \in DOMAIN s : w[k] = s[i]
                           \/ \E j \in DOMAIN u : w[k] = u[j]
  BY <1>1, <1>3, <1>4
<1> QED  BY <1>2, <1>8, <1>9, <1>10 DEF w

\* What is left of items from some place on.
LEMMA RestItems ==
  ASSUME NEW s \in Seq(Row), Once(s), NEW i \in DOMAIN s
  PROVE  LET u == SubSeq(s, i + 1, Len(s))
         IN  /\ u \in Seq(Row) /\ Once(u)
             /\ \A k \in DOMAIN u : \E j \in DOMAIN s : u[k] = s[j]
<1> DEFINE n == Len(s)
           u == SubSeq(s, i + 1, n)
<1>1. n \in Nat /\ DOMAIN s = 1..n /\ i \in 1..n /\ \A k \in 1..n : s[k] \in Row
  BY ItemIds
<1>2. /\ u \in Seq(Row) /\ Len(u) = n - i
      /\ \A k \in 1..(n - i) : u[k] = s[k + i]
  <2> DEFINE m == i + 1
  <2>1. /\ m \in Int /\ n \in Int /\ \A k \in m..n : s[k] \in Row
        /\ n - m + 1 = n - i
        /\ n - i = IF m <= n THEN n - m + 1 ELSE 0
    BY <1>1
  <2>2. \A k \in 1..(n - i) : m + k - 1 = k + i
    BY <1>1
  <2> HIDE DEF m, n
  <2>3. /\ SubSeq(s, m, n) \in Seq(Row)
        /\ Len(SubSeq(s, m, n)) = IF m <= n THEN n - m + 1 ELSE 0
        /\ \A k \in 1..(n - m + 1) : SubSeq(s, m, n)[k] = s[m + k - 1]
    BY <2>1, SubSeqProperties
  <2>4. u = SubSeq(s, m, n)
    BY DEF m
  <2> QED  BY <2>1, <2>2, <2>3, <2>4
<1> HIDE DEF u, n
<1>3. DOMAIN u = 1..(n - i)
  BY <1>1, <1>2, LenProperties
<1>4. \A k \in 1..(n - i) : k + i \in 1..n
  BY <1>1
<1>5. Once(u)
  <2> SUFFICES ASSUME NEW k \in 1..(n - i), NEW l \in 1..(n - i), u[k].id = u[l].id
               PROVE  k = l
    BY <1>3 DEF Once
  <2>1. PICK a \in DOMAIN s : a = k + i /\ u[k] = s[a]
    BY <1>1, <1>2, <1>4
  <2>2. PICK b \in DOMAIN s : b = l + i /\ u[l] = s[b]
    BY <1>1, <1>2, <1>4
  <2>3. a = b
    BY <2>1, <2>2 DEF Once
  <2>4. k + i = l + i
    BY <2>1, <2>2, <2>3
  <2> QED  BY <1>1, <2>4
<1>6. \A k \in DOMAIN u : \E j \in DOMAIN s : u[k] = s[j]
  BY <1>1, <1>2, <1>3, <1>4
<1> QED  BY <1>2, <1>5, <1>6 DEF u, n

\* The items that pass the filter.
LEMMA WantedItems ==
  ASSUME NEW items \in Seq(Row), Once(items)
  PROVE  /\ Wanted(items) \in Seq(Row) /\ Once(Wanted(items))
         /\ \A k \in DOMAIN Wanted(items) : /\ PassesFilter(Wanted(items)[k].route)
                                            /\ \E i \in DOMAIN items : Wanted(items)[k] = items[i]
         /\ filter = All => Wanted(items) = items
<1> DEFINE I == {i \in DOMAIN items : PassesFilter(items[i].route)}
<1>1. Wanted(items) = Sublist(items, I) /\ I \subseteq DOMAIN items
  BY DEF Wanted
<1>2. filter = All => I = DOMAIN items
  BY DEF PassesFilter
<1>3. filter = All => Wanted(items) = items
  BY <1>1, <1>2, SublistEnds
<1>4. \A i \in I : i \in DOMAIN items /\ PassesFilter(items[i].route)
  OBVIOUS
<1> HIDE DEF I
<1>5. /\ Sublist(items, I) \in Seq(Row) /\ Once(Sublist(items, I))
      /\ \A k \in DOMAIN Sublist(items, I) : \E i \in I : Sublist(items, I)[k] = items[i]
  BY <1>1, SublistItems
<1> QED  BY <1>1, <1>3, <1>4, <1>5

\* Rows that are updated are the same rows, but for what they say.
LEMMA UpdateItems ==
  ASSUME NEW rs \in Seq(Row), NEW items, NEW ids
  PROVE  /\ Update(rs, items, ids) \in Seq(Row)
         /\ DOMAIN Update(rs, items, ids) = DOMAIN rs
         /\ \A i \in DOMAIN rs : /\ Update(rs, items, ids)[i].id = rs[i].id
                                 /\ Update(rs, items, ids)[i].route = rs[i].route
         /\ IdsOf(Update(rs, items, ids)) = IdsOf(rs)
         /\ Once(rs) => Once(Update(rs, items, ids))
<1> DEFINE u == Update(rs, items, ids)
           says(i) == IF rs[i].id \in ids \cap IdsOf(items)
                        THEN \E item \in Range(items) : item.id = rs[i].id /\ item.open
                        ELSE rs[i].open
<1>1. /\ Len(rs) \in Nat /\ DOMAIN rs = 1..Len(rs)
      /\ \A i \in DOMAIN rs : rs[i] \in Row /\ rs[i].open \in BOOLEAN
  BY ItemIds
<1>2. u = [i \in DOMAIN rs |-> [rs[i] EXCEPT !.open = says(i)]]
  BY DEF Update
<1>3. \A i \in DOMAIN rs : says(i) \in BOOLEAN
  BY <1>1
<1> HIDE DEF says
<1>4. \A i \in DOMAIN rs : u[i] \in Row /\ u[i].id = rs[i].id /\ u[i].route = rs[i].route
  BY <1>1, <1>2, <1>3 DEF Row
<1>5. DOMAIN u = DOMAIN rs
  BY <1>2
<1>6. u \in Seq(Row)
  <2>1. u \in [1..Len(rs) -> Row]
    BY <1>1, <1>2, <1>4
  <2> QED  BY <1>1, <2>1, SeqDef
<1> HIDE DEF u
<1>7. IdsOf(u) = IdsOf(rs) /\ (Once(rs) => Once(u))
  BY <1>4, <1>5 DEF IdsOf, Once
<1> QED  BY <1>4, <1>5, <1>6, <1>7 DEF u

\* The new rows on top of those there are.
LEMMA PrependedItems ==
  ASSUME NEW items \in Seq(Row), Once(items),
         rows \in Seq(Row), Once(rows), knownIds = IdsOf(rows)
  PROVE  /\ Prepended(items) \in Seq(Row) /\ Once(Prepended(items))
         /\ IdsOf(Prepended(items)) = IdsOf(Wanted(items)) \cup knownIds
         /\ RowsPassFilter =>
              \A k \in DOMAIN Prepended(items) : PassesFilter(Prepended(items)[k].route)
<1> DEFINE wanted == Wanted(items)
           I == {i \in DOMAIN wanted : wanted[i].id \notin knownIds}
           fresh == Sublist(wanted, I)
           top == Reverse(fresh)
           below == Update(rows, wanted, knownIds)
<1>1. /\ wanted \in Seq(Row) /\ Once(wanted)
      /\ \A k \in DOMAIN wanted : PassesFilter(wanted[k].route)
  BY WantedItems
<1>2. /\ below \in Seq(Row) /\ Once(below) /\ IdsOf(below) = knownIds
      /\ DOMAIN below = DOMAIN rows
      /\ \A i \in DOMAIN rows : below[i].route = rows[i].route
  BY UpdateItems
<1>3. Prepended(items) = top \o below
  BY DEF Prepended
<1>4. /\ I \subseteq DOMAIN wanted
      /\ {wanted[i].id : i \in I} = IdsOf(wanted) \ knownIds
  BY DEF IdsOf
<1> HIDE DEF I, wanted, below
<1>5. /\ fresh \in Seq(Row) /\ Once(fresh) /\ IdsOf(fresh) = IdsOf(wanted) \ knownIds
      /\ \A k \in DOMAIN fresh : PassesFilter(fresh[k].route)
  <2>1. /\ fresh \in Seq(Row) /\ Once(fresh) /\ IdsOf(fresh) = {wanted[i].id : i \in I}
        /\ \A k \in DOMAIN fresh : \E i \in I : fresh[k] = wanted[i]
    BY <1>1, <1>4, SublistItems
  <2> QED  BY <1>1, <1>4, <2>1
<1> HIDE DEF fresh
<1>6. /\ top \in Seq(Row) /\ Once(top) /\ IdsOf(top) = IdsOf(wanted) \ knownIds
      /\ \A k \in DOMAIN top : PassesFilter(top[k].route)
  BY <1>5, ReverseItems
<1> HIDE DEF top
<1>7. IdsOf(top) \cap IdsOf(below) = {}
  BY <1>2, <1>6
<1>8. /\ top \o below \in Seq(Row) /\ Once(top \o below)
      /\ IdsOf(top \o below) = IdsOf(top) \cup IdsOf(below)
      /\ \A k \in DOMAIN (top \o below) : \/ \E i \in DOMAIN top : (top \o below)[k] = top[i]
                                          \/ \E j \in DOMAIN below : (top \o below)[k] = below[j]
  BY <1>2, <1>6, <1>7, ConcatItems
<1>9. IdsOf(top \o below) = IdsOf(wanted) \cup knownIds
  BY <1>2, <1>6, <1>8
<1>10. RowsPassFilter =>
         \A k \in DOMAIN (top \o below) : PassesFilter((top \o below)[k].route)
  BY <1>2, <1>6, <1>8 DEF RowsPassFilter
<1> QED  BY <1>3, <1>8, <1>9, <1>10 DEF wanted


-----------------------------------------------------------------------------
(***************************************************************************)
(* The store, as the API reads it.                                         *)
(***************************************************************************)

\* Entries are well typed, their ids have been given, and each is found at
\* its place.
LEMMA Entries ==
  ASSUME StoreInv
  PROVE  /\ nextID \in 0..MaxID
         /\ \A i \in DOMAIN entries :
              /\ entries[i] \in Log!Entry
              /\ entries[i].id \in 1..nextID /\ entries[i].id \in 1..MaxID
              /\ entries[i].tag \in Route
              /\ Log!Held(entries[i].id) /\ Log!Position(entries[i].id) = i
         /\ \A i, j \in DOMAIN entries : entries[i].id = entries[j].id => i = j
<1> DEFINE n == Len(entries)
<1>1. /\ nextID \in Nat /\ n \in Nat /\ DOMAIN entries = 1..n
      /\ \A i \in 1..n : /\ entries[i] \in LogProofs!Entry /\ entries[i].id \in Nat
                         /\ entries[i].id + n = nextID + i
      /\ \A i \in 1..n : /\ LogProofs!Held(entries[i].id)
                         /\ LogProofs!Position(entries[i].id) = i
  BY LogAssumption, LogProofs!Numbered, LogProofs!PositionOfId DEF StoreInv
<1>2. n <= nextID /\ nextID <= MaxID /\ MaxID \in Nat
  BY RequestListAssumption DEF StoreInv
<1> HIDE DEF n
<1>3. \A i, m \in Nat : i \in 1..n /\ m + n = nextID + i => m \in 1..nextID /\ m \in 1..MaxID
  BY <1>1, <1>2
<1>4. ASSUME NEW i \in 1..n
      PROVE  entries[i].id \in 1..nextID /\ entries[i].id \in 1..MaxID
  <2>1. PICK m \in Nat : m = entries[i].id
    BY <1>1
  <2>2. m + n = nextID + i /\ i \in Nat
    BY <1>1, <2>1
  <2> QED  BY <1>3, <2>1, <2>2
<1>5. \A i \in 1..n : entries[i] \in Log!Entry /\ entries[i].tag \in Route
  BY <1>1 DEF LogProofs!Entry, Log!Entry
<1>6. \A i \in 1..n : Log!Held(entries[i].id) /\ Log!Position(entries[i].id) = i
  BY <1>1 DEF LogProofs!Held, Log!Held, LogProofs!Position, Log!Position
<1>7. \A i, j, m \in Nat : m + n = nextID + i /\ m + n = nextID + j => i = j
  BY <1>1
<1>8. \A i, j \in 1..n : entries[i].id = entries[j].id => i = j
  BY <1>1, <1>7
<1>9. nextID \in 0..MaxID
  BY <1>1, <1>2
<1> QED  BY <1>1, <1>4, <1>5, <1>6, <1>8, <1>9

\* The invariant has all that the types ask for.
LEMMA ListTyped == ListInv => TypeOK
<1>1. StoreInv => Log!TypeOK
  BY DEF StoreInv, LogProofs!Inv, LogProofs!TypeOK, Log!TypeOK, LogProofs!Entry, Log!Entry
<1> QED  BY <1>1 DEF ListInv, ServerInv, ListOK, PaneOK, TasksOK, TypeOK

\* What is read of a request, in terms of its entry.
LEMMA ListedEntry ==
  ASSUME StoreInv, NEW id
  PROVE  /\ Listed(id) <=> \E i \in DOMAIN entries :
                              entries[i].id = id /\ life[entries[i].tag] = "up"
         /\ Listed(id) => Says(id) \in {"open", "done"}
         /\ Log!Held(id) => Says(id) \in {"open", "done"}
<1>1. ASSUME Log!Held(id)
      PROVE  \E i \in DOMAIN entries : entries[i].id = id /\ Log!Position(id) = i
  BY <1>1, Entries DEF Log!Held
<1>2. Log!Held(id) => Says(id) \in {"open", "done"}
  BY <1>1, Entries DEF Says, Log!Entry
<1>3. \A i \in DOMAIN entries : entries[i].id = id => Log!Held(id) /\ Log!Position(id) = i
  BY Entries
<1> QED  BY <1>1, <1>2, <1>3 DEF Listed

\* A poll is answered with the requests it asks for, each once (PollElements).
LEMMA Polled ==
  ASSUME StoreInv, NEW after \in 0..MaxID, NEW tags,
         NEW found, found = Log!ListAfter(after, tags),
         NEW items, items = [i \in DOMAIN found |-> Item(found[i])]
  PROVE  /\ items \in Seq(Row) /\ Once(items)
         /\ \A k \in DOMAIN items :
              \E i \in DOMAIN entries : /\ items[k].id = entries[i].id
                                        /\ items[k].route = entries[i].tag
                                        /\ entries[i].id > after
         /\ \A i \in DOMAIN entries :
              entries[i].id > after /\ entries[i].tag \in tags => entries[i].id \in IdsOf(items)
<1>1. found = LogProofs!ListAfter(after, tags)
  <2>1. Log!Reverse(entries) = LogProofs!Reverse(entries)
    BY DEF Log!Reverse, LogProofs!Reverse
  <2>2. \A I : Log!Cardinality(I) = LogProofs!Cardinality(I)
    BY DEF Log!Cardinality, LogProofs!Cardinality, Log!IsFiniteSet, LogProofs!IsFiniteSet
  <2>3. \A I, k : Log!Nth(I, k) = LogProofs!Nth(I, k)
    BY <2>2 DEF Log!Nth, LogProofs!Nth
  <2>4. \A s, I : Log!Sublist(s, I) = LogProofs!Sublist(s, I)
    BY <2>2, <2>3 DEF Log!Sublist, LogProofs!Sublist
  <2> QED  BY <2>1, <2>4 DEF Log!ListAfter, LogProofs!ListAfter
<1>2. /\ found \in Seq(LogProofs!Entry)
      /\ Range(found) = {e \in Range(entries) : e.id > after /\ e.tag \in tags}
      /\ \A i, j \in DOMAIN found : i < j => found[i].id > found[j].id
  <2>1. LogProofs!Inv
    BY DEF StoreInv
  <2> QED  BY <1>1, <2>1, LogAssumption, LogProofs!PollElements DEF Range, LogProofs!Range
<1>3. /\ Len(found) \in Nat /\ DOMAIN found = 1..Len(found)
  BY <1>2, LenProperties
<1>4. \A k \in DOMAIN found : \E i \in DOMAIN entries :
        found[k] = entries[i] /\ entries[i].id > after /\ entries[i].tag \in tags
  BY <1>2 DEF Range
<1>5. DOMAIN items = DOMAIN found /\ \A k \in DOMAIN found : items[k] = Item(found[k])
  OBVIOUS
<1>6. \A k \in DOMAIN found : items[k] \in Row
  <2> TAKE k \in DOMAIN found
  <2>1. found[k].id \in 1..MaxID /\ found[k].tag \in Route
    BY <1>4, Entries
  <2> QED  BY <1>5, <2>1 DEF Item, Row
<1>7. items \in Seq(Row)
  <2>1. items \in [1..Len(found) -> Row]
    BY <1>3, <1>6
  <2> QED  BY <1>3, <2>1, SeqDef
<1>8. Once(items)
  <2> SUFFICES ASSUME NEW i \in DOMAIN found, NEW j \in DOMAIN found,
                      items[i].id = items[j].id, i # j
               PROVE  FALSE
    BY <1>5 DEF Once
  <2>1. found[i].id = found[j].id /\ found[i].id \in Nat
    <3>1. found[i].id = found[j].id
      BY <1>5 DEF Item
    <3>2. found[i].id \in 1..MaxID /\ MaxID \in Nat
      BY <1>4, Entries, RequestListAssumption
    <3> QED  BY <3>1, <3>2
  <2>2. i < j \/ j < i
    BY <1>3
  <2> QED  BY <1>2, <2>1, <2>2
<1>9. \A k \in DOMAIN items :
        \E i \in DOMAIN entries : /\ items[k].id = entries[i].id
                                  /\ items[k].route = entries[i].tag
                                  /\ entries[i].id > after
  BY <1>4, <1>5 DEF Item
<1>10. ASSUME NEW i \in DOMAIN entries, entries[i].id > after, entries[i].tag \in tags
       PROVE  entries[i].id \in IdsOf(items)
  <2>1. entries[i] \in Range(found)
    BY <1>2, <1>10 DEF Range
  <2>2. PICK k \in DOMAIN found : found[k] = entries[i]
    BY <2>1 DEF Range
  <2>3. items[k].id = entries[i].id
    BY <1>5, <2>2 DEF Item
  <2> QED  BY <1>5, <2>3 DEF IdsOf
<1> QED  BY <1>7, <1>8, <1>9, <1>10

\* After a step, every entry but a new one was there before.
Old(j) == \E i \in DOMAIN entries : /\ entries[i].id = entries'[j].id
                                    /\ entries[i].tag = entries'[j].tag
New(j, r) == entries'[j].id = nextID + 1 /\ entries'[j].tag = r

\* Store.Add adds an entry with the next id.
LEMMA AddEffect ==
  ASSUME StoreInv, NEW r \in Route, nextID < MaxID, Log!Add(r)
  PROVE  /\ StoreInv' /\ nextID' = nextID + 1
         /\ \A j \in DOMAIN entries' : New(j, r) \/ Old(j)
<1> DEFINE n == Len(entries)
           m == Len(entries')
           e == [id |-> nextID + 1, tag |-> r, body |-> 0, proxy |-> "open"]
<1>1. LogProofs!Add(r)
  BY DEF Log!Add, LogProofs!Add, Log!Newest, LogProofs!Newest
<1>2. LogProofs!Inv'
  BY <1>1, LogAssumption, LogProofs!AddStep DEF StoreInv
<1>3. /\ nextID' = nextID + 1
      /\ m = IF n + 1 > MaxEntries THEN MaxEntries ELSE n + 1
      /\ entries'[m] = e
      /\ \A i \in 1..(m - 1) :
           /\ i + (n + 1 - m) \in 1..n
           /\ entries'[i] = entries[i + (n + 1 - m)]
  BY <1>1, LogAssumption, LogProofs!AddElements DEF StoreInv
<1>4. /\ n \in Nat /\ DOMAIN entries = 1..n /\ nextID \in Nat
      /\ m \in Nat /\ DOMAIN entries' = 1..m
  <2>1. LogProofs!Inv => n \in Nat /\ DOMAIN entries = 1..n /\ nextID \in Nat
    BY LogAssumption, LogProofs!Numbered
  <2>2. entries' \in Seq(LogProofs!Entry)
    BY <1>2 DEF LogProofs!Inv, LogProofs!TypeOK
  <2> QED  BY <2>1, <2>2, LenProperties DEF StoreInv
<1>5. e.id = nextID + 1 /\ e.tag = r
  OBVIOUS
<1>6. n <= nextID
  BY DEF StoreInv
<1> HIDE DEF n, m, e
<1>7. \A i \in 1..m : i = m \/ i \in 1..(m - 1)
  BY <1>4
<1>8. ASSUME NEW j \in 1..m
      PROVE  New(j, r) \/ Old(j)
  <2>1. CASE j = m
    BY <1>3, <1>5, <2>1 DEF New
  <2>2. CASE j \in 1..(m - 1)
    BY <1>3, <1>4, <2>2 DEF Old
  <2> QED  BY <1>7, <2>1, <2>2
<1>9. m <= nextID' /\ nextID' <= MaxID
  <2>1. MaxID \in Nat /\ MaxEntries \in Nat
    BY RequestListAssumption
  <2>2. m <= n + 1
    BY <1>3, <1>4, <2>1
  <2> QED  BY <1>3, <1>4, <1>6, <2>1, <2>2
<1> QED  BY <1>2, <1>3, <1>4, <1>8, <1>9 DEF StoreInv, m

\* UpdateProxy leaves ids and tags alone.
LEMMA AmendEffect ==
  ASSUME StoreInv, NEW id \in 1..MaxID, Log!UpdateProxy(id, "done")
  PROVE  StoreInv' /\ nextID' = nextID /\ \A j \in DOMAIN entries' : Old(j)
<1> DEFINE n == Len(entries)
           m == Len(entries')
<1>1. LogProofs!Inv /\ id \in Nat
  BY RequestListAssumption DEF StoreInv
<1>2. LogProofs!UpdateProxy(id, "done")
  BY DEF LogProofs!UpdateProxy, Log!UpdateProxy, Log!Held, LogProofs!Held,
         Log!Position, LogProofs!Position
<1>3. /\ entries' \in Seq(LogProofs!Entry) /\ nextID' = nextID
      /\ m = n
      /\ \A i \in 1..n : entries'[i].id = entries[i].id /\ entries'[i].tag = entries[i].tag
  BY <1>1, <1>2, LogAssumption, LogProofs!AmendElements
<1>4. DOMAIN entries' = 1..m /\ DOMAIN entries = 1..n
  BY <1>1, <1>3, LenProperties DEF LogProofs!Inv, LogProofs!TypeOK
<1>5. LogProofs!Inv'
  BY <1>1, <1>3, <1>4
     DEF LogProofs!Inv, LogProofs!TypeOK, LogProofs!Contiguous, LogProofs!Bounded
<1>6. \A j \in DOMAIN entries' : Old(j)
  BY <1>3, <1>4 DEF Old
<1> QED  BY <1>3, <1>5, <1>6 DEF StoreInv

\* Clear leaves no entry.
LEMMA ClearEffect ==
  ASSUME StoreInv, Log!Clear
  PROVE  StoreInv' /\ nextID' = nextID /\ DOMAIN entries' = {}
<1>1. LogProofs!Clear /\ entries' = <<>> /\ nextID' = nextID
  BY DEF Log!Clear, LogProofs!Clear
<1>2. LogProofs!Inv'
  BY <1>1, LogAssumption, LogProofs!ClearStep DEF StoreInv
<1>3. Len(entries') = 0 /\ DOMAIN entries' = {} /\ 0 <= nextID
  <2>1. nextID \in Nat
    BY LogAssumption, LogProofs!Numbered DEF StoreInv
  <2> QED  BY <1>1, <2>1
<1> QED  BY <1>1, <1>2, <1>3 DEF StoreInv

-----------------------------------------------------------------------------
(***************************************************************************)
(* The invariant of the list.                                              *)
(***************************************************************************)

\* A task that is told nothing, and what a task can show, are of their types.
LEMMA TaskTypes ==
  /\ Nothing \in TaskState /\ Once(Nothing.items)
  /\ NoSelection \in Selection /\ EmptyPane \in Pane /\ Failed \in Pane
  /\ \A id \in 0..MaxID : \A says \in {"empty", "failed", "open", "done"} :
       Shows(id, says) \in Pane
<1>1. 0 \in 0..MaxID
  BY RequestListAssumption
<1>2. /\ NoSelection \in Selection /\ EmptyPane \in Pane /\ Failed \in Pane
      /\ \A id \in 0..MaxID : \A says \in {"empty", "failed", "open", "done"} :
           Shows(id, says) \in Pane
  BY <1>1 DEF NoSelection, Selection, Filter, EmptyPane, Failed, Shows, Pane
<1>3. <<>> \in Seq(Row)
  OBVIOUS
<1>4. Nothing \in TaskState
  BY <1>1, <1>2, <1>3 DEF Nothing, TaskState, Filter
<1> QED  BY <1>2, <1>4 DEF Nothing, Once

\* A step that leaves the server alone.
LEMMA ServerStays == ServerInv /\ UNCHANGED server => ServerInv'
BY DEF server, ServerInv, StoreInv, LogProofs!Inv, LogProofs!TypeOK,
       LogProofs!Contiguous, LogProofs!Bounded

\* Steps of the server: entries keep their tags, and a route that has been up
\* has been.
LEMMA ServerStep ==
  ASSUME ServerInv,
         \/ \E r \in Route : \/ nextID < MaxID /\ life[r] # "new" /\ Log!Add(r) /\ UNCHANGED life
                             \/ RouteChange(r)
         \/ \E id \in 1..MaxID : Log!UpdateProxy(id, "done") /\ UNCHANGED life
         \/ Log!Clear /\ UNCHANGED life
  PROVE  ServerInv'
<1>1. \A i \in DOMAIN entries : entries[i].tag \in Route
  BY Entries DEF ServerInv
<1>2. ASSUME NEW r \in Route, nextID < MaxID, life[r] # "new", Log!Add(r), UNCHANGED life
      PROVE  ServerInv'
  <2>1. StoreInv' /\ \A j \in DOMAIN entries' : New(j, r) \/ Old(j)
    BY <1>2, AddEffect DEF ServerInv
  <2> QED  BY <1>2, <2>1 DEF ServerInv, New, Old
<1>3. ASSUME NEW r \in Route, RouteChange(r)
      PROVE  ServerInv'
  <2>1. /\ life' \in [Route -> {"new", "up", "gone"}]
        /\ \A x \in Route : life[x] # "new" => life'[x] # "new"
    BY <1>3 DEF RouteChange, ServerInv
  <2>2. StoreInv' /\ entries' = entries
    BY <1>3 DEF RouteChange, ServerInv, StoreInv, LogProofs!Inv, LogProofs!TypeOK,
                LogProofs!Contiguous, LogProofs!Bounded
  <2> QED  BY <1>1, <2>1, <2>2 DEF ServerInv
<1>4. ASSUME NEW id \in 1..MaxID, Log!UpdateProxy(id, "done"), UNCHANGED life
      PROVE  ServerInv'
  <2>1. StoreInv' /\ \A j \in DOMAIN entries' : Old(j)
    BY <1>4, AmendEffect DEF ServerInv
  <2> QED  BY <1>4, <2>1 DEF ServerInv, Old
<1>5. ASSUME Log!Clear, UNCHANGED life
      PROVE  ServerInv'
  <2>1. StoreInv' /\ DOMAIN entries' = {}
    BY <1>5, ClearEffect DEF ServerInv
  <2> QED  BY <1>5, <2>1 DEF ServerInv
<1> QED  BY <1>2, <1>3, <1>4, <1>5

\* Steps that leave the list, or the pane, alone.
LEMMA ListStays == ListOK /\ UNCHANGED list => ListOK'
BY DEF list, ListOK, ListConsistent, RowsPassFilter, PassesFilter, IdsOf, MaxOf

LEMMA PaneStays == PaneOK /\ UNCHANGED pane => PaneOK'
BY DEF pane, PaneOK

\* A step of one task.
LEMMA TasksStep ==
  ASSUME TasksOK, NEW t \in Task, NEW v \in TaskState, Once(v.items),
         task' = [task EXCEPT ![t] = v]
  PROVE  TasksOK' /\ task'[t] = v /\ \A u \in Task : u # t => task'[u] = task[u]
<1>1. /\ task' \in [Task -> TaskState] /\ task'[t] = v
      /\ \A u \in Task : u # t => task'[u] = task[u]
  BY DEF TasksOK
<1>2. \A u \in Task : Once(task'[u].items)
  BY <1>1 DEF TasksOK
<1> QED  BY <1>1, <1>2 DEF TasksOK

\* What the server answers to one task stays within its types.  In each lemma
\* v is what the task becomes.
LEMMA ServeListEffect ==
  ASSUME ListInv, NEW t \in Task, ServeList(t)
  PROVE  \E items \in Seq(Row) :
           /\ Once(items)
           /\ \A k \in DOMAIN items :
                \E i \in DOMAIN entries : /\ items[k].id = entries[i].id
                                          /\ items[k].route = entries[i].tag
                                          /\ entries[i].id > task[t].after
           /\ \A i \in DOMAIN entries :
                /\ entries[i].id > task[t].after
                /\ entries[i].tag \in Tags(task[t].filter)
                => entries[i].id \in IdsOf(items)
           /\ task' = [task EXCEPT ![t] =
                [task[t] EXCEPT !.pc = IF task[t].pc = "ask" THEN "listed" ELSE "relisted",
                                !.items = items]]
<1> DEFINE found == Log!ListAfter(task[t].after, Tags(task[t].filter))
           items == [i \in DOMAIN found |-> Item(found[i])]
<1>1. task' = [task EXCEPT ![t].pc = IF @ = "ask" THEN "listed" ELSE "relisted",
                           ![t].items = items]
  BY DEF ServeList
<1>2. StoreInv /\ task[t].after \in 0..MaxID
  BY DEF ListInv, ServerInv, TasksOK, TaskState
<1> HIDE DEF found
<1>3. /\ items \in Seq(Row) /\ Once(items)
      /\ \A k \in DOMAIN items :
           \E i \in DOMAIN entries : /\ items[k].id = entries[i].id
                                     /\ items[k].route = entries[i].tag
                                     /\ entries[i].id > task[t].after
      /\ \A i \in DOMAIN entries :
           /\ entries[i].id > task[t].after
           /\ entries[i].tag \in Tags(task[t].filter)
           => entries[i].id \in IdsOf(items)
  <2>1. PICK x : x = found
    OBVIOUS
  <2>2. PICK after \in 0..MaxID : after = task[t].after
    BY <1>2
  <2>3. PICK tags : tags = Tags(task[t].filter)
    OBVIOUS
  <2>4. x = Log!ListAfter(after, tags) /\ items = [i \in DOMAIN x |-> Item(x[i])]
    BY <2>1, <2>2, <2>3 DEF found
  <2> HIDE DEF items
  <2>5. /\ items \in Seq(Row) /\ Once(items)
        /\ \A k \in DOMAIN items :
             \E i \in DOMAIN entries : /\ items[k].id = entries[i].id
                                       /\ items[k].route = entries[i].tag
                                       /\ entries[i].id > after
        /\ \A i \in DOMAIN entries :
             entries[i].id > after /\ entries[i].tag \in tags => entries[i].id \in IdsOf(items)
    BY <1>2, <2>4, Polled
  <2> QED  BY <2>2, <2>3, <2>5
<1> HIDE DEF items
<1>4. task' = [task EXCEPT ![t] =
        [task[t] EXCEPT !.pc = IF task[t].pc = "ask" THEN "listed" ELSE "relisted",
                        !.items = items]]
  BY <1>1 DEF ListInv, TasksOK, TaskState
<1> QED  BY <1>3, <1>4

\* (filterActiveRoutes)
LEMMA ServeActiveEffect ==
  ASSUME ListInv, NEW t \in Task, ServeActive(t)
  PROVE  \E items \in Seq(Row) :
           /\ Once(items)
           /\ \A k \in DOMAIN items : \E i \in DOMAIN task[t].items : items[k] = task[t].items[i]
           /\ IdsOf(items) =
                {task[t].items[i].id : i \in {j \in DOMAIN task[t].items :
                                                life[task[t].items[j].route] = "up"}}
           /\ task' = [task EXCEPT ![t] =
                [task[t] EXCEPT !.pc = IF task[t].pc = "listed" THEN "answered" ELSE "reanswered",
                                !.items = items]]
<1> DEFINE s == task[t].items
           I == {i \in DOMAIN s : life[s[i].route] = "up"}
<1>1. task' = [task EXCEPT ![t] =
        [task[t] EXCEPT !.pc = IF task[t].pc = "listed" THEN "answered" ELSE "reanswered",
                        !.items = Sublist(s, I)]]
  BY DEF ServeActive, ListInv, TasksOK, TaskState
<1>2. s \in Seq(Row) /\ Once(s) /\ I \subseteq DOMAIN s
  BY DEF ListInv, TasksOK, TaskState
<1> HIDE DEF s, I
<1>3. /\ Sublist(s, I) \in Seq(Row) /\ Once(Sublist(s, I))
      /\ \A k \in DOMAIN Sublist(s, I) : \E i \in I : Sublist(s, I)[k] = s[i]
      /\ IdsOf(Sublist(s, I)) = {s[i].id : i \in I}
  BY <1>2, SublistItems
<1>4. \A k \in DOMAIN Sublist(s, I) : \E i \in DOMAIN s : Sublist(s, I)[k] = s[i]
  BY <1>2, <1>3
<1> QED  BY <1>1, <1>3, <1>4 DEF s, I

\* The other answers change no items.
LEMMA ServeOtherEffect ==
  ASSUME ListInv, NEW t \in Task,
         ServeClear(t) \/ ServeRoutes(t) \/ ServeGet(t) \/ ServeEntry(t)
  PROVE  /\ task[t].pc \in {"clear", "routes", "get", "found"}
         /\ \E v \in TaskState :
              /\ task' = [task EXCEPT ![t] = v]
              /\ v.pc \in {"cleared", "loaded", "found", "got"}
              /\ v.items = task[t].items /\ v.keep = task[t].keep
              /\ v.after = task[t].after /\ v.filter = task[t].filter
<1>1. task \in [Task -> TaskState] /\ task[t] \in TaskState
  BY DEF ListInv, TasksOK
<1>2. CASE ServeClear(t)
  <2> DEFINE v == [task[t] EXCEPT !.pc = "cleared"]
  <2>1. task' = [task EXCEPT ![t] = v] /\ task[t].pc = "clear"
    BY <1>2 DEF ServeClear
  <2>2. /\ v \in TaskState /\ v.pc = "cleared" /\ v.items = task[t].items
        /\ v.keep = task[t].keep /\ v.after = task[t].after /\ v.filter = task[t].filter
    BY <1>1 DEF TaskState
  <2> HIDE DEF v
  <2> QED  BY <2>1, <2>2
<1>3. CASE ServeRoutes(t)
  <2> DEFINE up == {r \in Route : life[r] = "up"}
             v == [task[t] EXCEPT !.pc = "loaded", !.routes = up]
  <2>1. task' = [task EXCEPT ![t] = v] /\ task[t].pc = "routes"
    BY <1>1, <1>3 DEF ServeRoutes
  <2>2. up \in SUBSET Route
    OBVIOUS
  <2> HIDE DEF up
  <2>3. /\ v \in TaskState /\ v.pc = "loaded" /\ v.items = task[t].items
        /\ v.keep = task[t].keep /\ v.after = task[t].after /\ v.filter = task[t].filter
    BY <1>1, <2>2 DEF TaskState
  <2> HIDE DEF v
  <2> QED  BY <2>1, <2>3
<1>4. CASE ServeGet(t) \/ ServeEntry(t)
  <2> DEFINE id == task[t].shown.id
             pc == IF ServeGet(t) THEN IF Listed(id) THEN "found" ELSE "got" ELSE "got"
             said == IF ServeGet(t)
                       THEN IF Listed(id) THEN Shows(id, Says(id)) ELSE Failed
                       ELSE IF Log!Held(id) THEN Shows(id, Says(id)) ELSE task[t].shown
             v == [task[t] EXCEPT !.pc = pc, !.shown = said]
  <2>1. /\ StoreInv /\ task[t].shown \in Pane /\ id \in 0..MaxID
    BY <1>1 DEF ListInv, ServerInv, TaskState, Pane
  <2>2. said \in Pane
    <3>1. /\ Listed(id) => Says(id) \in {"open", "done"}
          /\ Log!Held(id) => Says(id) \in {"open", "done"}
      BY <2>1, ListedEntry
    <3> QED  BY <2>1, <3>1, TaskTypes
  <2>3. task[t].pc \in {"get", "found"} /\ pc \in {"found", "got"}
    BY <1>4 DEF ServeGet, ServeEntry
  <2>4. task' = [task EXCEPT ![t] = v]
    <3>1. CASE ServeGet(t)
      <4>1. task' = [task EXCEPT
              ![t].pc = IF Listed(id) THEN "found" ELSE "got",
              ![t].shown = IF Listed(id) THEN Shows(id, Says(id)) ELSE Failed]
        BY <3>1 DEF ServeGet
      <4> QED  BY <1>1, <3>1, <4>1
    <3>2. CASE ServeEntry(t) /\ ~ServeGet(t)
      <4>1. task' = [task EXCEPT
              ![t].pc = "got",
              ![t].shown = IF Log!Held(id) THEN Shows(id, Says(id)) ELSE @]
        BY <3>2 DEF ServeEntry
      <4>2. task' = [task EXCEPT ![t] =
              [task[t] EXCEPT !.pc = "got",
                 !.shown = IF Log!Held(id) THEN Shows(id, Says(id)) ELSE task[t].shown]]
        BY <1>1, <4>1
      <4> QED  BY <3>2, <4>2
    <3> QED  BY <1>4, <3>1, <3>2
  <2> HIDE DEF said, pc, id
  <2>5. /\ v \in TaskState /\ v.pc = pc /\ v.items = task[t].items
        /\ v.keep = task[t].keep /\ v.after = task[t].after /\ v.filter = task[t].filter
    BY <1>1, <2>2, <2>3 DEF TaskState
  <2> HIDE DEF v
  <2> QED  BY <2>3, <2>4, <2>5
<1> QED  BY <1>2, <1>3, <1>4

\* The server's answers keep the invariant.
LEMMA ServeStep ==
  ASSUME ListInv, NEW t \in Task, Serve(t)
  PROVE  ListInv'
<1>1. ServerInv /\ ListOK /\ PaneOK /\ TasksOK /\ task[t] \in TaskState
  BY DEF ListInv, TasksOK
<1>2. UNCHANGED page
  BY DEF Serve, ServeList, ServeActive, ServeClear, ServeRoutes, ServeGet, ServeEntry
<1>3. ListOK' /\ PaneOK'
  BY <1>1, <1>2, ListStays, PaneStays DEF page
<1>4. ServerInv'
  <2>1. CASE ServeClear(t)
    BY <1>1, <2>1, ServerStep DEF ServeClear
  <2>2. CASE UNCHANGED server
    BY <1>1, <2>2, ServerStays
  <2> QED  BY <2>1, <2>2 DEF Serve, ServeList, ServeActive, ServeRoutes, ServeGet, ServeEntry
<1>5. TasksOK'
  <2>1. ASSUME NEW items \in Seq(Row), Once(items),
               NEW pc \in {"listed", "relisted", "answered", "reanswered"},
               task' = [task EXCEPT ![t] = [task[t] EXCEPT !.pc = pc, !.items = items]]
        PROVE  TasksOK'
    <3> DEFINE v == [task[t] EXCEPT !.pc = pc, !.items = items]
    <3>1. v \in TaskState /\ v.items = items
      BY <1>1 DEF TaskState
    <3> HIDE DEF v
    <3> QED  BY <1>1, <2>1, <3>1, TasksStep DEF v
  <2>2. CASE ServeList(t)
    <3>1. \E items \in Seq(Row) : \E pc \in {"listed", "relisted"} :
            /\ Once(items)
            /\ task' = [task EXCEPT ![t] = [task[t] EXCEPT !.pc = pc, !.items = items]]
      BY <2>2, ServeListEffect
    <3> QED  BY <2>1, <3>1
  <2>3. CASE ServeActive(t)
    <3>1. \E items \in Seq(Row) : \E pc \in {"answered", "reanswered"} :
            /\ Once(items)
            /\ task' = [task EXCEPT ![t] = [task[t] EXCEPT !.pc = pc, !.items = items]]
      BY <2>3, ServeActiveEffect
    <3> QED  BY <2>1, <3>1
  <2>4. CASE ServeClear(t) \/ ServeRoutes(t) \/ ServeGet(t) \/ ServeEntry(t)
    <3>1. PICK v \in TaskState : task' = [task EXCEPT ![t] = v] /\ v.items = task[t].items
      BY <2>4, ServeOtherEffect
    <3> QED  BY <1>1, <3>1, TasksStep DEF TasksOK
  <2> QED  BY <2>2, <2>3, <2>4 DEF Serve
<1> QED  BY <1>3, <1>4, <1>5 DEF ListInv

\* What a task becomes when it starts or ends.
LEMMA Starts ==
  /\ \A pc \in {"free", "clear", "routes"} :
       /\ [Nothing EXCEPT !.pc = pc] \in TaskState
       /\ [Nothing EXCEPT !.pc = pc].pc = pc
       /\ [Nothing EXCEPT !.pc = pc].items = <<>>
       /\ [Nothing EXCEPT !.pc = pc].filter = All
       /\ [Nothing EXCEPT !.pc = pc].after = 0
       /\ ~[Nothing EXCEPT !.pc = pc].keep
  /\ \A after \in 0..MaxID, f \in Filter :
       /\ Query(after, f) \in TaskState
       /\ Query(after, f).pc = "ask" /\ Query(after, f).items = <<>>
       /\ Query(after, f).after = after /\ Query(after, f).filter = f
       /\ ~Query(after, f).keep
  /\ \A id \in 0..MaxID :
       /\ Load(id) \in TaskState /\ Load(id).pc = "get" /\ Load(id).items = <<>>
       /\ Load(id).filter = All /\ Load(id).after = 0 /\ ~Load(id).keep
<1>1. Nothing \in TaskState
  BY TaskTypes
<1>2. ASSUME NEW pc \in {"free", "clear", "routes"}
      PROVE  /\ [Nothing EXCEPT !.pc = pc] \in TaskState
             /\ [Nothing EXCEPT !.pc = pc].pc = pc
             /\ [Nothing EXCEPT !.pc = pc].items = <<>>
             /\ [Nothing EXCEPT !.pc = pc].filter = All
             /\ [Nothing EXCEPT !.pc = pc].after = 0
             /\ ~[Nothing EXCEPT !.pc = pc].keep
  <2>1. [Nothing EXCEPT !.pc = pc] \in TaskState
    BY <1>1 DEF TaskState
  <2> QED  BY <2>1 DEF Nothing
<1>3. ASSUME NEW after \in 0..MaxID, NEW f \in Filter
      PROVE  /\ Query(after, f) \in TaskState
             /\ Query(after, f).pc = "ask" /\ Query(after, f).items = <<>>
             /\ Query(after, f).after = after /\ Query(after, f).filter = f
             /\ ~Query(after, f).keep
  <2>1. Query(after, f) \in TaskState
    BY <1>1 DEF Query, TaskState
  <2> QED  BY <2>1 DEF Query, Nothing
<1>4. ASSUME NEW id \in 0..MaxID
      PROVE  /\ Load(id) \in TaskState /\ Load(id).pc = "get" /\ Load(id).items = <<>>
             /\ Load(id).filter = All /\ Load(id).after = 0 /\ ~Load(id).keep
  <2>1. [EmptyPane EXCEPT !.id = id] \in Pane
    BY TaskTypes DEF Pane
  <2>2. Load(id) = [Nothing EXCEPT !.pc = "get", !.shown = [EmptyPane EXCEPT !.id = id]]
    BY DEF Load, Nothing
  <2>3. Load(id) \in TaskState
    BY <1>1, <2>1, <2>2 DEF TaskState
  <2> QED  BY <2>2, <2>3 DEF Nothing
<1> QED  BY <1>2, <1>3, <1>4

\* The empty sequence has no items.
LEMMA NoItems == <<>> \in Seq(Row) /\ Once(<<>>) /\ IdsOf(<<>>) = {}
BY DEF Once, IdsOf

\* The start of a chain.
LEMMA StartEffect ==
  ASSUME TasksOK, NEW t \in Task, NEW pc \in {"free", "clear", "routes"}, Start(t, pc)
  PROVE  /\ TasksOK' /\ task'[t].pc = pc /\ ~task'[t].keep
         /\ task'[t].items = <<>> /\ task'[t].after = 0 /\ task'[t].filter = All
         /\ \A u \in Task : u # t => task'[u] = task[u]
<1> DEFINE v == [Nothing EXCEPT !.pc = pc]
<1>1. task' = [task EXCEPT ![t] = v]
  BY DEF Start
<1>2. /\ v \in TaskState /\ v.pc = pc /\ v.items = <<>> /\ v.filter = All
      /\ v.after = 0 /\ ~v.keep
  BY Starts
<1> HIDE DEF v
<1> QED  BY <1>1, <1>2, NoItems, TasksStep

\* The end of a chain.
LEMMA EndEffect ==
  ASSUME TasksOK, PaneOK, NEW t \in Task, NEW ids, NEW shown \in Pane,
         End(t, ids), detail' = PaneAfter(t, ids, shown)
  PROVE  /\ TasksOK' /\ PaneOK' /\ task'[t].pc = "free" /\ ~task'[t].keep
         /\ task'[t].items = <<>> /\ task'[t].after = 0 /\ task'[t].filter = All
         /\ \A u \in Task : u # t => task'[u] = task[u]
         /\ selected' = IF task[t].keep /\ selected.id \notin ids THEN NoSelection
                                                                 ELSE selected
<1>1. /\ TasksOK' /\ task'[t].pc = "free" /\ ~task'[t].keep
      /\ task'[t].items = <<>> /\ task'[t].after = 0 /\ task'[t].filter = All
      /\ \A u \in Task : u # t => task'[u] = task[u]
  BY StartEffect DEF End
<1>2. /\ selected' = IF task[t].keep /\ selected.id \notin ids THEN NoSelection
                                                              ELSE selected
      /\ detail' = IF task[t].keep /\ selected.id \notin ids THEN EmptyPane ELSE shown
  BY DEF End, PaneAfter
<1>3. PaneOK'
  BY <1>2, TaskTypes DEF PaneOK
<1> QED  BY <1>1, <1>2, <1>3

\* The list is empty, and is asked for from the start.
LEMMA ReloadEffect ==
  ASSUME ListInv, NEW t \in Task, NEW f \in Filter, NEW keep \in BOOLEAN, Reload(t, f, keep)
  PROVE  /\ ListOK' /\ PaneOK' /\ TasksOK'
         /\ knownIds' = {} /\ newestId' = 0 /\ filter' = f
         /\ selected' = IF keep THEN selected ELSE NoSelection
         /\ task'[t].pc = "ask" /\ task'[t].keep = keep /\ task'[t].items = <<>>
         /\ task'[t].after = 0 /\ task'[t].filter = f
         /\ \A u \in Task : u # t => task'[u] = task[u]
<1>1. /\ rows' = <<>> /\ newestId' = 0 /\ knownIds' = {} /\ filter' = f
      /\ IF keep THEN UNCHANGED pane ELSE ClearSelection
      /\ task' = [task EXCEPT ![t] = [Query(0, f) EXCEPT !.keep = keep]]
  BY DEF Reload, EmptyList
<1>2. MaxID \in Nat /\ 0 \in 0..MaxID
  BY RequestListAssumption
<1>3. ListOK'
  <2>1. DOMAIN rows' = {} /\ rows' \in Seq(Row) /\ IdsOf(rows') = {}
    BY <1>1, NoItems
  <2>2. MaxOf({}) = 0
    BY MaxOfIds
  <2> QED  BY <1>1, <1>2, <2>1, <2>2 DEF ListOK, ListConsistent, RowsPassFilter, IdsOf, MaxOf
<1>4. /\ PaneOK' /\ selected' = IF keep THEN selected ELSE NoSelection
  BY <1>1, TaskTypes DEF ListInv, PaneOK, pane, ClearSelection
<1> DEFINE v == [Query(0, f) EXCEPT !.keep = keep]
<1>5. /\ v \in TaskState /\ v.pc = "ask" /\ v.keep = keep /\ v.items = <<>>
      /\ v.after = 0 /\ v.filter = f
  <2>1. /\ Query(0, f) \in TaskState /\ Query(0, f).pc = "ask" /\ Query(0, f).items = <<>>
        /\ Query(0, f).after = 0 /\ Query(0, f).filter = f
    BY <1>2, Starts
  <2> QED  BY <2>1 DEF TaskState
<1>6. task' = [task EXCEPT ![t] = v]
  BY <1>1
<1> HIDE DEF v
<1>7. /\ TasksOK' /\ task'[t] = v /\ \A u \in Task : u # t => task'[u] = task[u]
  BY <1>5, <1>6, NoItems, TasksStep DEF ListInv
<1> QED  BY <1>1, <1>3, <1>4, <1>5, <1>7

\* The rows after the answer of a poll: those there were, and the ones of the
\* answer that the filter lets pass.
LEMMA ReceiveRows ==
  ASSUME ListOK, NEW items \in Seq(Row), Once(items),
         NEW shown, shown = IF newestId = 0 THEN Wanted(items) ELSE Prepended(items)
  PROVE  /\ shown \in Seq(Row) /\ Once(shown)
         /\ \A k \in DOMAIN shown : PassesFilter(shown[k].route)
         /\ IdsOf(shown) = knownIds \cup IdsOf(Wanted(items))
         /\ IdsOf(shown) \cup (IF newestId = 0 THEN {} ELSE knownIds) = IdsOf(shown)
         /\ MaxOf(IdsOf(shown) \cup {newestId}) = MaxOf(IdsOf(shown))
<1>1. /\ rows \in Seq(Row) /\ Once(rows) /\ knownIds = IdsOf(rows) /\ RowsPassFilter
      /\ newestId = MaxOf(knownIds) /\ knownIds \subseteq 1..MaxID
  BY DEF ListOK, ListConsistent, Once
<1>2. /\ Wanted(items) \in Seq(Row) /\ Once(Wanted(items))
      /\ \A k \in DOMAIN Wanted(items) : PassesFilter(Wanted(items)[k].route)
  BY WantedItems
<1>3. /\ Prepended(items) \in Seq(Row) /\ Once(Prepended(items))
      /\ IdsOf(Prepended(items)) = IdsOf(Wanted(items)) \cup knownIds
      /\ \A k \in DOMAIN Prepended(items) : PassesFilter(Prepended(items)[k].route)
  BY <1>1, PrependedItems
<1>4. MaxID \in Nat
  BY RequestListAssumption
<1>5. newestId = 0 => knownIds = {}
  <2>1. knownIds \subseteq 0..MaxID
    BY <1>1, <1>4
  <2>2. \A id \in knownIds : id <= newestId /\ id \in Nat /\ id >= 1
    BY <1>1, <1>4, <2>1, MaxOfIds
  <2> QED  BY <2>2
<1>6. /\ shown \in Seq(Row) /\ Once(shown)
      /\ \A k \in DOMAIN shown : PassesFilter(shown[k].route)
      /\ IdsOf(shown) = knownIds \cup IdsOf(Wanted(items))
  BY <1>2, <1>3, <1>5
<1>7. MaxOf(IdsOf(shown) \cup {newestId}) = MaxOf(IdsOf(shown))
  <2> DEFINE ids == IdsOf(shown)
             m == MaxOf(ids \cup {newestId})
  <2>1. /\ ids \subseteq 1..MaxID /\ ids \subseteq 0..MaxID /\ knownIds \subseteq ids
        /\ knownIds \subseteq 0..MaxID
    BY <1>1, <1>4, <1>6, ItemIds
  <2> HIDE DEF ids
  <2>2. newestId \in knownIds \cup {0} /\ newestId \in 0..MaxID
    BY <1>1, <2>1, MaxOfIds
  <2>3. ids \cup {newestId} \subseteq 0..MaxID /\ newestId \in ids \cup {0}
    BY <2>1, <2>2
  <2>4. m \in (ids \cup {newestId}) \cup {0} /\ \A id \in ids \cup {newestId} : id <= m
    BY <2>3, MaxOfIds
  <2>5. m \in ids \cup {0} /\ \A id \in ids : id <= m
    BY <2>3, <2>4
  <2> HIDE DEF m
  <2>6. m = MaxOf(ids)
    BY <2>1, <2>5, MaxOfIds
  <2> QED  BY <2>6 DEF ids, m
<1> QED  BY <1>5, <1>6, <1>7

\* The answer of a poll is shown.
LEMMA ReceiveEffect ==
  ASSUME ListInv, NEW t \in Task, Receive(t)
  PROVE  /\ ListOK' /\ PaneOK' /\ TasksOK'
         /\ knownIds' = knownIds \cup IdsOf(Wanted(task[t].items))
         /\ task'[t].items = <<>> /\ task'[t].after = 0
         /\ task'[t].filter \in {All, filter}
         /\ \A u \in Task : u # t => task'[u] = task[u]
         /\ \/ /\ task'[t].pc = "free" /\ ~task'[t].keep
               /\ selected' = IF task[t].keep /\ selected.id \notin knownIds'
                                THEN NoSelection ELSE selected
            \/ /\ task'[t].pc = "reask" /\ task'[t].keep = task[t].keep
               /\ selected' = selected
<1> DEFINE items == task[t].items
           shown == IF newestId = 0 THEN Wanted(items) ELSE Prepended(items)
           ids == IdsOf(shown)
<1>1. /\ items \in Seq(Row) /\ Once(items) /\ ListOK /\ PaneOK /\ TasksOK
      /\ task[t].keep \in BOOLEAN
  BY DEF ListInv, TasksOK, TaskState
<1>2. /\ rows' = shown
      /\ knownIds' = ids \cup (IF newestId = 0 THEN {} ELSE knownIds)
      /\ newestId' = MaxOf(ids \cup {newestId})
      /\ filter' = filter
      /\ \/ End(t, ids) /\ detail' = PaneAfter(t, ids, detail)
         \/ /\ task' = [task EXCEPT ![t] =
                  [Nothing EXCEPT !.pc = "reask", !.filter = filter,
                                  !.ids = OpenIds(shown), !.keep = task[t].keep]]
            /\ UNCHANGED pane
  BY DEF Receive
<1> HIDE DEF items
<1>3. /\ shown \in Seq(Row) /\ Once(shown)
      /\ \A k \in DOMAIN shown : PassesFilter(shown[k].route)
      /\ ids = knownIds \cup IdsOf(Wanted(items))
      /\ ids \cup (IF newestId = 0 THEN {} ELSE knownIds) = ids
      /\ MaxOf(ids \cup {newestId}) = MaxOf(ids)
  <2>1. PICK x : x = shown
    OBVIOUS
  <2>2. /\ x \in Seq(Row) /\ Once(x)
        /\ \A k \in DOMAIN x : PassesFilter(x[k].route)
        /\ IdsOf(x) = knownIds \cup IdsOf(Wanted(items))
        /\ IdsOf(x) \cup (IF newestId = 0 THEN {} ELSE knownIds) = IdsOf(x)
        /\ MaxOf(IdsOf(x) \cup {newestId}) = MaxOf(IdsOf(x))
    BY <1>1, <2>1, ReceiveRows
  <2> QED  BY <2>1, <2>2
<1> HIDE DEF shown
<1>4. /\ ids \in SUBSET (1..MaxID) /\ MaxOf(ids) \in 0..MaxID
  <2>1. ids \subseteq 1..MaxID /\ ids \subseteq 0..MaxID
    BY <1>3, ItemIds, RequestListAssumption
  <2> HIDE DEF ids
  <2> QED  BY <2>1, MaxOfIds
<1>5. rows' = shown /\ knownIds' = ids /\ newestId' = MaxOf(ids) /\ filter' = filter
  BY <1>2, <1>3
<1>6. ListOK'
  BY <1>1, <1>3, <1>4, <1>5
     DEF ListOK, ListConsistent, RowsPassFilter, PassesFilter, Once, IdsOf, MaxOf
<1>7. CASE End(t, ids) /\ detail' = PaneAfter(t, ids, detail)
  <2>1. detail \in Pane
    BY <1>1 DEF PaneOK
  <2> HIDE DEF ids
  <2> QED  BY <1>1, <1>3, <1>5, <1>6, <1>7, <2>1, EndEffect DEF items
<1>8. ASSUME task' = [task EXCEPT ![t] =
                  [Nothing EXCEPT !.pc = "reask", !.filter = filter,
                                  !.ids = OpenIds(shown), !.keep = task[t].keep]],
             UNCHANGED pane
      PROVE  /\ PaneOK' /\ TasksOK' /\ task'[t].pc = "reask" /\ task'[t].keep = task[t].keep
             /\ task'[t].items = <<>> /\ task'[t].after = 0 /\ task'[t].filter = filter
             /\ \A u \in Task : u # t => task'[u] = task[u]
             /\ selected' = selected
  <2> DEFINE v == [Nothing EXCEPT !.pc = "reask", !.filter = filter,
                                  !.ids = OpenIds(shown), !.keep = task[t].keep]
  <2>1. OpenIds(shown) \in SUBSET (1..MaxID)
    BY <1>3, ItemIds DEF OpenIds
  <2>2. v \in TaskState
    BY <1>1, <2>1, TaskTypes DEF TaskState, ListOK
  <2>3. /\ v.pc = "reask" /\ v.keep = task[t].keep /\ v.items = <<>> /\ v.after = 0
        /\ v.filter = filter
    BY DEF Nothing
  <2>4. task' = [task EXCEPT ![t] = v]
    BY <1>8
  <2> HIDE DEF v
  <2>5. /\ TasksOK' /\ task'[t] = v /\ \A u \in Task : u # t => task'[u] = task[u]
    BY <1>1, <2>2, <2>3, <2>4, NoItems, TasksStep
  <2> QED  BY <1>1, <1>8, <2>3, <2>5, PaneStays DEF pane
<1> QED  BY <1>2, <1>3, <1>5, <1>6, <1>7, <1>8 DEF items

\* The rows are updated with what was asked for again, one after the other.
LEMMA WalkEffect ==
  ASSUME ListInv, NEW t \in Task, NEW items \in Seq(Row), Once(items), NEW shown \in Pane,
         Walk(t, items, shown), UNCHANGED <<knownIds, newestId, filter>>
  PROVE  /\ ListOK' /\ PaneOK' /\ TasksOK'
         /\ \A u \in Task : u # t => task'[u] = task[u]
         /\ \/ /\ task'[t].pc = "free" /\ ~task'[t].keep
               /\ task'[t].items = <<>> /\ task'[t].after = 0 /\ task'[t].filter = All
               /\ selected' = IF task[t].keep /\ selected.id \notin knownIds
                                THEN NoSelection ELSE selected
            \/ /\ task'[t].pc = "get" /\ task'[t].keep = task[t].keep
               /\ \A k \in DOMAIN task'[t].items :
                    \E j \in DOMAIN items : task'[t].items[k] = items[j]
               /\ task'[t].after = task[t].after /\ task'[t].filter = task[t].filter
               /\ selected' = selected
<1>1. ListOK /\ PaneOK /\ TasksOK /\ task[t] \in TaskState
  BY DEF ListInv, TasksOK
<1>2. rows \in Seq(Row) /\ Once(rows) /\ knownIds = IdsOf(rows)
  BY <1>1 DEF ListOK, ListConsistent, Once
<1>3. ASSUME NEW some, rows' = Update(rows, some, task[t].ids)
      PROVE  ListOK'
  <2>1. /\ rows' \in Seq(Row) /\ DOMAIN rows' = DOMAIN rows
        /\ \A i \in DOMAIN rows : rows'[i].id = rows[i].id /\ rows'[i].route = rows[i].route
        /\ IdsOf(rows') = IdsOf(rows)
    BY <1>2, <1>3, UpdateItems
  <2>2. (IdsOf(rows))' = IdsOf(rows) /\ (MaxOf(IdsOf(rows)))' = MaxOf(IdsOf(rows))
    BY <2>1 DEF IdsOf, MaxOf
  <2>3. ListConsistent'
    BY <1>1, <2>1, <2>2 DEF ListOK, ListConsistent
  <2>4. RowsPassFilter'
    BY <1>1, <2>1 DEF ListOK, RowsPassFilter, PassesFilter
  <2> QED  BY <1>1, <2>1, <2>3, <2>4 DEF ListOK
<1> DEFINE Awaited == {i \in DOMAIN items : /\ items[i].id \in task[t].ids
                                           /\ items[i].id = selected.id
                                           /\ ~items[i].open}
<1>4. CASE Awaited = {}
  <2>1. /\ rows' = Update(rows, items, task[t].ids)
        /\ End(t, knownIds) /\ detail' = PaneAfter(t, knownIds, shown)
    BY <1>2, <1>4 DEF Walk
  <2>2. ListOK'
    BY <1>3, <2>1
  <2> QED  BY <1>1, <2>1, <2>2, EndEffect
<1>5. CASE Awaited # {}
  <2> DEFINE i == CHOOSE i \in Awaited : TRUE
             rest == SubSeq(items, i + 1, Len(items))
             says == Shows(items[i].id, "open")
             v == [task[t] EXCEPT !.pc = "get", !.items = rest, !.shown = says]
  <2>1. /\ rows' = Update(rows, SubSeq(items, 1, i), task[t].ids)
        /\ task' = [task EXCEPT ![t].pc = "get", ![t].items = rest, ![t].shown = says]
        /\ detail' = shown /\ selected' = selected
    BY <1>5 DEF Walk
  <2>2. i \in DOMAIN items
    BY <1>5
  <2>4. says \in Pane
    BY <2>2, ItemIds, TaskTypes, RequestListAssumption
  <2>5. ListOK' /\ PaneOK'
    BY <1>1, <1>3, <2>1 DEF PaneOK
  <2> HIDE DEF Awaited, i, says
  <2>6. /\ rest \in Seq(Row) /\ Once(rest)
        /\ \A k \in DOMAIN rest : \E j \in DOMAIN items : rest[k] = items[j]
    BY <2>2, RestItems
  <2> HIDE DEF rest
  <2>3. task' = [task EXCEPT ![t] = v]
    <3>1. task \in [Task -> TaskState]
      BY <1>1 DEF TasksOK
    <3>2. task' = [task EXCEPT ![t].pc = "get", ![t].items = rest, ![t].shown = says]
      BY <2>1
    <3> QED  BY <3>1, <3>2
  <2>7. /\ v \in TaskState /\ v.pc = "get" /\ v.items = rest /\ v.keep = task[t].keep
        /\ v.after = task[t].after /\ v.filter = task[t].filter
    BY <1>1, <2>4, <2>6 DEF TaskState
  <2> HIDE DEF v
  <2>8. /\ TasksOK' /\ task'[t] = v /\ \A u \in Task : u # t => task'[u] = task[u]
    BY <1>1, <2>3, <2>6, <2>7, TasksStep
  <2>9. /\ task'[t].pc = "get" /\ task'[t].keep = task[t].keep
        /\ \A k \in DOMAIN task'[t].items :
             \E j \in DOMAIN items : task'[t].items[k] = items[j]
        /\ task'[t].after = task[t].after /\ task'[t].filter = task[t].filter
    BY <2>6, <2>7, <2>8
  <2> QED  BY <2>1, <2>5, <2>8, <2>9
<1> QED  BY <1>4, <1>5

\* The end of a refresh, of a load of the detail, and of a fetch that fails:
\* the chain ends or goes on to a load of the detail.
LEMMA ChainEffect ==
  ASSUME ListInv, NEW t \in Task, Refresh(t) \/ LoadDetail(t) \/ Fail(t)
  PROVE  /\ ListOK' /\ PaneOK' /\ TasksOK'
         /\ UNCHANGED <<server, knownIds, newestId, filter>>
         /\ \A u \in Task : u # t => task'[u] = task[u]
         /\ \/ /\ task'[t].pc = "free" /\ ~task'[t].keep
               /\ task'[t].items = <<>> /\ task'[t].after = 0 /\ task'[t].filter = All
               /\ selected' = IF task[t].keep /\ selected.id \notin knownIds
                                THEN NoSelection ELSE selected
            \/ /\ task'[t].pc = "get" /\ task'[t].keep = task[t].keep
               /\ \A k \in DOMAIN task'[t].items :
                    \E j \in DOMAIN task[t].items : task'[t].items[k] = task[t].items[j]
               /\ task'[t].after = task[t].after /\ task'[t].filter = task[t].filter
               /\ selected' = selected
<1>1. /\ task[t].items \in Seq(Row) /\ Once(task[t].items) /\ task[t].shown \in Pane
      /\ ListOK /\ PaneOK /\ TasksOK /\ detail \in Pane
  BY DEF ListInv, TasksOK, TaskState, PaneOK
<1>2. UNCHANGED <<server, knownIds, newestId, filter>>
  BY DEF Refresh, LoadDetail, Fail
<1>3. \/ \E shown \in Pane : Walk(t, task[t].items, shown)
      \/ End(t, IdsOf(rows)) /\ detail' = PaneAfter(t, IdsOf(rows), detail) /\ UNCHANGED rows
  BY <1>1, TaskTypes DEF Refresh, LoadDetail, Fail
<1>4. CASE \E shown \in Pane : Walk(t, task[t].items, shown)
  <2>1. PICK shown \in Pane : Walk(t, task[t].items, shown)
    BY <1>4
  <2>2. PICK items \in Seq(Row) : items = task[t].items
    BY <1>1
  <2> QED  BY <1>1, <1>2, <2>1, <2>2, WalkEffect
<1>5. CASE End(t, IdsOf(rows)) /\ detail' = PaneAfter(t, IdsOf(rows), detail) /\ UNCHANGED rows
  <2>1. ListOK'
    BY <1>1, <1>2, <1>5, ListStays DEF list
  <2>2. IdsOf(rows) = knownIds
    BY <1>1 DEF ListOK, ListConsistent
  <2> QED  BY <1>1, <1>2, <1>5, <2>1, <2>2, EndEffect
<1> QED  BY <1>3, <1>4, <1>5

\* What the timer and the user start, and what they leave alone.
LEMMA StartingEffect ==
  ASSUME ListInv, NEW t \in Task, Tick(t) \/ PressClear(t) \/ LoadRoutes(t) \/ Click(t)
  PROVE  /\ ListOK' /\ PaneOK' /\ TasksOK' /\ UNCHANGED <<server, list>>
         /\ task[t].pc = "free" /\ ~task'[t].keep
         /\ task'[t].items = <<>>
         /\ \A u \in Task : u # t => task'[u] = task[u]
         /\ \/ /\ Tick(t) /\ selected' = selected
               /\ task'[t].pc = "ask" /\ task'[t].after = newestId /\ task'[t].filter = filter
            \/ /\ task'[t].pc \in {"clear", "routes"} /\ selected' = selected
               /\ task'[t].after = 0 /\ task'[t].filter = All
            \/ /\ task'[t].pc = "get" /\ task'[t].after = 0 /\ task'[t].filter = All
               /\ \E i \in DOMAIN rows :
                    selected' = [id |-> rows[i].id, route |-> rows[i].route]
<1>1. ListOK /\ PaneOK /\ TasksOK
  BY DEF ListInv
<1>2. UNCHANGED <<server, list>> /\ task[t].pc = "free"
  BY DEF Tick, PressClear, LoadRoutes, Click, page
<1>3. ListOK'
  BY <1>1, <1>2, ListStays
<1>4. CASE Tick(t)
  <2> DEFINE v == Query(newestId, filter)
  <2>1. task' = [task EXCEPT ![t] = v] /\ UNCHANGED pane
    BY <1>4 DEF Tick, page
  <2>2. /\ v \in TaskState /\ v.pc = "ask" /\ v.items = <<>>
        /\ v.after = newestId /\ v.filter = filter /\ ~v.keep
    BY <1>1, Starts DEF ListOK
  <2> HIDE DEF v
  <2>3. /\ TasksOK' /\ task'[t] = v /\ \A u \in Task : u # t => task'[u] = task[u]
    BY <1>1, <2>1, <2>2, NoItems, TasksStep
  <2>4. PaneOK' /\ selected' = selected
    BY <1>1, <2>1, PaneStays DEF pane
  <2> QED  BY <1>2, <1>3, <1>4, <2>2, <2>3, <2>4
<1>5. CASE PressClear(t) \/ LoadRoutes(t)
  <2>1. PICK pc \in {"clear", "routes"} : Start(t, pc) /\ UNCHANGED pane
    BY <1>5 DEF PressClear, LoadRoutes, page
  <2>2. /\ TasksOK' /\ task'[t].pc = pc /\ ~task'[t].keep
        /\ task'[t].items = <<>> /\ task'[t].after = 0 /\ task'[t].filter = All
        /\ \A u \in Task : u # t => task'[u] = task[u]
    BY <1>1, <2>1, StartEffect
  <2>3. PaneOK' /\ selected' = selected
    BY <1>1, <2>1, PaneStays DEF pane
  <2> QED  BY <1>2, <1>3, <2>2, <2>3
<1>6. CASE Click(t)
  <2>1. PICK i \in DOMAIN rows :
          /\ selected' = [id |-> rows[i].id, route |-> rows[i].route]
          /\ task' = [task EXCEPT ![t] = Load(rows[i].id)]
    BY <1>6 DEF Click
  <2>2. /\ rows \in Seq(Row) /\ rows[i].id \in 0..MaxID /\ rows[i].route \in Route
    BY <1>1, ItemIds, RequestListAssumption DEF ListOK
  <2> DEFINE v == Load(rows[i].id)
  <2>3. /\ v \in TaskState /\ v.pc = "get" /\ v.items = <<>>
        /\ v.after = 0 /\ v.filter = All /\ ~v.keep
    BY <2>2, Starts
  <2>4. task' = [task EXCEPT ![t] = v]
    BY <2>1
  <2> HIDE DEF v
  <2>5. /\ TasksOK' /\ task'[t] = v /\ \A u \in Task : u # t => task'[u] = task[u]
    BY <1>1, <2>3, <2>4, NoItems, TasksStep
  <2>6. detail' = detail
    BY <1>6 DEF Click
  <2>7. PaneOK'
    BY <1>1, <2>1, <2>2, <2>6 DEF PaneOK, Selection, Filter
  <2> QED  BY <1>2, <1>3, <2>1, <2>3, <2>5, <2>7
<1> QED  BY <1>4, <1>5, <1>6

\* What empties the list and asks for it again.  A selection is kept only if
\* the filter that is set lets it pass.
LEMMA ReloadingEffect ==
  ASSUME ListInv, NEW t \in Task, PickFilter(t) \/ Cleared(t) \/ RoutesLoaded(t)
  PROVE  /\ UNCHANGED server
         /\ \E f \in Filter : \E keep \in BOOLEAN :
              /\ Reload(t, f, keep)
              /\ keep => SelectionMatches(f)
              /\ PickFilter(t) \/ f \in {All, filter}
<1>1. filter \in Filter /\ All \in Filter /\ \A r \in Route : r \in Filter
  BY DEF ListInv, ListOK, Filter
<1>2. \A f : SelectionMatches(f) \in BOOLEAN
  BY DEF SelectionMatches
<1>3. CASE PickFilter(t)
  BY <1>1, <1>2, <1>3 DEF PickFilter
<1>4. CASE Cleared(t)
  BY <1>1, <1>4 DEF Cleared
<1>5. CASE RoutesLoaded(t)
  BY <1>1, <1>2, <1>5 DEF RoutesLoaded
<1> QED  BY <1>3, <1>4, <1>5

\* The page starts with no list, and nothing under way.
LEMMA InitListInv == Init => ListInv
<1> SUFFICES ASSUME Init
             PROVE  ListInv
  OBVIOUS
<1>1. LogProofs!Init
  BY DEF Init, Log!Init, LogProofs!Init
<1>2. LogProofs!Inv
  BY <1>1, LogAssumption, LogProofs!InitInv
<1>3. entries = <<>> /\ nextID = 0 /\ Len(entries) = 0 /\ DOMAIN entries = {}
  BY DEF Init, Log!Init
<1>4. MaxID \in Nat /\ 0 \in 0..MaxID
  BY RequestListAssumption
<1>5. ServerInv
  BY <1>2, <1>3, <1>4 DEF Init, ServerInv, StoreInv
<1>6. MaxOf({}) = 0
  BY MaxOfIds
<1>7. ListOK
  <2>1. rows = <<>> /\ knownIds = {} /\ newestId = 0 /\ filter = All
    BY DEF Init
  <2>2. rows \in Seq(Row) /\ DOMAIN rows = {} /\ IdsOf(rows) = {}
    BY <2>1, NoItems
  <2>3. ListConsistent /\ RowsPassFilter
    BY <1>6, <2>1, <2>2 DEF ListConsistent, RowsPassFilter
  <2> QED  BY <1>4, <2>1, <2>2, <2>3 DEF ListOK, Filter
<1>8. PaneOK /\ TasksOK
  BY TaskTypes DEF Init, PaneOK, TasksOK
<1> QED  BY <1>5, <1>7, <1>8 DEF ListInv

\* Every step keeps the invariant of the list.
LEMMA NextListInv == ListInv /\ [Next]_vars => ListInv'
<1> SUFFICES ASSUME ListInv, [Next]_vars
             PROVE  ListInv'
  OBVIOUS
<1>1. ServerInv /\ ListOK /\ PaneOK /\ TasksOK
  BY DEF ListInv
<1>2. CASE UNCHANGED vars
  <2>1. UNCHANGED server /\ UNCHANGED list /\ UNCHANGED pane /\ UNCHANGED task
    BY <1>2 DEF vars, page
  <2>2. ServerInv' /\ ListOK' /\ PaneOK'
    BY <1>1, <2>1, ServerStays, ListStays, PaneStays
  <2>3. TasksOK'
    BY <1>1, <2>1 DEF TasksOK
  <2> QED  BY <2>2, <2>3 DEF ListInv
<1>3. ASSUME \/ \E r \in Route : Record(r) \/ RouteChange(r)
             \/ \E id \in 1..MaxID : Close(id)
      PROVE  ListInv'
  <2>1. ServerInv'
    BY <1>1, <1>3, ServerStep DEF Record, Close
  <2>2. UNCHANGED list /\ UNCHANGED pane /\ UNCHANGED task
    BY <1>3 DEF Record, Close, RouteChange, page
  <2>3. ListOK' /\ PaneOK'
    BY <1>1, <2>2, ListStays, PaneStays
  <2>4. TasksOK'
    BY <1>1, <2>2 DEF TasksOK
  <2> QED  BY <2>1, <2>3, <2>4 DEF ListInv
<1>4. ASSUME NEW t \in Task, Tick(t) \/ Gesture(t) \/ Serve(t) \/ Deliver(t) \/ Fail(t)
      PROVE  ListInv'
  <2>1. CASE Serve(t)
    BY <2>1, ServeStep
  <2>2. CASE Tick(t) \/ PressClear(t) \/ LoadRoutes(t) \/ Click(t)
    BY <1>1, <2>2, StartingEffect, ServerStays DEF ListInv
  <2>3. CASE PickFilter(t) \/ Cleared(t) \/ RoutesLoaded(t)
    <3>1. /\ UNCHANGED server
          /\ \E f \in Filter : \E keep \in BOOLEAN : Reload(t, f, keep)
      BY <2>3, ReloadingEffect
    <3> QED  BY <1>1, <3>1, ReloadEffect, ServerStays DEF ListInv
  <2>4. CASE Receive(t)
    <3>1. UNCHANGED server
      BY <2>4 DEF Receive
    <3> QED  BY <1>1, <2>4, <3>1, ReceiveEffect, ServerStays DEF ListInv
  <2>5. CASE Refresh(t) \/ LoadDetail(t) \/ Fail(t)
    BY <1>1, <2>5, ChainEffect, ServerStays DEF ListInv
  <2> QED  BY <1>4, <2>1, <2>2, <2>3, <2>4, <2>5 DEF Gesture, Deliver
<1> QED  BY <1>2, <1>3, <1>4 DEF Next

\* The server, the page and what is under way have their types.
THEOREM ListTypeCorrect == Spec => []TypeOK
<1> QED  BY InitListInv, NextListInv, ListTyped, PTL DEF Spec

\* However polls, clears and reloads overlap, with any number of them and
\* whichever fail, a request has one row and the next poll asks for what comes
\* after the newest of them (poll, prependRequests, resetRequestList).
THEOREM RowsAgree == Spec => []ListConsistent
<1>1. ListInv => ListConsistent
  BY DEF ListInv, ListOK
<1> QED  BY <1>1, InitListInv, NextListInv, PTL DEF Spec

\* An answer to a poll with an earlier filter shows nothing the filter leaves
\* out (passesFilter).
THEOREM RowsFiltered == Spec => []RowsPassFilter
<1>1. ListInv => RowsPassFilter
  BY DEF ListInv, ListOK
<1> QED  BY <1>1, InitListInv, NextListInv, PTL DEF Spec

-----------------------------------------------------------------------------
(***************************************************************************)
(* The selection.                                                          *)
(***************************************************************************)

\* A chain that has ended keeps nothing: whoever keeps the selection will
\* still look for its row.
SelectionInv ==
  /\ \A t \in Task : task[t].pc = "free" => ~task[t].keep
  /\ SelectionListed

\* A step of one task that leaves the selection, the filter and the ids.
LEMMA SelectionStays ==
  ASSUME SelectionInv, NEW t \in Task, UNCHANGED <<selected, filter>>,
         knownIds \subseteq knownIds',
         \A u \in Task : u # t => task'[u] = task[u],
         task[t].keep => task'[t].keep \/ selected.id \in knownIds',
         task'[t].pc = "free" => ~task'[t].keep
  PROVE  SelectionInv'
BY DEF SelectionInv, SelectionListed, PassesFilter

\* The end of a chain drops the selection, or it has a row, or another keeps it.
LEMMA SelectionDropped ==
  ASSUME SelectionInv, NEW t \in Task, UNCHANGED filter,
         knownIds \subseteq knownIds',
         \A u \in Task : u # t => task'[u] = task[u],
         ~task'[t].keep,
         selected' = IF task[t].keep /\ selected.id \notin knownIds' THEN NoSelection
                                                                  ELSE selected
  PROVE  SelectionInv'
<1>1. CASE task[t].keep /\ selected.id \notin knownIds'
  BY <1>1 DEF SelectionInv, SelectionListed
<1>2. CASE ~(task[t].keep /\ selected.id \notin knownIds')
  <2>1. UNCHANGED selected
    BY <1>2
  <2> QED  BY <1>2, <2>1, SelectionStays
<1> QED  BY <1>1, <1>2

\* Every step keeps what is said of the selection.
LEMMA NextSelection == ListInv /\ SelectionInv /\ [Next]_vars => SelectionInv'
<1> SUFFICES ASSUME ListInv, SelectionInv, [Next]_vars
             PROVE  SelectionInv'
  OBVIOUS
<1>1. ListOK /\ TasksOK
  BY DEF ListInv
<1>2. CASE UNCHANGED <<page, task>>
  BY <1>2 DEF page, list, pane, SelectionInv, SelectionListed, PassesFilter
<1>3. ASSUME NEW t \in Task, Serve(t)
      PROVE  SelectionInv'
  <2>1. UNCHANGED <<selected, filter, knownIds>>
    BY <1>3 DEF Serve, ServeList, ServeActive, ServeClear, ServeRoutes, ServeGet,
                ServeEntry, page, list, pane
  <2>2. \E v \in TaskState :
          /\ task' = [task EXCEPT ![t] = v] /\ v.keep = task[t].keep /\ v.pc # "free"
    <3>1. task[t] \in TaskState
      BY <1>1 DEF TasksOK
    <3>2. ASSUME NEW items \in Seq(Row),
                 NEW pc \in {"listed", "relisted", "answered", "reanswered"},
                 task' = [task EXCEPT ![t] = [task[t] EXCEPT !.pc = pc, !.items = items]]
          PROVE  \E v \in TaskState : /\ task' = [task EXCEPT ![t] = v]
                                      /\ v.keep = task[t].keep /\ v.pc # "free"
      <4> DEFINE v == [task[t] EXCEPT !.pc = pc, !.items = items]
      <4>1. v \in TaskState /\ v.keep = task[t].keep /\ v.pc # "free"
        BY <3>1 DEF TaskState
      <4> HIDE DEF v
      <4> QED  BY <3>2, <4>1 DEF v
    <3>3. CASE ServeList(t)
      <4>1. \E items \in Seq(Row) : \E pc \in {"listed", "relisted"} :
              task' = [task EXCEPT ![t] = [task[t] EXCEPT !.pc = pc, !.items = items]]
        BY <3>3, ServeListEffect
      <4> QED  BY <3>2, <4>1
    <3>4. CASE ServeActive(t)
      <4>1. \E items \in Seq(Row) : \E pc \in {"answered", "reanswered"} :
              task' = [task EXCEPT ![t] = [task[t] EXCEPT !.pc = pc, !.items = items]]
        BY <3>4, ServeActiveEffect
      <4> QED  BY <3>2, <4>1
    <3>5. CASE ServeClear(t) \/ ServeRoutes(t) \/ ServeGet(t) \/ ServeEntry(t)
      BY <3>5, ServeOtherEffect
    <3> QED  BY <1>3, <3>3, <3>4, <3>5 DEF Serve
  <2>3. /\ task'[t].keep = task[t].keep /\ task'[t].pc # "free"
        /\ \A u \in Task : u # t => task'[u] = task[u]
    BY <1>1, <2>2 DEF TasksOK
  <2> QED  BY <2>1, <2>3, SelectionStays
<1>4. ASSUME NEW t \in Task, Tick(t) \/ PressClear(t) \/ LoadRoutes(t) \/ Click(t)
      PROVE  SelectionInv'
  <2>1. /\ UNCHANGED <<rows, knownIds, filter>> /\ task[t].pc = "free" /\ ~task'[t].keep
        /\ \A u \in Task : u # t => task'[u] = task[u]
        /\ \/ selected' = selected
           \/ \E i \in DOMAIN rows :
                selected' = [id |-> rows[i].id, route |-> rows[i].route]
    BY <1>4, StartingEffect DEF list
  <2>2. ~task[t].keep
    BY <2>1 DEF SelectionInv
  <2>3. CASE selected' = selected
    BY <2>1, <2>2, <2>3, SelectionStays
  <2>4. ASSUME NEW i \in DOMAIN rows,
               selected' = [id |-> rows[i].id, route |-> rows[i].route]
        PROVE  SelectionInv'
    <3>1. rows[i].id \in knownIds /\ PassesFilter(rows[i].route)
      BY <1>1 DEF ListOK, ListConsistent, RowsPassFilter, IdsOf
    <3>2. selected'.id = rows[i].id /\ selected'.route = rows[i].route
      BY <2>4
    <3> QED  BY <2>1, <3>1, <3>2 DEF SelectionInv, SelectionListed, PassesFilter
  <2> QED  BY <2>1, <2>3, <2>4
<1>5. ASSUME NEW t \in Task, PickFilter(t) \/ Cleared(t) \/ RoutesLoaded(t)
      PROVE  SelectionInv'
  <2>1. PICK f \in Filter, keep \in BOOLEAN : Reload(t, f, keep) /\ (keep => SelectionMatches(f))
    BY <1>5, ReloadingEffect
  <2>2. /\ filter' = f /\ selected' = IF keep THEN selected ELSE NoSelection
        /\ task'[t].pc = "ask" /\ task'[t].keep = keep
        /\ \A u \in Task : u # t => task'[u] = task[u]
    BY <2>1, ReloadEffect
  <2>3. keep => f = All \/ selected.route = f
    BY <2>1 DEF SelectionMatches
  <2> QED  BY <2>2, <2>3 DEF SelectionInv, SelectionListed, PassesFilter
<1>6. ASSUME NEW t \in Task, Receive(t)
      PROVE  SelectionInv'
  <2>1. filter' = filter
    BY <1>6 DEF Receive
  <2>2. /\ knownIds \subseteq knownIds'
        /\ \A u \in Task : u # t => task'[u] = task[u]
        /\ \/ /\ task'[t].pc = "free" /\ ~task'[t].keep
              /\ selected' = IF task[t].keep /\ selected.id \notin knownIds'
                               THEN NoSelection ELSE selected
           \/ /\ task'[t].pc = "reask" /\ task'[t].keep = task[t].keep
              /\ selected' = selected
    BY <1>6, ReceiveEffect
  <2> QED  BY <2>1, <2>2, SelectionStays, SelectionDropped
<1>7. ASSUME NEW t \in Task, Refresh(t) \/ LoadDetail(t) \/ Fail(t)
      PROVE  SelectionInv'
  <2>1. /\ UNCHANGED <<knownIds, filter>>
        /\ \A u \in Task : u # t => task'[u] = task[u]
        /\ \/ /\ task'[t].pc = "free" /\ ~task'[t].keep
              /\ selected' = IF task[t].keep /\ selected.id \notin knownIds
                               THEN NoSelection ELSE selected
           \/ /\ task'[t].pc = "get" /\ task'[t].keep = task[t].keep
              /\ selected' = selected
    BY <1>7, ChainEffect
  <2> QED  BY <2>1, SelectionStays, SelectionDropped
<1> QED  BY <1>2, <1>3, <1>4, <1>5, <1>6, <1>7
         DEF Next, vars, Record, Close, RouteChange, Gesture, Deliver

\* With any number of reloads, polls, clicks and failures in between, what is
\* selected has a row or a reload is under way that will look for it, and the
\* filter lets it pass (selectionMatchesFilter, reloadRequests, clearRequests).
THEOREM SelectionHasRow == Spec => []SelectionListed
<1>1. Init => SelectionInv
  BY DEF Init, SelectionInv, SelectionListed, Nothing
<1>2. SelectionInv => SelectionListed
  BY DEF SelectionInv
<1> QED  BY <1>1, <1>2, InitListInv, NextListInv, NextSelection, PTL DEF Spec

-----------------------------------------------------------------------------
(***************************************************************************)
(* No request is missed.                                                   *)
(***************************************************************************)

\* The user leaves the filter alone, and no fetch fails: a listing that is
\* lost leaves what it would have brought behind newestId.
FilterLeftAlone == "filter" \notin Gestures
NoLoss == ~Lossy

\* What is asked for, and what is answered, is of requests that were recorded,
\* with their routes.
Answers ==
  /\ filter = All /\ newestId <= nextID
  /\ \A t \in Task :
       /\ task[t].filter = All /\ task[t].after <= nextID
       /\ \A i \in DOMAIN task[t].items :
            /\ task[t].items[i].id <= nextID
            /\ \A j \in DOMAIN entries :
                 entries[j].id = task[t].items[i].id => entries[j].tag = task[t].items[i].route

Polling(t) == task[t].pc \in {"ask", "listed", "answered"}

\* The answer of a poll will have the request, if it is still there.
Covers(t, id) == task[t].pc = "ask" \/ id \in IdsOf(task[t].items)

\* A poll from now on, or one that is under way, does not ask for the request.
Overtaken(id) ==
  id <= newestId \/ \E t \in Task : Polling(t) /\ id <= task[t].after

\* The answer of a poll has all there is between what it was asked from and
\* the newest request it has.
NoGaps ==
  \A t \in Task : task[t].pc \in {"listed", "answered"} =>
    \A id \in 1..MaxID :
      /\ Listed(id) /\ id > task[t].after
      /\ \E i \in DOMAIN task[t].items : id <= task[t].items[i].id
      => id \in IdsOf(task[t].items)

\* What is missing and no longer asked for is in the answer of a listing.
NothingLost ==
  \A id \in 1..MaxID :
    Listed(id) /\ id \notin knownIds /\ Overtaken(id) =>
      \E t \in Task : Listing(t) /\ Covers(t, id)

MissedInv == Answers /\ NoGaps /\ NothingLost

\* Numbers of the list are numbers.
LEMMA ListNumbers ==
  ASSUME ListInv
  PROVE  /\ MaxID \in Nat /\ nextID \in Nat /\ newestId \in Nat
         /\ knownIds \subseteq 1..MaxID /\ newestId \in knownIds \cup {0}
         /\ \A id \in knownIds : id <= newestId
         /\ \A t \in Task : /\ task[t].after \in Nat /\ task[t].items \in Seq(Row)
                            /\ \A i \in DOMAIN task[t].items : task[t].items[i].id \in 1..MaxID
<1>1. MaxID \in Nat
  BY RequestListAssumption
<1>2. nextID \in Nat
  BY <1>1, Entries DEF ListInv, ServerInv
<1>3. /\ newestId \in Nat /\ knownIds \subseteq 1..MaxID /\ newestId \in knownIds \cup {0}
      /\ \A id \in knownIds : id <= newestId
  <2>1. knownIds \subseteq 1..MaxID /\ newestId = MaxOf(knownIds) /\ newestId \in 0..MaxID
    BY DEF ListInv, ListOK, ListConsistent
  <2>2. knownIds \subseteq 0..MaxID
    BY <1>1, <2>1
  <2>3. /\ MaxOf(knownIds) \in knownIds \cup {0}
        /\ \A id \in knownIds : id <= MaxOf(knownIds)
    BY <2>2, MaxOfIds
  <2>4. newestId \in Nat
    BY <1>1, <2>1
  <2> QED  BY <2>1, <2>3, <2>4
<1>4. \A t \in Task : /\ task[t].after \in Nat /\ task[t].items \in Seq(Row)
  BY <1>1 DEF ListInv, TasksOK, TaskState
<1> QED  BY <1>1, <1>2, <1>3, <1>4, ItemIds

\* A step of the server that is no answer: what is listed afterwards was
\* listed before, or is newer than anything that was asked for.
LEMMA ServerMisses ==
  ASSUME ListInv, MissedInv, ListInv', UNCHANGED <<page, task>>,
         nextID <= nextID',
         \A j \in DOMAIN entries' : Old(j) \/ entries'[j].id = nextID + 1,
         \A id \in 1..MaxID : Listed(id)' => Listed(id) \/ id = nextID + 1
  PROVE  MissedInv'
<1>1. UNCHANGED <<filter, newestId, knownIds, task>>
  BY DEF page, list
<1>2. /\ MaxID \in Nat /\ nextID \in Nat /\ nextID' \in Nat /\ newestId \in Nat
      /\ \A t \in Task : /\ task[t].after \in Nat
                         /\ \A i \in DOMAIN task[t].items : task[t].items[i].id \in Nat
  <2>1. nextID' \in Nat
    BY DEF ListInv, ServerInv, StoreInv, LogProofs!Inv, LogProofs!TypeOK
  <2> QED  BY <2>1, ListNumbers
<1>3. Answers'
  <2>1. /\ newestId <= nextID'
        /\ \A t \in Task : /\ task[t].after <= nextID'
                           /\ \A i \in DOMAIN task[t].items : task[t].items[i].id <= nextID'
    BY <1>2 DEF MissedInv, Answers
  <2>2. ASSUME NEW t \in Task, NEW i \in DOMAIN task[t].items, NEW j \in DOMAIN entries',
               entries'[j].id = task[t].items[i].id
        PROVE  entries'[j].tag = task[t].items[i].route
    <3>1. task[t].items[i].id <= nextID
      BY DEF MissedInv, Answers
    <3>2. Old(j)
      BY <1>2, <2>2, <3>1
    <3> QED  BY <2>2, <3>2 DEF Old, MissedInv, Answers
  <2> QED  BY <1>1, <2>1, <2>2 DEF MissedInv, Answers
<1>4. NoGaps'
  <2> SUFFICES ASSUME NEW t \in Task, task[t].pc \in {"listed", "answered"},
                      NEW id \in 1..MaxID, Listed(id)', id > task[t].after,
                      NEW i \in DOMAIN task[t].items, id <= task[t].items[i].id
               PROVE  id \in IdsOf(task[t].items)
    BY <1>1 DEF NoGaps, IdsOf
  <2>1. task[t].items[i].id <= nextID
    BY DEF MissedInv, Answers
  <2>2. id # nextID + 1
    BY <1>2, <2>1
  <2>3. Listed(id)
    BY <2>2
  <2> QED  BY <2>3 DEF MissedInv, NoGaps
<1>5. NothingLost'
  <2> SUFFICES ASSUME NEW id \in 1..MaxID, Listed(id)', id \notin knownIds, Overtaken(id)
               PROVE  \E t \in Task : Listing(t) /\ Covers(t, id)
    BY <1>1 DEF NothingLost, Overtaken, Polling, Listing, Covers, IdsOf
  <2>1. id <= nextID
    BY <1>2 DEF Overtaken, MissedInv, Answers
  <2>2. Listed(id)
    BY <1>2, <2>1
  <2> QED  BY <2>2 DEF MissedInv, NothingLost
<1> QED  BY <1>3, <1>4, <1>5 DEF MissedInv

\* What a request says, and whether it is listed, is up to the server.
LEMMA ListedStays == UNCHANGED server => \A id : Listed(id)' = Listed(id)
BY DEF server, Listed, Log!Held, Log!Position

\* A step of one task keeps what is said of answers.
LEMMA AnswersStep ==
  ASSUME Answers, NEW t \in Task, UNCHANGED <<entries, nextID>>,
         filter' = All, newestId' <= nextID,
         \A u \in Task : u # t => task'[u] = task[u],
         task'[t].filter = All, task'[t].after <= nextID,
         \A k \in DOMAIN task'[t].items :
           \/ \E i \in DOMAIN task[t].items : task'[t].items[k] = task[t].items[i]
           \/ /\ task'[t].items[k].id <= nextID
              /\ \A j \in DOMAIN entries :
                   entries[j].id = task'[t].items[k].id =>
                     entries[j].tag = task'[t].items[k].route
  PROVE  Answers'
<1>1. ASSUME NEW k \in DOMAIN task'[t].items
      PROVE  /\ task'[t].items[k].id <= nextID
             /\ \A j \in DOMAIN entries :
                  entries[j].id = task'[t].items[k].id =>
                    entries[j].tag = task'[t].items[k].route
  BY DEF Answers
<1>2. \A u \in Task :
        /\ task'[u].filter = All /\ task'[u].after <= nextID
        /\ \A i \in DOMAIN task'[u].items :
             /\ task'[u].items[i].id <= nextID
             /\ \A j \in DOMAIN entries :
                  entries[j].id = task'[u].items[i].id => entries[j].tag = task'[u].items[i].route
  BY <1>1 DEF Answers
<1> QED  BY <1>2 DEF Answers

\* A task that does not poll, before or after the step, is not asked.
LEMMA AsideMisses ==
  ASSUME NoGaps, NothingLost, NEW t \in Task, UNCHANGED <<server, knownIds, newestId>>,
         \A u \in Task : u # t => task'[u] = task[u],
         ~Polling(t), task'[t].pc \notin {"ask", "listed", "answered"}
  PROVE  NoGaps' /\ NothingLost'
<1>1. \A id : Listed(id)' = Listed(id)
  BY ListedStays
<1>2. NoGaps'
  <2> SUFFICES ASSUME NEW u \in Task, task'[u].pc \in {"listed", "answered"},
                      NEW id \in 1..MaxID, Listed(id)', id > task'[u].after,
                      NEW i \in DOMAIN task'[u].items, id <= task'[u].items[i].id
               PROVE  id \in IdsOf(task'[u].items)
    BY DEF NoGaps, IdsOf
  <2>1. u # t
    OBVIOUS
  <2> QED  BY <1>1, <2>1 DEF NoGaps
<1>3. NothingLost'
  <2> SUFFICES ASSUME NEW id \in 1..MaxID, Listed(id)', id \notin knownIds, Overtaken(id)'
               PROVE  \E u \in Task : Listing(u)' /\ Covers(u, id)'
    BY DEF NothingLost
  <2>1. Overtaken(id)
    BY DEF Overtaken, Polling
  <2>2. PICK u \in Task : Listing(u) /\ Covers(u, id)
    BY <1>1, <2>1 DEF NothingLost
  <2>3. u # t
    BY <2>2 DEF Listing, Polling
  <2> QED  BY <2>2, <2>3 DEF Listing, Covers, IdsOf
<1> QED  BY <1>2, <1>3

\* What is listed, in terms of the entries.
ListedKnown ==
  \A id : Listed(id) <=> \E i \in DOMAIN entries :
                           entries[i].id = id /\ life[entries[i].tag] = "up"

LEMMA KnowsListed == ListInv => ListedKnown
BY ListedEntry DEF ListInv, ServerInv, ListedKnown

\* Requests come and end, and routes come and go.
LEMMA ServerKeepsMissed ==
  ASSUME ListInv, MissedInv, ListInv', ListedKnown',
         \/ \E r \in Route : Record(r) \/ RouteChange(r)
         \/ \E id \in 1..MaxID : Close(id)
  PROVE  MissedInv'
<1>1. /\ ServerInv /\ StoreInv /\ nextID \in Nat
      /\ \A i \in DOMAIN entries : entries[i].tag \in Route
  BY ListNumbers, Entries DEF ListInv, ServerInv
<1>2. UNCHANGED <<page, task>>
  BY DEF Record, RouteChange, Close
<1>3. \A id : Listed(id) <=> \E i \in DOMAIN entries :
                               entries[i].id = id /\ life[entries[i].tag] = "up"
  BY <1>1, ListedEntry
<1>4. \A id : Listed(id)' => \E j \in DOMAIN entries' :
                               entries'[j].id = id /\ life'[entries'[j].tag] = "up"
  BY DEF ListedKnown
<1>5. CASE \E r \in Route : Record(r)
  <2>1. PICK r \in Route : Record(r)
    BY <1>5
  <2>2. /\ nextID' = nextID + 1 /\ life' = life
        /\ \A j \in DOMAIN entries' : New(j, r) \/ Old(j)
    BY <1>1, <2>1, AddEffect DEF Record
  <2>3. \A id \in 1..MaxID : Listed(id)' => Listed(id) \/ id = nextID + 1
    BY <1>3, <1>4, <2>2 DEF New, Old
  <2>4. nextID <= nextID' /\ \A j \in DOMAIN entries' : Old(j) \/ entries'[j].id = nextID + 1
    BY <1>1, <2>2 DEF New
  <2> QED  BY <1>2, <2>3, <2>4, ServerMisses
<1>6. CASE \E r \in Route : RouteChange(r)
  <2>1. PICK r \in Route : RouteChange(r)
    BY <1>6
  <2>2. /\ nextID' = nextID /\ entries' = entries
        /\ life' = [life EXCEPT ![r] = IF @ = "new" THEN "up" ELSE "gone"]
    BY <2>1 DEF RouteChange
  <2>3. \A i \in DOMAIN entries : life'[entries[i].tag] = "up" => life[entries[i].tag] = "up"
    BY <1>1, <2>2 DEF ServerInv
  <2>4. \A id \in 1..MaxID : Listed(id)' => Listed(id)
    BY <1>3, <1>4, <2>2, <2>3
  <2>5. nextID <= nextID' /\ \A j \in DOMAIN entries' : Old(j)
    BY <1>1, <2>2 DEF Old
  <2> QED  BY <1>2, <2>4, <2>5, ServerMisses
<1>7. CASE \E id \in 1..MaxID : Close(id)
  <2>1. PICK e \in 1..MaxID : Close(e)
    BY <1>7
  <2>2. nextID' = nextID /\ life' = life /\ \A j \in DOMAIN entries' : Old(j)
    BY <1>1, <2>1, AmendEffect DEF Close
  <2>3. \A id \in 1..MaxID : Listed(id)' => Listed(id)
    BY <1>3, <1>4, <2>2 DEF Old
  <2>4. nextID <= nextID'
    BY <1>1, <2>2
  <2> QED  BY <1>2, <2>2, <2>3, <2>4, ServerMisses
<1> QED  BY <1>5, <1>6, <1>7

\* The store answers a poll: everything after what was asked from is there.
LEMMA ListKeepsMissed ==
  ASSUME ListInv, MissedInv, NEW t \in Task, ServeList(t)
  PROVE  MissedInv'
<1> DEFINE pc == IF task[t].pc = "ask" THEN "listed" ELSE "relisted"
<1>1. /\ StoreInv /\ TasksOK /\ task[t] \in TaskState
      /\ task[t].pc \in {"ask", "reask"} /\ task[t].filter = All /\ task[t].after <= nextID
  BY DEF ListInv, ServerInv, TasksOK, ServeList, MissedInv, Answers
<1>2. UNCHANGED <<server, knownIds, newestId, filter>>
  BY DEF ServeList, page, list
<1>3. PICK items \in Seq(Row) :
        /\ \A k \in DOMAIN items :
             \E i \in DOMAIN entries : /\ items[k].id = entries[i].id
                                       /\ items[k].route = entries[i].tag
                                       /\ entries[i].id > task[t].after
        /\ \A i \in DOMAIN entries :
             entries[i].id > task[t].after /\ entries[i].tag \in Route => entries[i].id \in IdsOf(items)
        /\ task' = [task EXCEPT ![t] = [task[t] EXCEPT !.pc = pc, !.items = items]]
  <2>1. Tags(task[t].filter) = Route
    BY <1>1 DEF Tags
  <2> QED  BY <2>1, ServeListEffect
<1>4. /\ task'[t].pc = pc /\ task'[t].items = items
      /\ task'[t].after = task[t].after /\ task'[t].filter = task[t].filter
      /\ \A u \in Task : u # t => task'[u] = task[u]
  <2> HIDE DEF pc
  <2> DEFINE v == [task[t] EXCEPT !.pc = pc, !.items = items]
  <2>1. v.pc = pc /\ v.items = items /\ v.after = task[t].after /\ v.filter = task[t].filter
    BY <1>1 DEF TaskState
  <2> HIDE DEF v
  <2>2. task'[t] = v /\ \A u \in Task : u # t => task'[u] = task[u]
    BY <1>1, <1>3 DEF TasksOK, v
  <2> QED  BY <2>1, <2>2
<1>5. /\ \A i \in DOMAIN entries : entries[i].id \in 1..nextID /\ entries[i].tag \in Route
      /\ \A i, j \in DOMAIN entries : entries[i].id = entries[j].id => i = j
      /\ nextID \in Nat /\ task[t].after \in Nat
  BY <1>1, Entries, ListNumbers
<1>6. \A id : Listed(id)' <=> Listed(id)
  BY <1>2, ListedStays
<1>7. \A id : Listed(id) /\ id > task[t].after => id \in IdsOf(items)
  BY <1>1, <1>3, <1>5, ListedEntry
<1>8. Answers'
  <2>1. ASSUME NEW k \in DOMAIN items
        PROVE  /\ items[k].id <= nextID
               /\ \A j \in DOMAIN entries :
                    entries[j].id = items[k].id => entries[j].tag = items[k].route
    BY <1>3, <1>5
  <2>2. /\ filter' = All /\ newestId' <= nextID /\ UNCHANGED <<entries, nextID>>
    BY <1>2 DEF MissedInv, Answers, server
  <2> QED  BY <1>1, <1>4, <2>1, <2>2, AnswersStep DEF MissedInv
<1>9. CASE task[t].pc = "reask"
  <2>1. NoGaps' /\ NothingLost'
    BY <1>2, <1>4, <1>9, AsideMisses DEF MissedInv, Polling
  <2> QED  BY <1>8, <2>1 DEF MissedInv
<1>10. CASE task[t].pc = "ask"
  <2>1. task'[t].pc = "listed"
    BY <1>4, <1>10
  <2>2. NoGaps'
    <3> SUFFICES ASSUME NEW u \in Task, task'[u].pc \in {"listed", "answered"},
                        NEW id \in 1..MaxID, Listed(id), id > task'[u].after,
                        NEW i \in DOMAIN task'[u].items, id <= task'[u].items[i].id
                 PROVE  id \in IdsOf(task'[u].items)
      BY <1>6 DEF NoGaps, IdsOf
    <3>1. CASE u = t
      BY <1>4, <1>7, <3>1
    <3>2. CASE u # t
      BY <1>4, <3>2 DEF MissedInv, NoGaps
    <3> QED  BY <3>1, <3>2
  <2>3. NothingLost'
    <3> SUFFICES ASSUME NEW id \in 1..MaxID, Listed(id), id \notin knownIds, Overtaken(id)'
                 PROVE  \E u \in Task : Listing(u)' /\ Covers(u, id)'
      BY <1>2, <1>6 DEF NothingLost
    <3>1. Overtaken(id)
      BY <1>2, <1>4, <1>10 DEF Overtaken, Polling
    <3>2. PICK u \in Task : Listing(u) /\ Covers(u, id)
      BY <3>1 DEF MissedInv, NothingLost
    <3>3. CASE u = t
      <4>1. task[t].after = 0 /\ id > 0
        BY <3>2, <3>3, ListNumbers DEF Listing
      <4>2. Listing(t)' /\ Covers(t, id)'
        BY <1>4, <1>7, <2>1, <4>1 DEF Listing, Covers, IdsOf
      <4> QED  BY <4>2
    <3>4. CASE u # t
      BY <1>4, <3>2, <3>4 DEF Listing, Covers, IdsOf
    <3> QED  BY <3>3, <3>4
  <2> QED  BY <1>8, <2>2, <2>3 DEF MissedInv
<1> QED  BY <1>1, <1>9, <1>10

\* The answer leaves out what has no route: nothing that is listed.
LEMMA ActiveKeepsMissed ==
  ASSUME ListInv, MissedInv, NEW t \in Task, ServeActive(t)
  PROVE  MissedInv'
<1> DEFINE pc == IF task[t].pc = "listed" THEN "answered" ELSE "reanswered"
           s == task[t].items
<1>1. /\ StoreInv /\ TasksOK /\ task[t] \in TaskState
      /\ task[t].pc \in {"listed", "relisted"} /\ task[t].filter = All
      /\ task[t].after <= nextID
  BY DEF ListInv, ServerInv, TasksOK, ServeActive, MissedInv, Answers
<1>2. UNCHANGED <<server, knownIds, newestId, filter>>
  BY DEF ServeActive, page, list
<1>3. PICK items \in Seq(Row) :
        /\ \A k \in DOMAIN items : \E i \in DOMAIN s : items[k] = s[i]
        /\ IdsOf(items) = {s[i].id : i \in {j \in DOMAIN s : life[s[j].route] = "up"}}
        /\ task' = [task EXCEPT ![t] = [task[t] EXCEPT !.pc = pc, !.items = items]]
  BY ServeActiveEffect
<1>4. /\ task'[t].pc = pc /\ task'[t].items = items
      /\ task'[t].after = task[t].after /\ task'[t].filter = task[t].filter
      /\ \A u \in Task : u # t => task'[u] = task[u]
  <2> HIDE DEF pc
  <2> DEFINE v == [task[t] EXCEPT !.pc = pc, !.items = items]
  <2>1. v.pc = pc /\ v.items = items /\ v.after = task[t].after /\ v.filter = task[t].filter
    BY <1>1 DEF TaskState
  <2> HIDE DEF v
  <2>2. task'[t] = v /\ \A u \in Task : u # t => task'[u] = task[u]
    BY <1>1, <1>3 DEF TasksOK, v
  <2> QED  BY <2>1, <2>2
<1>5. \A id : Listed(id)' <=> Listed(id)
  BY <1>2, ListedStays
<1>6. ASSUME NEW id, Listed(id), id \in IdsOf(s)
      PROVE  id \in IdsOf(items)
  <2>1. PICK i \in DOMAIN s : s[i].id = id
    BY <1>6 DEF IdsOf
  <2>2. PICK j \in DOMAIN entries : entries[j].id = id /\ life[entries[j].tag] = "up"
    BY <1>1, <1>6, ListedEntry
  <2>3. entries[j].tag = s[i].route
    BY <2>1, <2>2 DEF MissedInv, Answers
  <2> QED  BY <1>3, <2>1, <2>2, <2>3
<1>7. Answers'
  <2>1. /\ filter' = All /\ newestId' <= nextID /\ UNCHANGED <<entries, nextID>>
    BY <1>2 DEF MissedInv, Answers, server
  <2> QED  BY <1>1, <1>3, <1>4, <2>1, AnswersStep DEF MissedInv
<1>8. CASE task[t].pc = "relisted"
  <2>1. NoGaps' /\ NothingLost'
    BY <1>2, <1>4, <1>8, AsideMisses DEF MissedInv, Polling
  <2> QED  BY <1>7, <2>1 DEF MissedInv
<1>9. CASE task[t].pc = "listed"
  <2>1. task'[t].pc = "answered"
    BY <1>4, <1>9
  <2>2. NoGaps'
    <3> SUFFICES ASSUME NEW u \in Task, task'[u].pc \in {"listed", "answered"},
                        NEW id \in 1..MaxID, Listed(id), id > task'[u].after,
                        NEW i \in DOMAIN task'[u].items, id <= task'[u].items[i].id
                 PROVE  id \in IdsOf(task'[u].items)
      BY <1>5 DEF NoGaps, IdsOf
    <3>1. CASE u = t
      <4>1. PICK j \in DOMAIN s : items[i] = s[j]
        BY <1>3, <1>4, <3>1
      <4>2. id > task[t].after /\ id <= s[j].id
        BY <1>4, <3>1, <4>1
      <4>3. id \in IdsOf(s)
        BY <1>9, <4>2 DEF MissedInv, NoGaps
      <4> QED  BY <1>4, <1>6, <3>1, <4>3
    <3>2. CASE u # t
      BY <1>4, <3>2 DEF MissedInv, NoGaps
    <3> QED  BY <3>1, <3>2
  <2>3. NothingLost'
    <3> SUFFICES ASSUME NEW id \in 1..MaxID, Listed(id), id \notin knownIds, Overtaken(id)'
                 PROVE  \E u \in Task : Listing(u)' /\ Covers(u, id)'
      BY <1>2, <1>5 DEF NothingLost
    <3>1. Overtaken(id)
      BY <1>2, <1>4, <1>9 DEF Overtaken, Polling
    <3>2. PICK u \in Task : Listing(u) /\ Covers(u, id)
      BY <3>1 DEF MissedInv, NothingLost
    <3>3. CASE u = t
      <4>1. id \in IdsOf(s) /\ task[t].after = 0
        BY <1>9, <3>2, <3>3 DEF Covers, Listing
      <4>2. Listing(t)' /\ Covers(t, id)'
        BY <1>4, <1>6, <2>1, <4>1 DEF Listing, Covers, IdsOf
      <4> QED  BY <4>2
    <3>4. CASE u # t
      BY <1>4, <3>2, <3>4 DEF Listing, Covers, IdsOf
    <3> QED  BY <3>3, <3>4
  <2> QED  BY <1>7, <2>2, <2>3 DEF MissedInv
<1> QED  BY <1>1, <1>8, <1>9

\* The answer of a poll is shown: what newestId overtakes is in the list.
LEMMA ReceiveKeepsMissed ==
  ASSUME ListInv, MissedInv, ListInv', NEW t \in Task, Receive(t)
  PROVE  MissedInv'
<1> DEFINE items == task[t].items
<1>1. /\ items \in Seq(Row) /\ Once(items) /\ filter = All /\ newestId <= nextID
      /\ task[t].pc = "answered"
  BY DEF ListInv, TasksOK, TaskState, MissedInv, Answers, Receive
<1>2. UNCHANGED <<server, filter>>
  BY DEF Receive
<1>3. /\ knownIds' = knownIds \cup IdsOf(items)
      /\ task'[t].items = <<>> /\ task'[t].after = 0 /\ task'[t].filter = All
      /\ \A u \in Task : u # t => task'[u] = task[u]
      /\ task'[t].pc \in {"free", "reask"}
  <2>1. Wanted(items) = items
    BY <1>1, WantedItems
  <2>2. /\ knownIds' = knownIds \cup IdsOf(Wanted(items))
        /\ task'[t].items = <<>> /\ task'[t].after = 0 /\ task'[t].filter \in {All, filter}
        /\ \A u \in Task : u # t => task'[u] = task[u]
        /\ task'[t].pc \in {"free", "reask"}
    BY ReceiveEffect
  <2> QED  BY <1>1, <2>1, <2>2
<1>4. /\ MaxID \in Nat /\ nextID \in Nat /\ newestId \in Nat
      /\ knownIds \subseteq 1..MaxID
      /\ \A id \in knownIds : id \in Nat /\ id <= newestId
      /\ task[t].after \in Nat
      /\ \A i \in DOMAIN items : items[i].id \in 1..MaxID /\ items[i].id <= nextID
  BY ListNumbers DEF MissedInv, Answers
<1>5. newestId' \in knownIds' \cup {0}
  <2>1. /\ knownIds' \subseteq 0..MaxID /\ newestId' = MaxOf(knownIds')
    BY <1>4 DEF ListInv, ListOK, ListConsistent, MaxOf, IdsOf
  <2> QED  BY <2>1, MaxOfIds
<1> HIDE DEF items
<1>6. \A id : Listed(id)' <=> Listed(id)
  BY <1>2, ListedStays
<1>7. Answers'
  <2>1. newestId' <= nextID
    <3>1. ASSUME newestId' \in IdsOf(items)
          PROVE  newestId' <= nextID
      BY <1>4, <3>1 DEF IdsOf
    <3>2. ASSUME newestId' \in knownIds
          PROVE  newestId' <= nextID
      <4>1. newestId' <= newestId /\ newestId' \in Nat
        BY <1>4, <3>2
      <4> QED  BY <1>1, <1>4, <4>1
    <3>3. 0 <= nextID
      BY <1>4
    <3> QED  BY <1>3, <1>5, <3>1, <3>2, <3>3
  <2>2. /\ filter' = All /\ UNCHANGED <<entries, nextID>> /\ 0 <= nextID
    BY <1>1, <1>2, <1>4 DEF server
  <2>3. DOMAIN task'[t].items = {}
    BY <1>3
  <2> QED  BY <1>3, <2>1, <2>2, <2>3, AnswersStep DEF MissedInv
<1>8. NoGaps'
  <2> SUFFICES ASSUME NEW u \in Task, task'[u].pc \in {"listed", "answered"},
                      NEW id \in 1..MaxID, Listed(id), id > task'[u].after,
                      NEW i \in DOMAIN task'[u].items, id <= task'[u].items[i].id
               PROVE  id \in IdsOf(task'[u].items)
    BY <1>6 DEF NoGaps, IdsOf
  <2>1. u # t
    BY <1>3
  <2> QED  BY <1>3, <2>1 DEF MissedInv, NoGaps
<1>9. NothingLost'
  <2> SUFFICES ASSUME NEW id \in 1..MaxID, Listed(id), id \notin knownIds', Overtaken(id)'
               PROVE  \E u \in Task : Listing(u)' /\ Covers(u, id)'
    BY <1>6 DEF NothingLost
  <2>1. id \notin knownIds /\ id \notin IdsOf(items) /\ id \in Nat /\ id >= 1
    BY <1>3, <1>4
  <2>2. CASE Overtaken(id)
    <3>1. PICK u \in Task : Listing(u) /\ Covers(u, id)
      BY <2>1, <2>2 DEF MissedInv, NothingLost
    <3>2. u # t
      BY <1>1, <2>1, <3>1 DEF Covers, items
    <3> QED  BY <1>3, <3>1, <3>2 DEF Listing, Covers, IdsOf
  <2>3. CASE ~Overtaken(id)
    <3>1. id <= newestId'
      <4> SUFFICES ASSUME NEW u \in Task, Polling(u)', id <= task'[u].after
                   PROVE  FALSE
        BY DEF Overtaken
      <4>1. u # t
        BY <1>3 DEF Polling
      <4> QED  BY <1>3, <2>3, <4>1 DEF Overtaken, Polling
    <3>2. ~(id <= newestId) /\ ~(id <= task[t].after)
      BY <1>1, <2>3 DEF Overtaken, Polling
    <3>3. newestId' \notin knownIds /\ newestId' # 0
      <4>1. ASSUME newestId' \in knownIds
            PROVE  FALSE
        <5>1. newestId' <= newestId /\ newestId' \in Nat
          BY <1>4, <4>1
        <5> QED  BY <1>4, <2>1, <3>1, <3>2, <5>1
      <4>2. newestId' # 0
        BY <2>1, <3>1
      <4> QED  BY <4>1, <4>2
    <3>4. PICK i \in DOMAIN items : newestId' = items[i].id
      BY <1>3, <1>5, <3>3 DEF IdsOf
    <3>5. id > task[t].after /\ id <= items[i].id
      BY <1>4, <2>1, <3>1, <3>2, <3>4
    <3>6. id \in IdsOf(items)
      BY <1>1, <3>5 DEF MissedInv, NoGaps, items
    <3> QED  BY <2>1, <3>6
  <2> QED  BY <2>2, <2>3
<1> QED  BY <1>7, <1>8, <1>9 DEF MissedInv

\* A new poll asks from the newest request that is known.
LEMMA TickKeepsMissed ==
  ASSUME ListInv, MissedInv, NEW t \in Task,
         Tick(t) \/ PressClear(t) \/ LoadRoutes(t) \/ Click(t)
  PROVE  MissedInv'
<1>1. /\ UNCHANGED <<server, list>> /\ task[t].pc = "free" /\ task'[t].items = <<>>
      /\ \A u \in Task : u # t => task'[u] = task[u]
      /\ \/ /\ task'[t].pc = "ask" /\ task'[t].after = newestId /\ task'[t].filter = filter
         \/ /\ task'[t].pc \in {"clear", "routes", "get"}
            /\ task'[t].after = 0 /\ task'[t].filter = All
  BY StartingEffect
<1>2. UNCHANGED <<rows, knownIds, newestId, filter, entries, nextID>>
  BY <1>1 DEF list, server
<1>3. filter = All /\ newestId <= nextID /\ 0 <= nextID
  BY ListNumbers DEF MissedInv, Answers
<1>4. DOMAIN task'[t].items = {}
  BY <1>1
<1>5. Answers'
  BY <1>1, <1>2, <1>3, <1>4, AnswersStep DEF MissedInv
<1>6. CASE task'[t].pc \in {"clear", "routes", "get"}
  <2>1. NoGaps' /\ NothingLost'
    BY <1>1, <1>2, <1>6, AsideMisses DEF MissedInv, Polling
  <2> QED  BY <1>5, <2>1 DEF MissedInv
<1>7. CASE task'[t].pc = "ask" /\ task'[t].after = newestId
  <2>1. \A id : Listed(id)' <=> Listed(id)
    BY <1>1, ListedStays
  <2>2. NoGaps'
    <3> SUFFICES ASSUME NEW u \in Task, task'[u].pc \in {"listed", "answered"},
                        NEW id \in 1..MaxID, Listed(id), id > task'[u].after,
                        NEW i \in DOMAIN task'[u].items, id <= task'[u].items[i].id
                 PROVE  id \in IdsOf(task'[u].items)
      BY <2>1 DEF NoGaps, IdsOf
    <3>1. u # t
      BY <1>7
    <3> QED  BY <1>1, <3>1 DEF MissedInv, NoGaps
  <2>3. NothingLost'
    <3> SUFFICES ASSUME NEW id \in 1..MaxID, Listed(id), id \notin knownIds, Overtaken(id)'
                 PROVE  \E u \in Task : Listing(u)' /\ Covers(u, id)'
      BY <1>2, <2>1 DEF NothingLost
    <3>1. Overtaken(id)
      BY <1>1, <1>2, <1>7 DEF Overtaken, Polling
    <3>2. PICK u \in Task : Listing(u) /\ Covers(u, id)
      BY <3>1 DEF MissedInv, NothingLost
    <3>3. u # t
      BY <1>1, <3>2 DEF Listing
    <3> QED  BY <1>1, <3>2, <3>3 DEF Listing, Covers, IdsOf
  <2> QED  BY <1>5, <2>2, <2>3 DEF MissedInv
<1> QED  BY <1>1, <1>6, <1>7

\* A reload asks for everything.
LEMMA ReloadKeepsMissed ==
  ASSUME ListInv, MissedInv, FilterLeftAlone, NEW t \in Task,
         PickFilter(t) \/ Cleared(t) \/ RoutesLoaded(t)
  PROVE  MissedInv'
<1>1. ~PickFilter(t)
  BY DEF PickFilter, FilterLeftAlone
<1>2. filter = All /\ 0 <= nextID
  BY ListNumbers DEF MissedInv, Answers
<1>3. PICK f \in Filter, keep \in BOOLEAN : Reload(t, f, keep) /\ f \in {All, filter}
  BY <1>1, ReloadingEffect
<1>4. UNCHANGED server
  BY ReloadingEffect
<1>5. /\ knownIds' = {} /\ newestId' = 0 /\ filter' = All
      /\ task'[t].pc = "ask" /\ task'[t].items = <<>> /\ task'[t].after = 0
      /\ task'[t].filter = All
      /\ \A u \in Task : u # t => task'[u] = task[u]
  BY <1>2, <1>3, ReloadEffect
<1>6. DOMAIN task'[t].items = {}
  BY <1>5
<1>7. Answers'
  BY <1>2, <1>4, <1>5, <1>6, AnswersStep DEF MissedInv, server
<1>8. \A id : Listed(id)' <=> Listed(id)
  BY <1>4, ListedStays
<1>9. NoGaps'
  <2> SUFFICES ASSUME NEW u \in Task, task'[u].pc \in {"listed", "answered"},
                      NEW id \in 1..MaxID, Listed(id), id > task'[u].after,
                      NEW i \in DOMAIN task'[u].items, id <= task'[u].items[i].id
               PROVE  id \in IdsOf(task'[u].items)
    BY <1>8 DEF NoGaps, IdsOf
  <2>1. u # t
    BY <1>5
  <2> QED  BY <1>5, <2>1 DEF MissedInv, NoGaps
<1>10. NothingLost'
  <2>1. Listing(t)' /\ \A id : Covers(t, id)'
    BY <1>5 DEF Listing, Covers
  <2> QED  BY <2>1 DEF NothingLost
<1> QED  BY <1>7, <1>9, <1>10 DEF MissedInv

\* What refreshes the rows or loads the detail asks for nothing new.
LEMMA ChainKeepsMissed ==
  ASSUME ListInv, MissedInv, NoLoss, NEW t \in Task,
         Refresh(t) \/ LoadDetail(t) \/ Fail(t)
  PROVE  MissedInv'
<1>1. task[t].pc \in {"reanswered", "got"}
  BY DEF Refresh, LoadDetail, Fail, NoLoss
<1>2. /\ UNCHANGED <<server, knownIds, newestId, filter>>
      /\ \A u \in Task : u # t => task'[u] = task[u]
      /\ task'[t].pc \in {"free", "get"}
      /\ \A k \in DOMAIN task'[t].items :
           \E j \in DOMAIN task[t].items : task'[t].items[k] = task[t].items[j]
      /\ task'[t].after \in {0, task[t].after} /\ task'[t].filter \in {All, task[t].filter}
  <2>1. /\ UNCHANGED <<server, knownIds, newestId, filter>>
        /\ \A u \in Task : u # t => task'[u] = task[u]
        /\ \/ /\ task'[t].pc = "free"
              /\ task'[t].items = <<>> /\ task'[t].after = 0 /\ task'[t].filter = All
           \/ /\ task'[t].pc = "get"
              /\ \A k \in DOMAIN task'[t].items :
                   \E j \in DOMAIN task[t].items : task'[t].items[k] = task[t].items[j]
              /\ task'[t].after = task[t].after /\ task'[t].filter = task[t].filter
    BY ChainEffect
  <2>2. DOMAIN <<>> = {}
    OBVIOUS
  <2> QED  BY <2>1, <2>2
<1>3. Answers'
  <2>1. /\ filter = All /\ newestId <= nextID /\ 0 <= nextID
        /\ task[t].filter = All /\ task[t].after <= nextID
    BY ListNumbers DEF MissedInv, Answers
  <2> QED  BY <1>2, <2>1, AnswersStep DEF MissedInv, server
<1>4. NoGaps' /\ NothingLost'
  BY <1>1, <1>2, AsideMisses DEF MissedInv, Polling
<1> QED  BY <1>3, <1>4 DEF MissedInv

\* The answers that are no lists: a clear leaves nothing that could be missing.
LEMMA OtherKeepsMissed ==
  ASSUME ListInv, MissedInv, ListInv', ListedKnown', NEW t \in Task,
         ServeClear(t) \/ ServeRoutes(t) \/ ServeGet(t) \/ ServeEntry(t)
  PROVE  MissedInv'
<1>1. /\ ~Polling(t)
      /\ \E v \in TaskState :
           /\ task' = [task EXCEPT ![t] = v]
           /\ v.pc \in {"cleared", "loaded", "found", "got"}
           /\ v.items = task[t].items
           /\ v.after = task[t].after /\ v.filter = task[t].filter
  BY ServeOtherEffect DEF Polling
<1>2. /\ task'[t].pc \in {"cleared", "loaded", "found", "got"}
      /\ task'[t].items = task[t].items
      /\ task'[t].after = task[t].after /\ task'[t].filter = task[t].filter
      /\ \A u \in Task : u # t => task'[u] = task[u]
  BY <1>1 DEF ListInv, TasksOK
<1>3. UNCHANGED <<knownIds, newestId, filter, nextID>>
  BY DEF ServeClear, ServeRoutes, ServeGet, ServeEntry, page, list, server, Log!Clear
<1>4. CASE ServeClear(t)
  <2>1. DOMAIN entries' = {}
    BY <1>4, ClearEffect DEF ServeClear, ListInv, ServerInv
  <2>2. \A id : ~Listed(id)'
    BY <2>1 DEF ListedKnown
  <2>3. Answers'
    BY <1>2, <1>3, <2>1 DEF MissedInv, Answers
  <2> QED  BY <2>2, <2>3 DEF MissedInv, NoGaps, NothingLost
<1>5. CASE UNCHANGED server
  <2>1. NoGaps' /\ NothingLost'
    BY <1>1, <1>2, <1>3, <1>5, AsideMisses DEF MissedInv
  <2>2. Answers'
    BY <1>2, <1>3, <1>5, AnswersStep DEF MissedInv, Answers, server
  <2> QED  BY <2>1, <2>2 DEF MissedInv
<1> QED  BY <1>4, <1>5 DEF ServeRoutes, ServeGet, ServeEntry

\* Every step keeps what is said of missing requests.
LEMMA NextMissed ==
  FilterLeftAlone /\ NoLoss =>
    (ListInv /\ MissedInv /\ ListInv' /\ ListedKnown' /\ [Next]_vars => MissedInv')
<1> SUFFICES ASSUME FilterLeftAlone, NoLoss,
                    ListInv, MissedInv, ListInv', ListedKnown', [Next]_vars
             PROVE  MissedInv'
  OBVIOUS
<1>1. CASE UNCHANGED vars
  <2>1. UNCHANGED <<page, task, server>> /\ UNCHANGED <<entries, nextID>>
    BY <1>1 DEF vars, server
  <2>2. \A id \in 1..MaxID : Listed(id)' => Listed(id)
    BY <2>1, ListedStays
  <2>3. nextID <= nextID' /\ \A j \in DOMAIN entries' : Old(j)
    BY <2>1, ListNumbers DEF Old
  <2> QED  BY <2>1, <2>2, <2>3, ServerMisses
<1>2. ASSUME NEW t \in Task, Tick(t) \/ Gesture(t) \/ Serve(t) \/ Deliver(t) \/ Fail(t)
      PROVE  MissedInv'
  BY <1>2, TickKeepsMissed, ReloadKeepsMissed, ListKeepsMissed, ActiveKeepsMissed,
     OtherKeepsMissed, ReceiveKeepsMissed, ChainKeepsMissed
     DEF Gesture, Serve, Deliver
<1> QED  BY <1>1, <1>2, ServerKeepsMissed DEF Next

\* While the filter is left alone and no fetch fails, however polls, clears,
\* evictions and reloads of the routes overlap, no request that a poll will
\* not ask for again is missing from the list (poll, prependRequests,
\* resetRequestList, Store.ListAfter, filterActiveRoutes).
THEOREM NoneMissed ==
  ASSUME FilterLeftAlone, NoLoss
  PROVE  Spec => []NothingMissed
<1>1. Init => MissedInv
  <2> SUFFICES ASSUME Init
               PROVE  MissedInv
    OBVIOUS
  <2>1. /\ filter = All /\ newestId = 0 /\ nextID = 0 /\ DOMAIN entries = {}
        /\ task = [t \in Task |-> Nothing]
    BY DEF Init, Log!Init
  <2>2. \A t \in Task : /\ task[t].pc = "free" /\ task[t].filter = All
                        /\ task[t].after = 0 /\ DOMAIN task[t].items = {}
    BY <2>1 DEF Nothing
  <2>3. \A id : ~Listed(id)
    BY <2>1 DEF Listed, Log!Held
  <2> QED  BY <2>1, <2>2, <2>3 DEF MissedInv, Answers, NoGaps, NothingLost
<1>2. ListInv /\ MissedInv => NothingMissed
  <2> SUFFICES ASSUME ListInv, MissedInv, \A t \in Task : ~Listing(t),
                      NEW id \in 1..newestId, Listed(id)
               PROVE  id \in knownIds
    BY DEF NothingMissed
  <2>1. id \in 1..MaxID /\ id <= newestId
    BY ListNumbers
  <2> QED  BY <2>1 DEF MissedInv, NothingLost, Overtaken
<1> QED  BY <1>1, <1>2, InitListInv, NextListInv, NextMissed, KnowsListed, PTL DEF Spec

================================================================================
