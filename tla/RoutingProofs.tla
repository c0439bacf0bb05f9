----------------------------- MODULE RoutingProofs -----------------------------
(***************************************************************************)
(* Theorems about mount paths and the choice of the route for a request,   *)
(* and about the targets of routes, for every alphabet, and for paths,     *)
(* targets and tables of every length.                                     *)
(***************************************************************************)
EXTENDS Targets, SequenceFacts

\* The symbols of a request, and what a mount path looks like.
Symbol == Char \cup {".ft"}
Mount == {p \in Strings : p # <<>> /\ p[1] = "/"}

\* The inductive invariant: mount paths that do not overlap.
Inv ==
  /\ mounted \in Seq(Mount)
  /\ \A i, j \in DOMAIN mounted : i # j => ~PathsOverlap(mounted[i], mounted[j])

-----------------------------------------------------------------------------
(***************************************************************************)
(* What NormalizePath makes of a string.                                   *)
(***************************************************************************)
\* A string is a sequence of characters that is not too long.
LEMMA StringsAreSeqs ==
  \A s : s \in Strings <=> s \in Seq(Char) /\ Len(s) <= MaxLen
<1> TAKE s
<1>1. ASSUME s \in Strings
      PROVE  s \in Seq(Char) /\ Len(s) <= MaxLen
  <2>1. PICK n \in 0..MaxLen : s \in [1..n -> Char]
    BY <1>1 DEF Strings
  <2>2. n \in Nat /\ n <= MaxLen
    BY RoutingAssumption
  <2>3. s \in Seq(Char)
    BY <2>1, <2>2, SeqDef
  <2>4. Len(s) = n
    BY <2>1, <2>2, <2>3, LenProperties
  <2> QED  BY <2>2, <2>3, <2>4
<1>2. ASSUME s \in Seq(Char), Len(s) <= MaxLen
      PROVE  s \in Strings
  <2>1. Len(s) \in 0..MaxLen /\ s \in [1..Len(s) -> Char]
    BY <1>2, RoutingAssumption, LenProperties
  <2> QED  BY <2>1 DEF Strings
<1> QED  BY <1>1, <1>2

\* A part of a string is a string.
LEMMA PartOfString ==
  ASSUME NEW s \in Strings, NEW a \in 1..Len(s), NEW b \in a..Len(s)
  PROVE  /\ SubSeq(s, a, b) \in Strings /\ SubSeq(s, a, b) # <<>>
         /\ SubSeq(s, a, b)[1] = s[a]
<1> DEFINE n == Len(s)
           u == SubSeq(s, a, b)
<1>1. s \in Seq(Char) /\ n \in Nat /\ n <= MaxLen /\ \A i \in 1..n : s[i] \in Char
  BY StringsAreSeqs, LenProperties, ElementOfSeq
<1>2. a \in Nat /\ b \in Nat /\ 1 <= a /\ a <= b /\ b <= n /\ \A i \in a..b : i \in 1..n
  BY <1>1
<1>3. \A i \in a..b : s[i] \in Char
  BY <1>1, <1>2
<1>4. /\ u \in Seq(Char)
      /\ Len(u) = IF a <= b THEN b - a + 1 ELSE 0
      /\ \A i \in 1..(b - a + 1) : u[i] = s[a + i - 1]
  BY <1>2, <1>3, SubSeqProperties
<1> HIDE DEF n, u
<1>5. Len(u) = b - a + 1 /\ Len(u) <= MaxLen /\ Len(u) # 0 /\ 1 \in 1..(b - a + 1)
      /\ a + 1 - 1 = a
  BY <1>1, <1>2, <1>4, RoutingAssumption
<1>6. u[1] = s[a]
  BY <1>4, <1>5
<1>7. u # <<>>
  BY <1>5, EmptySeq
<1> QED  BY <1>4, <1>5, <1>6, <1>7, StringsAreSeqs DEF u

\* Blanks are trimmed, and a path still begins with a slash then.
LEMMA TrimSpaceType ==
  ASSUME NEW s \in Strings
  PROVE  TrimSpace(s) \in Strings /\ (s \in Mount => TrimSpace(s) \in Mount)
<1> DEFINE n == Len(s)
           visible == {i \in DOMAIN s : s[i] # " "}
           lo == CHOOSE i \in visible : \A j \in visible : i <= j
           hi == CHOOSE i \in visible : \A j \in visible : j <= i
<1>1. n \in Nat /\ DOMAIN s = 1..n /\ <<>> \in Strings
  <2>1. s \in Seq(Char)
    BY StringsAreSeqs
  <2>2. <<>> \in Seq(Char) /\ Len(<<>>) <= MaxLen
    BY EmptySeq, RoutingAssumption
  <2> QED  BY <2>1, <2>2, StringsAreSeqs, LenProperties
<1>2. s \in Mount => 1 \in visible
  <2> SUFFICES ASSUME s \in Mount
               PROVE  1 \in visible
    OBVIOUS
  <2>1. s # <<>> /\ s[1] = "/" /\ s \in Seq(Char)
    BY StringsAreSeqs DEF Mount
  <2>2. n # 0
    BY <2>1, EmptySeq
  <2>3. 1 \in 1..n
    BY <1>1, <2>2
  <2> QED  BY <1>1, <2>1, <2>3
<1>3. CASE visible = {}
  BY <1>1, <1>2, <1>3 DEF TrimSpace
<1>4. CASE visible # {}
  <2>1. visible \subseteq 1..n
    BY <1>1
  <2>2. /\ \E i \in visible : \A j \in visible : i <= j
        /\ \E i \in visible : \A j \in visible : j <= i
    <3> HIDE DEF visible, n
    <3> QED  BY <1>1, <1>4, <2>1, Least, Greatest
  <2>3. /\ lo \in visible /\ \A j \in visible : lo <= j
        /\ hi \in visible /\ \A j \in visible : j <= hi
    <3> HIDE DEF visible
    <3> QED  BY <2>2
  <2>4. TrimSpace(s) = SubSeq(s, lo, hi)
    BY <1>4 DEF TrimSpace
  <2> HIDE DEF visible, lo, hi, n
  <2>5. lo \in 1..n /\ hi \in lo..n
    BY <1>1, <2>1, <2>3
  <2>6. s \in Mount => lo = 1
    BY <1>2, <2>3, <2>5, <1>1
  <2>7. TrimSpace(s) \in Strings /\ TrimSpace(s) # <<>> /\ TrimSpace(s)[1] = s[lo]
    BY <2>4, <2>5, PartOfString DEF n
  <2> QED  BY <2>6, <2>7 DEF Mount
<1> QED  BY <1>3, <1>4

\* A path that is not the root keeps its first slash when it loses its last.
LEMMA TrimSlashType ==
  ASSUME NEW p \in Mount, p # Root
  PROVE  TrimSlash(p) \in Mount
<1> DEFINE n == Len(p)
<1>1. p \in Strings /\ p \in Seq(Char) /\ p # <<>> /\ p[1] = "/" /\ n \in Nat
  BY StringsAreSeqs, LenProperties DEF Mount
<1>2. n # 0
  BY <1>1, EmptySeq
<1>3. n # 1
  <2> SUFFICES ASSUME n = 1
               PROVE  FALSE
    OBVIOUS
  <2>1. Root \in Seq(Char) /\ Len(Root) = 1 /\ Root[1] = "/"
    BY RoutingAssumption DEF Root
  <2>2. \A i \in 1..n : p[i] = Root[i]
    BY <1>1, <2>1
  <2> QED  BY <1>1, <2>1, <2>2, SeqEqual
<1>4. 1 \in 1..n /\ n - 1 \in 1..n
  <2> HIDE DEF n
  <2> QED  BY <1>1, <1>2, <1>3
<1>5. SubSeq(p, 1, n - 1) \in Mount
  BY <1>1, <1>4, PartOfString DEF Mount
<1> QED  BY <1>5 DEF TrimSlash, Front

\* A path is refused, or becomes a mount path; one that is a mount path is not
\* refused.
LEMMA NormalizeType ==
  ASSUME NEW raw \in Strings
  PROVE  /\ NormalizePath(raw) = <<>> \/ NormalizePath(raw) \in Mount
         /\ raw \in Mount => NormalizePath(raw) \in Mount
<1> DEFINE p == TrimSpace(raw)
<1>1. p \in Strings /\ (raw \in Mount => p \in Mount)
  BY TrimSpaceType
<1> HIDE DEF p
<1>2. HasPrefix(p, Root) <=> p \in Mount
  <2>1. p \in Seq(Char) /\ Len(p) \in Nat /\ (p = <<>> <=> Len(p) = 0)
    BY <1>1, StringsAreSeqs, LenProperties, EmptySeq
  <2>2. Root \in Seq(Char) /\ Len(Root) = 1 /\ Root[1] = "/"
    BY RoutingAssumption DEF Root
  <2>3. IsPrefix(Root, p) <=>
          Len(Root) <= Len(p) /\ \A k \in 1..Len(Root) : Root[k] = p[k]
    <3>1. p \in Seq(Char) /\ Root \in Seq(Char)
      BY <2>1, <2>2
    <3> QED  BY <3>1, PrefixPoints
  <2>4. HasPrefix(p, Root) <=> 1 <= Len(p) /\ "/" = p[1]
    BY <2>2, <2>3 DEF HasPrefix
  <2> QED  BY <1>1, <2>1, <2>4 DEF Mount
<1>3. NormalizePath(raw) = IF ~HasPrefix(p, Root) THEN <<>>
                           ELSE IF p = Root THEN p ELSE TrimSlash(p)
  BY DEF NormalizePath, p
<1> QED  BY <1>1, <1>2, <1>3, TrimSlashType

-----------------------------------------------------------------------------
(***************************************************************************)
(* The internal prefix of a mount, and the routes a request may go to.     *)
(***************************************************************************)
\* The prefix of "/" has two symbols, that of another path two more than the
\* path, whose symbols follow them.
LEMMA PrefixType ==
  ASSUME NEW p \in Mount
  PROVE  /\ InternalPrefix(p) \in Seq(Symbol)
         /\ Len(p) \in Nat \ {0} /\ p \in Seq(Symbol)
         /\ InternalPrefix(p)[1] = "/" /\ InternalPrefix(p)[2] = ".ft"
         /\ p = Root => Len(InternalPrefix(p)) = 2
         /\ p # Root => /\ Len(InternalPrefix(p)) = Len(p) + 2
                        /\ \A k \in 1..Len(p) : InternalPrefix(p)[k + 2] = p[k]
<1> DEFINE pre == <<"/", ".ft">>
           n == Len(p)
           q == pre \o p
<1>1. p \in Seq(Char) /\ p # <<>>
  BY StringsAreSeqs DEF Mount
<1>2. p \in Seq(Symbol)
  BY <1>1, SeqMonotonic DEF Symbol
<1>3. n \in Nat \ {0}
  BY <1>1, EmptySeq
<1>4. pre \in Seq(Symbol) /\ Len(pre) = 2 /\ pre[1] = "/" /\ pre[2] = ".ft"
  BY RoutingAssumption DEF Symbol
<1>5. /\ q \in Seq(Symbol) /\ Len(q) = Len(pre) + Len(p)
      /\ \A k \in 1..(Len(pre) + Len(p)) :
           q[k] = IF k <= Len(pre) THEN pre[k] ELSE p[k - Len(pre)]
  BY <1>2, <1>4, ConcatProperties
<1>6. InternalPrefix(p) = IF p = Root THEN pre ELSE q
  BY DEF InternalPrefix
<1> HIDE DEF pre, q
<1>7. Len(q) = 2 + n /\ \A k \in 1..(2 + n) : q[k] = IF k <= 2 THEN pre[k] ELSE p[k - 2]
  BY <1>4, <1>5
<1> HIDE DEF n
<1>8. Len(q) = n + 2 /\ q[1] = "/" /\ q[2] = ".ft"
  BY <1>3, <1>4, <1>7
<1>9. \A k \in 1..n : q[k + 2] = p[k]
  <2> TAKE k \in 1..n
  <2>1. k + 2 \in 1..(2 + n) /\ ~(k + 2 <= 2) /\ k + 2 - 2 = k
    BY <1>3
  <2>2. q[k + 2] = IF k + 2 <= 2 THEN pre[k + 2] ELSE p[k + 2 - 2]
    BY <1>7, <2>1
  <2> QED  BY <2>1, <2>2
<1> QED  BY <1>2, <1>3, <1>4, <1>5, <1>6, <1>8, <1>9 DEF n

\* The request begins with q, symbol by symbol, and goes on with a slash.
Under(r, q) ==
  /\ Len(q) <= Len(r)
  /\ \A k \in 1..Len(q) : q[k] = r[k]
  /\ Len(q) < Len(r) => r[Len(q) + 1] = "/"

\* What Match compares, symbol by symbol.
LEMMA UnderPoints ==
  ASSUME NEW r \in Seq(Symbol), NEW q \in Seq(Symbol)
  PROVE  r = q \/ HasPrefix(r, q \o Root) <=> Under(r, q)
<1> DEFINE n == Len(q)
           m == Len(r)
<1>1. n \in Nat /\ m \in Nat /\ "/" \in Symbol
  BY LenProperties, RoutingAssumption DEF Symbol
<1>2. HasPrefix(r, q \o Root) <=>
        n < m /\ r[n + 1] = "/" /\ \A k \in 1..n : q[k] = r[k]
  BY <1>1, LongerPrefix DEF HasPrefix, Root
<1>3. r = q <=> n = m /\ \A k \in 1..n : q[k] = r[k]
  BY SeqEqual
<1>4. n <= m <=> n = m \/ n < m
  <2> HIDE DEF n, m
  <2> QED  BY <1>1
<1>5. n = m => ~(n < m)
  <2> HIDE DEF n, m
  <2> QED  BY <1>1
<1> QED  BY <1>2, <1>3, <1>4, <1>5 DEF Under

\* The routes a request may go to.
LEMMA CandidatePoints ==
  ASSUME Inv, NEW r \in Seq(Symbol), NEW i \in DOMAIN mounted
  PROVE  /\ mounted[i] \in Mount
         /\ i \in Candidates(r) <=> Under(r, InternalPrefix(mounted[i]))
<1>1. mounted[i] \in Mount
  BY LenProperties, ElementOfSeq DEF Inv
<1>2. InternalPrefix(mounted[i]) \in Seq(Symbol)
  BY <1>1, PrefixType
<1> QED  BY <1>1, <1>2, UnderPoints DEF Candidates

-----------------------------------------------------------------------------
(***************************************************************************)
(* The longest prefix is that of one route.                                *)
(***************************************************************************)
\* Two routes are different paths, neither of which is below the other.
LEMMA Apart ==
  ASSUME Inv, NEW i \in DOMAIN mounted, NEW j \in DOMAIN mounted, i # j
  PROVE  /\ mounted[i] # mounted[j]
         /\ ~HasPrefix(mounted[i], mounted[j] \o Root)
BY DEF Inv, PathsOverlap

\* Two prefixes of a request that are as long as each other are those of one
\* mount.
LEMMA SamePrefix ==
  ASSUME NEW r \in Seq(Symbol), NEW a \in Mount, NEW b \in Mount,
         Under(r, InternalPrefix(a)), Under(r, InternalPrefix(b)),
         Len(InternalPrefix(a)) = Len(InternalPrefix(b))
  PROVE  a = b
<1> DEFINE p == InternalPrefix(a)
           q == InternalPrefix(b)
           n == Len(a)
           m == Len(b)
<1>1. /\ n \in Nat \ {0} /\ m \in Nat \ {0}
      /\ a = Root => Len(p) = 2
      /\ a # Root => Len(p) = n + 2 /\ \A k \in 1..n : p[k + 2] = a[k]
      /\ b = Root => Len(q) = 2
      /\ b # Root => Len(q) = m + 2 /\ \A k \in 1..m : q[k + 2] = b[k]
      /\ a \in Seq(Symbol) /\ b \in Seq(Symbol)
  BY PrefixType
<1>2. \A k \in 1..Len(p) : p[k] = r[k] /\ q[k] = r[k]
  BY DEF Under
<1>3. CASE a = Root \/ b = Root
  <2> DEFINE l == Len(p)
  <2>1. /\ a = Root => l = 2
        /\ b = Root => l = 2
        /\ a # Root => l = n + 2
        /\ b # Root => l = m + 2
    BY <1>1
  <2> HIDE DEF l, n, m
  <2>2. n + 2 # 2 /\ m + 2 # 2
    BY <1>1
  <2> QED  BY <1>3, <2>1, <2>2
<1>4. CASE a # Root /\ b # Root
  <2>1. Len(p) = Len(q)
    OBVIOUS
  <2> HIDE DEF p, q, n, m
  <2>2. n = m /\ Len(p) = n + 2
    BY <1>1, <1>4, <2>1
  <2>3. \A k \in 1..n : a[k] = b[k]
    <3> TAKE k \in 1..n
    <3>1. k + 2 \in 1..Len(p)
      BY <1>1, <2>2
    <3>2. p[k + 2] = q[k + 2]
      BY <1>2, <3>1
    <3> QED  BY <1>1, <1>4, <2>2, <3>2
  <2> QED  BY <1>1, <2>2, <2>3, SeqEqual DEF n, m
<1> QED  BY <1>3, <1>4

\* A request has at most one best route.
LEMMA OneBest ==
  ASSUME Inv, NEW r \in Seq(Symbol), NEW i \in Best(r), NEW j \in Best(r)
  PROVE  i = j
<1> DEFINE len(k) == Len(InternalPrefix(mounted[k]))
<1>1. /\ i \in Candidates(r) /\ j \in Candidates(r)
      /\ len(i) >= len(j) /\ len(j) >= len(i)
  BY DEF Best
<1>2. i \in DOMAIN mounted /\ j \in DOMAIN mounted
  BY <1>1 DEF Candidates
<1>3. /\ mounted[i] \in Mount /\ mounted[j] \in Mount
      /\ Under(r, InternalPrefix(mounted[i])) /\ Under(r, InternalPrefix(mounted[j]))
  BY <1>1, <1>2, CandidatePoints
<1>4. len(i) \in Nat /\ len(j) \in Nat
  BY <1>3, PrefixType, LenProperties
<1>5. len(i) = len(j)
  <2> HIDE DEF len
  <2> QED  BY <1>1, <1>4
<1>6. mounted[i] = mounted[j]
  BY <1>3, <1>5, SamePrefix
<1> QED  BY <1>2, <1>6, Apart

\* And one, when any route may serve it.
LEMMA SomeBest ==
  ASSUME Inv, NEW r \in Seq(Symbol), Candidates(r) # {}
  PROVE  Best(r) # {}
<1> DEFINE len(k) == Len(InternalPrefix(mounted[k]))
           lengths == {len(k) : k \in Candidates(r)}
           n == Len(r)
<1>1. n \in Nat
  BY LenProperties
<1>2. \A k \in Candidates(r) : len(k) \in 1..n
  <2> TAKE k \in Candidates(r)
  <2>1. k \in DOMAIN mounted
    BY DEF Candidates
  <2>2. mounted[k] \in Mount /\ Under(r, InternalPrefix(mounted[k]))
    BY <2>1, CandidatePoints
  <2>3. len(k) <= n
    BY <2>2 DEF Under
  <2>4. /\ Len(mounted[k]) \in Nat \ {0}
        /\ len(k) = 2 \/ len(k) = Len(mounted[k]) + 2
    BY <2>2, PrefixType
  <2> HIDE DEF len, n
  <2> QED  BY <1>1, <2>3, <2>4
<1>3. lengths \subseteq 1..n /\ lengths # {}
  <2> HIDE DEF len, n
  <2> QED  BY <1>2
<1>4. PICK l \in lengths : \A k \in lengths : k <= l
  <2> HIDE DEF lengths, n
  <2> QED  BY <1>1, <1>3, Greatest
<1>5. PICK i \in Candidates(r) : l = len(i)
  OBVIOUS
<1>6. \A k \in Candidates(r) : len(i) >= len(k)
  <2>1. \A k \in Candidates(r) : len(k) <= len(i)
    BY <1>4, <1>5
  <2>2. \A k \in Candidates(r) : len(k) \in Nat
    BY <1>1, <1>2
  <2> HIDE DEF len
  <2> QED  BY <2>1, <2>2
<1> QED  BY <1>6 DEF Best

\* Beside "/", no route that may serve a request has a longer prefix than
\* another.
LEMMA NoneLonger ==
  ASSUME Inv, NEW r \in Seq(Symbol),
         NEW i \in Candidates(r), NEW j \in Candidates(r), mounted[i] # Root
  PROVE  Len(InternalPrefix(mounted[i])) >= Len(InternalPrefix(mounted[j]))
<1> DEFINE a == mounted[i]
           b == mounted[j]
           p == InternalPrefix(a)
           q == InternalPrefix(b)
           n == Len(a)
           m == Len(b)
<1>1. i \in DOMAIN mounted /\ j \in DOMAIN mounted
  BY DEF Candidates
<1>2. a \in Mount /\ b \in Mount /\ Under(r, p) /\ Under(r, q)
  BY <1>1, CandidatePoints
<1>3. /\ n \in Nat \ {0} /\ m \in Nat \ {0}
      /\ Len(p) = n + 2 /\ \A k \in 1..n : p[k + 2] = a[k]
      /\ b = Root => Len(q) = 2
      /\ b # Root => Len(q) = m + 2 /\ \A k \in 1..m : q[k + 2] = b[k]
      /\ a \in Seq(Symbol) /\ b \in Seq(Symbol)
  BY <1>2, PrefixType
<1>4. ~HasPrefix(b, a \o Root)
  <2>1. CASE i = j
    <3>1. "/" \in Symbol
      BY RoutingAssumption DEF Symbol
    <3>2. HasPrefix(a, a \o Root) => n < n
      BY <1>3, <3>1, LongerPrefix DEF HasPrefix, Root
    <3>3. ~(n < n)
      <4> HIDE DEF n
      <4> QED  BY <1>3
    <3> QED  BY <2>1, <3>2, <3>3
  <2>2. CASE i # j
    BY <1>1, <2>2, Apart
  <2> QED  BY <2>1, <2>2
<1>5. ASSUME b # Root, n < m
      PROVE  FALSE
  <2> DEFINE x == Len(p)
             y == Len(q)
             z == Len(r)
  <2>1. /\ x = n + 2 /\ y = m + 2 /\ z \in Nat /\ y <= z
        /\ x < z => r[x + 1] = "/"
        /\ \A k \in 1..x : p[k] = r[k]
        /\ \A k \in 1..y : q[k] = r[k]
    BY <1>2, <1>3, <1>5, LenProperties DEF Under
  <2>2. b[n + 1] = "/"
    <3> HIDE DEF x, y, z, n, m
    <3>1. n + 1 \in 1..m /\ n + 1 + 2 \in 1..y /\ x < z /\ x + 1 = n + 1 + 2
      BY <1>3, <1>5, <2>1
    <3>2. b[n + 1] = q[n + 1 + 2]
      BY <1>3, <1>5, <3>1
    <3> QED  BY <2>1, <3>1, <3>2
  <2>3. \A k \in 1..n : a[k] = b[k]
    <3> HIDE DEF x, y, z, n, m
    <3> TAKE k \in 1..n
    <3>1. k \in 1..m /\ k + 2 \in 1..x /\ k + 2 \in 1..y
      BY <1>3, <1>5, <2>1
    <3>2. a[k] = p[k + 2] /\ b[k] = q[k + 2]
      BY <1>3, <1>5, <3>1
    <3> QED  BY <2>1, <3>1, <3>2
  <2>4. "/" \in Symbol
    BY RoutingAssumption DEF Symbol
  <2> QED  BY <1>3, <1>4, <1>5, <2>2, <2>3, <2>4, LongerPrefix DEF HasPrefix, Root
<1>6. b = Root \/ m <= n
  <2> HIDE DEF n, m
  <2> QED  BY <1>3, <1>5
<1>7. Len(p) >= Len(q)
  <2> DEFINE x == Len(p)
             y == Len(q)
  <2>1. x = n + 2 /\ (b = Root => y = 2) /\ (b # Root => y = m + 2)
    BY <1>3
  <2> HIDE DEF n, m, x, y
  <2>2. x >= y
    BY <1>3, <1>6, <2>1
  <2> QED  BY <2>2 DEF x, y
<1> QED  BY <1>7

\* What follows a mount in a request: nothing, or a path that begins with a
\* slash.
LEMMA BelowType ==
  ASSUME NEW rest \in Below
  PROVE  /\ rest \in Seq(Symbol)
         /\ rest # <<>> => HasPrefix(rest, Root) /\ rest[1] = "/"
<1>1. Root \in Seq(Symbol) /\ Len(Root) = 1 /\ Root[1] = "/"
  BY RoutingAssumption DEF Root, Symbol
<1>2. CASE rest = <<>>
  BY <1>2, EmptySeq
<1>3. ASSUME NEW s \in Strings, rest = Root \o s
      PROVE  rest \in Seq(Symbol) /\ HasPrefix(rest, Root) /\ rest[1] = "/"
  <2>1. s \in Seq(Symbol) /\ Len(s) \in Nat
    BY StringsAreSeqs, SeqMonotonic, LenProperties DEF Symbol
  <2>2. /\ rest \in Seq(Symbol) /\ Len(rest) = 1 + Len(s)
        /\ \A k \in 1..(1 + Len(s)) : rest[k] = IF k <= 1 THEN Root[k] ELSE s[k - 1]
    BY <1>1, <1>3, <2>1, ConcatProperties
  <2>3. rest[1] = "/" /\ 1 <= Len(rest)
    <3>1. 1 \in 1..(1 + Len(s)) /\ 1 <= 1 + Len(s)
      BY <2>1
    <3> QED  BY <1>1, <2>2, <3>1
  <2>4. IsPrefix(Root, rest)
    BY <1>1, <2>2, <2>3, PrefixPoints
  <2> QED  BY <2>2, <2>3, <2>4 DEF HasPrefix
<1> QED  BY <1>2, <1>3 DEF Below

\* A request below a mount begins with the mount's prefix, and the rest of it
\* is what is asked of the mount.
LEMMA RequestBelow ==
  ASSUME NEW q \in Seq(Symbol), NEW rest \in Below
  PROVE  /\ q \o rest \in Seq(Symbol)
         /\ Len(q \o rest) = Len(q) + Len(rest)
         /\ \A k \in 1..Len(rest) : (q \o rest)[Len(q) + k] = rest[k]
         /\ Under(q \o rest, q)
         /\ SubSeq(q \o rest, Len(q) + 1, Len(q \o rest)) = rest
<1> DEFINE r == q \o rest
           n == Len(q)
           m == Len(rest)
<1>1. /\ rest \in Seq(Symbol) /\ n \in Nat /\ m \in Nat
      /\ rest # <<>> => rest[1] = "/"
      /\ rest = <<>> <=> m = 0
  BY BelowType, LenProperties, EmptySeq
<1>2. /\ r \in Seq(Symbol) /\ Len(r) = n + m
      /\ \A k \in 1..(n + m) : r[k] = IF k <= n THEN q[k] ELSE rest[k - n]
  BY <1>1, ConcatProperties
<1> HIDE DEF r, n, m
<1>3. \A k \in 1..m : r[n + k] = rest[k]
  <2> TAKE k \in 1..m
  <2>1. n + k \in 1..(n + m) /\ ~(n + k <= n) /\ n + k - n = k
    BY <1>1
  <2>2. r[n + k] = IF n + k <= n THEN q[n + k] ELSE rest[n + k - n]
    BY <1>1, <1>2, <2>1
  <2> QED  BY <2>1, <2>2
<1>4. \A k \in 1..n : q[k] = r[k]
  <2> TAKE k \in 1..n
  <2>1. k \in 1..(n + m) /\ k <= n
    BY <1>1
  <2> QED  BY <1>2, <2>1
<1>5. n <= n + m /\ (n < n + m => 1 \in 1..m /\ m # 0)
  BY <1>1
<1>6. n < n + m => r[n + 1] = "/"
  BY <1>1, <1>3, <1>5
<1>7. Under(r, q)
  BY <1>2, <1>4, <1>5, <1>6 DEF Under, n
<1>8. SubSeq(r, n + 1, n + m) = rest
  <2> DEFINE u == SubSeq(r, n + 1, n + m)
  <2>1. \A k \in (n + 1)..(n + m) : r[k] \in Symbol
    <3>1. \A k \in (n + 1)..(n + m) : k \in 1..(n + m)
      BY <1>1
    <3> QED  BY <1>2, <3>1, ElementOfSeq
  <2>2. /\ u \in Seq(Symbol)
        /\ Len(u) = IF n + 1 <= n + m THEN n + m - (n + 1) + 1 ELSE 0
        /\ \A k \in 1..(n + m - (n + 1) + 1) : u[k] = r[n + 1 + k - 1]
    BY <1>1, <2>1, SubSeqProperties
  <2> HIDE DEF u
  <2>3. /\ n + m - (n + 1) + 1 = m
        /\ (IF n + 1 <= n + m THEN n + m - (n + 1) + 1 ELSE 0) = m
    BY <1>1
  <2>4. Len(u) = m
    BY <2>2, <2>3
  <2>5. \A k \in 1..m : u[k] = rest[k]
    <3> TAKE k \in 1..m
    <3>1. n + 1 + k - 1 = n + k
      BY <1>1
    <3> QED  BY <1>3, <2>2, <2>3, <3>1
  <2> QED  BY <1>1, <2>2, <2>4, <2>5, SeqEqual DEF u, m
<1> QED  BY <1>2, <1>3, <1>7, <1>8 DEF r, n, m

-----------------------------------------------------------------------------
(***************************************************************************)
(* The routes of the table stay apart.                                     *)
(***************************************************************************)
\* Initially there are none.
LEMMA InitInv == RouteInit => Inv
<1> SUFFICES ASSUME mounted = <<>>
             PROVE  Inv
  BY DEF RouteInit, Init
<1>1. mounted \in Seq(Mount) /\ DOMAIN mounted = {}
  BY EmptySeq, LenProperties
<1> QED  BY <1>1 DEF Inv

\* An add refuses what overlaps.
LEMMA AddInv ==
  ASSUME Inv, NEW raw \in Strings, Add(raw)
  PROVE  Inv'
<1> DEFINE path == NormalizePath(raw)
           n == Len(mounted)
<1>1. /\ path \in Mount /\ mounted' = Append(mounted, path)
      /\ \A i \in DOMAIN mounted : ~PathsOverlap(path, mounted[i])
  BY NormalizeType DEF Add
<1>2. mounted \in Seq(Mount) /\ n \in Nat /\ DOMAIN mounted = 1..n
  BY LenProperties DEF Inv
<1> HIDE DEF path
<1>3. /\ mounted' \in Seq(Mount) /\ Len(mounted') = n + 1
      /\ \A i \in 1..n : mounted'[i] = mounted[i]
      /\ mounted'[n + 1] = path
  BY <1>1, <1>2, AppendProperties
<1>4. DOMAIN mounted' = 1..(n + 1)
  BY <1>3, LenProperties
<1> HIDE DEF n
<1>5. \A i \in 1..(n + 1) : i \in 1..n \/ i = n + 1
  BY <1>2
<1>6. \A i, j \in 1..n : i # j => ~PathsOverlap(mounted[i], mounted[j])
  BY <1>2 DEF Inv
<1>7. \A i \in 1..n : ~PathsOverlap(path, mounted[i]) /\ ~PathsOverlap(mounted[i], path)
  BY <1>1, <1>2 DEF PathsOverlap
<1>8. ASSUME NEW i \in DOMAIN mounted', NEW j \in DOMAIN mounted', i # j
      PROVE  ~PathsOverlap(mounted'[i], mounted'[j])
  <2>1. CASE i \in 1..n /\ j \in 1..n
    BY <1>3, <1>6, <1>8, <2>1
  <2>2. CASE i \in 1..n /\ j = n + 1
    BY <1>3, <1>7, <2>2
  <2>3. CASE i = n + 1 /\ j \in 1..n
    BY <1>3, <1>7, <2>3
  <2> QED  BY <1>4, <1>5, <1>8, <2>1, <2>2, <2>3
<1> QED  BY <1>3, <1>8 DEF Inv, PathsOverlap, HasPrefix, Root

\* A delete leaves the others, in their order.
LEMMA DeleteInv ==
  ASSUME Inv, NEW k \in DOMAIN mounted, Delete(k)
  PROVE  Inv'
<1> DEFINE n == Len(mounted)
           old(i) == IF i < k THEN i ELSE i + 1
<1>1. mounted \in Seq(Mount) /\ n \in Nat /\ DOMAIN mounted = 1..n
  BY LenProperties DEF Inv
<1>2. /\ mounted' \in Seq(Mount) /\ Len(mounted') = n - 1
      /\ \A i \in 1..(n - 1) :
           mounted'[i] = IF i < k THEN mounted[i] ELSE mounted[i + 1]
  BY <1>1, RemoveAtElements DEF Delete
<1>3. DOMAIN mounted' = 1..(n - 1)
  BY <1>2, LenProperties
<1> HIDE DEF n
<1>4. ASSUME NEW i \in DOMAIN mounted', NEW j \in DOMAIN mounted', i # j
      PROVE  ~PathsOverlap(mounted'[i], mounted'[j])
  <2>1. i \in 1..(n - 1) /\ j \in 1..(n - 1) /\ k \in 1..n
    BY <1>1, <1>3
  <2>2. old(i) \in 1..n /\ old(j) \in 1..n /\ old(i) # old(j)
    BY <1>1, <1>4, <2>1
  <2>3. mounted'[i] = mounted[old(i)] /\ mounted'[j] = mounted[old(j)]
    BY <1>2, <2>1
  <2> QED  BY <1>1, <2>2, <2>3 DEF Inv
<1> QED  BY <1>2, <1>4 DEF Inv, PathsOverlap, HasPrefix, Root

\* A restore refuses a checkpoint whose paths overlap once normalized.
LEMMA RestoreInv ==
  ASSUME Inv, Restore
  PROVE  Inv'
<1> DEFINE again == [i \in DOMAIN mounted |-> Restored(mounted[i])]
           n == Len(mounted)
<1>1. CASE mounted' = <<>>
  <2>1. mounted' \in Seq(Mount) /\ DOMAIN mounted' = {}
    BY <1>1, EmptySeq, LenProperties
  <2> QED  BY <2>1 DEF Inv
<1>2. CASE /\ mounted' = again
           /\ \A i, j \in DOMAIN again : i # j => ~PathsOverlap(again[i], again[j])
  <2>1. n \in Nat /\ DOMAIN mounted = 1..n /\ \A i \in 1..n : mounted[i] \in Mount
    BY LenProperties, ElementOfSeq DEF Inv
  <2>2. \A i \in 1..n : Restored(mounted[i]) \in Mount
    <3> TAKE i \in 1..n
    <3>1. NormalizePath(mounted[i]) \in Mount /\ Mount \subseteq Strings
      BY <2>1, NormalizeType DEF Mount
    <3> QED  BY <3>1, NormalizeType DEF Restored
  <2>3. again \in [1..n -> Mount]
    BY <2>1, <2>2
  <2>4. again \in Seq(Mount)
    <3> HIDE DEF again, n
    <3> QED  BY <2>1, <2>3, SeqDef
  <2> HIDE DEF again
  <2> QED  BY <1>2, <2>4 DEF Inv, PathsOverlap, HasPrefix, Root
<1> QED  BY <1>1, <1>2 DEF Restore

\* Every step keeps the paths apart.
LEMMA NextInv == Inv /\ [RouteNext]_<<mounted, typed, target>> => Inv'
<1> SUFFICES ASSUME Inv, [RouteNext]_<<mounted, typed, target>>
             PROVE  Inv'
  OBVIOUS
<1>1. ASSUME NEW form \in Forms, AddRoute(form[1], form[2])
      PROVE  Inv'
  <2>1. Root \in Strings
    <3>1. Root \in Seq(Char) /\ Len(Root) = 1 /\ 1 <= MaxLen
      BY RoutingAssumption DEF Root
    <3> QED  BY <3>1, StringsAreSeqs
  <2>2. form[1] \in Strings
    BY <2>1 DEF Forms
  <2> QED  BY <1>1, <2>2, AddInv DEF AddRoute
<1>2. ASSUME NEW i \in DOMAIN mounted, DeleteRoute(i)
      PROVE  Inv'
  BY <1>2, DeleteInv DEF DeleteRoute
<1>3. CASE Restore
  BY <1>3, RestoreInv
<1>4. CASE UNCHANGED <<mounted, typed, target>>
  BY <1>4 DEF Inv, PathsOverlap, HasPrefix, Root
<1> QED  BY <1>1, <1>2, <1>3, <1>4 DEF RouteNext

-----------------------------------------------------------------------------
(***************************************************************************)
(* The theorems about paths.                                               *)
(***************************************************************************)
\* The registry only holds strings that users can type, and none is empty
\* (Registry.Add, NormalizePath).
THEOREM PathsTyped == RouteSpec => []TypeOK
<1>1. Inv => TypeOK
  <2>1. Mount \subseteq Strings \ {<<>>}
    BY DEF Mount
  <2> QED  BY <2>1, SeqMonotonic DEF Inv, TypeOK
<1> QED  BY <1>1, InitInv, NextInv, PTL DEF RouteSpec

\* The route a request goes to does not depend on the order of the table or
\* of sort.Slice, although "/" is mounted beside other paths (Registry.Match).
THEOREM OneRoute == RouteSpec => []MatchIsUnique
<1>1. Inv => MatchIsUnique
  <2> SUFFICES ASSUME Inv, NEW i \in DOMAIN mounted, NEW rest \in Below
               PROVE  Cardinality(Best(InternalPrefix(mounted[i]) \o rest)) <= 1
    BY DEF MatchIsUnique
  <2> DEFINE r == InternalPrefix(mounted[i]) \o rest
             B == Best(r)
  <2>1. mounted[i] \in Mount
    BY LenProperties, ElementOfSeq DEF Inv
  <2>2. r \in Seq(Symbol)
    BY <2>1, PrefixType, RequestBelow
  <2> HIDE DEF r
  <2>3. \A x, y \in B : x = y
    BY <2>2, OneBest
  <2> HIDE DEF B
  <2>4. B = {} \/ \E x \in B : B = {x}
    BY <2>3
  <2>5. Cardinality({}) = 0 /\ \A x : Cardinality({x}) = 1
    BY FS_EmptySet, FS_Singleton
  <2>6. Cardinality(B) = 0 \/ Cardinality(B) = 1
    BY <2>4, <2>5, Zenon
  <2>7. Cardinality(B) <= 1
    BY <2>6
  <2> QED  BY <2>7 DEF B, r
<1> QED  BY <1>1, InitInv, NextInv, PTL DEF RouteSpec

\* What goes upstream for a request below a mount is what was asked of it.
LEMMA SuffixIsRest ==
  ASSUME Inv, NEW i \in DOMAIN mounted, NEW rest \in Below
  PROVE  Suffix(InternalPrefix(mounted[i]) \o rest, i)
           = IF rest = <<>> THEN Root ELSE rest
<1> DEFINE q == InternalPrefix(mounted[i])
           r == q \o rest
<1>1. q \in Seq(Symbol)
  BY PrefixType, LenProperties, ElementOfSeq DEF Inv
<1>2. SubSeq(r, Len(q) + 1, Len(r)) = rest
  <2> HIDE DEF q
  <2> QED  BY <1>1, RequestBelow
<1>3. rest # <<>> => HasPrefix(rest, Root)
  BY BelowType
<1>4. Suffix(r, i) = LET left == SubSeq(r, Len(q) + 1, Len(r))
                     IN  IF left = <<>> THEN Root
                         ELSE IF ~HasPrefix(left, Root) THEN Root \o left ELSE left
  BY DEF Suffix
<1> HIDE DEF q, r
<1> QED  BY <1>2, <1>3, <1>4 DEF q, r

\* A route that takes a request away from "/" is the mount it is below.
LEMMA TakenFromRoot ==
  ASSUME NEW b \in Mount, b # Root, NEW rest \in Below,
         Under(InternalPrefix(Root) \o rest, InternalPrefix(b))
  PROVE  HasPrefix(rest, b)
<1> DEFINE pre == InternalPrefix(Root)
           q == InternalPrefix(b)
           r == pre \o rest
           m == Len(b)
           l == Len(rest)
<1>1. pre \in Seq(Symbol) /\ Len(pre) = 2
  BY RoutingAssumption DEF InternalPrefix, Symbol
<1>2. /\ m \in Nat \ {0} /\ b \in Seq(Symbol)
      /\ Len(q) = m + 2 /\ \A k \in 1..m : q[k + 2] = b[k]
  BY PrefixType
<1>3. rest \in Seq(Symbol) /\ l \in Nat
  BY BelowType, LenProperties
<1>4. Len(r) = 2 + l /\ \A k \in 1..l : r[2 + k] = rest[k]
  <2>1. /\ Len(r) = Len(pre) + l
        /\ \A k \in 1..l : r[Len(pre) + k] = rest[k]
    <3> HIDE DEF pre
    <3> QED  BY <1>1, RequestBelow
  <2> HIDE DEF pre, r, l
  <2> QED  BY <1>1, <2>1
<1>5. Len(q) <= Len(r) /\ \A k \in 1..Len(q) : q[k] = r[k]
  BY DEF Under
<1> HIDE DEF q, r, m, l
<1>6. m <= l
  <2>1. m + 2 <= 2 + l
    BY <1>2, <1>4, <1>5
  <2> QED  BY <1>2, <1>3, <2>1
<1>7. \A k \in 1..m : b[k] = rest[k]
  <2> TAKE k \in 1..m
  <2>1. k + 2 \in 1..(m + 2) /\ k \in 1..l /\ 2 + k = k + 2
    BY <1>2, <1>3, <1>6
  <2>2. b[k] = q[k + 2] /\ q[k + 2] = r[k + 2] /\ r[k + 2] = rest[k]
    BY <1>2, <1>4, <1>5, <2>1
  <2> QED  BY <2>2
<1> QED  BY <1>2, <1>3, <1>6, <1>7, PrefixPoints DEF HasPrefix, m, l

\* A route serves its mount and what has the mount and a further slash before
\* it, and hands on the rest of the path; "/" serves what no other route does
\* (Registry.Match).  That is everything below a mount without a slash at its
\* end; of one with a slash it leaves the requests out that Match refuses.
THEOREM MountsServed == RouteSpec => []RoutesServeTheirMounts
<1>1. Inv => RoutesServeTheirMounts
  <2> SUFFICES ASSUME Inv, NEW i \in DOMAIN mounted, NEW rest \in Below
               PROVE  LET request == InternalPrefix(mounted[i]) \o rest
                      IN  /\ Best(request) # {}
                          /\ mounted[i] # Root => i \in Best(request)
                          /\ \A j \in Best(request) :
                               \/ /\ i = j
                                  /\ Suffix(request, j) = IF rest = <<>> THEN Root ELSE rest
                               \/ mounted[i] = Root /\ HasPrefix(rest, mounted[j])
    BY DEF RoutesServeTheirMounts
  <2> DEFINE q == InternalPrefix(mounted[i])
             r == q \o rest
  <2>1. mounted[i] \in Mount /\ q \in Seq(Symbol)
    BY PrefixType, LenProperties, ElementOfSeq DEF Inv
  <2>2. r \in Seq(Symbol) /\ Under(r, q)
    <3> HIDE DEF q
    <3> QED  BY <2>1, RequestBelow
  <2>3. i \in Candidates(r)
    BY <2>2, CandidatePoints
  <2>4. Best(r) # {}
    <3> HIDE DEF r
    <3> QED  BY <2>2, <2>3, SomeBest
  <2>5. ASSUME mounted[i] # Root
        PROVE  i \in Best(r)
    <3> HIDE DEF r
    <3> QED  BY <2>2, <2>3, <2>5, NoneLonger DEF Best
  <2>6. ASSUME NEW j \in Best(r)
        PROVE  \/ i = j /\ Suffix(r, j) = IF rest = <<>> THEN Root ELSE rest
               \/ mounted[i] = Root /\ HasPrefix(rest, mounted[j])
    <3>1. CASE i = j
      BY <3>1, SuffixIsRest
    <3>2. CASE i # j
      <4>1. mounted[i] = Root
        <5> HIDE DEF r
        <5> QED  BY <2>2, <2>5, <2>6, <3>2, OneBest
      <4>2. j \in Candidates(r) /\ j \in DOMAIN mounted
        BY <2>6 DEF Best, Candidates
      <4>3. mounted[j] \in Mount /\ Under(r, InternalPrefix(mounted[j]))
        BY <2>2, <4>2, CandidatePoints
      <4>4. mounted[j] # Root
        BY <3>2, <4>1, <4>2, Apart
      <4> QED  BY <4>1, <4>3, <4>4, TakenFromRoot
    <3> QED  BY <3>1, <3>2
  <2> QED  BY <2>4, <2>5, <2>6 DEF r, q
<1> QED  BY <1>1, InitInv, NextInv, PTL DEF RouteSpec

-----------------------------------------------------------------------------
(***************************************************************************)
(* Where a symbol is in a string, and strings put together.                *)
(***************************************************************************)
\* The last position of a symbol, when it has one.
LEMMA LastPosition ==
  ASSUME NEW S, NEW s \in Seq(S), NEW c
  PROVE  /\ ~Has(s, c) => LastOf(s, c) = 0
         /\ Has(s, c) => /\ LastOf(s, c) \in 1..Len(s) /\ s[LastOf(s, c)] = c
                         /\ \A j \in 1..Len(s) : s[j] = c => j <= LastOf(s, c)
<1> DEFINE V == {i \in 1..Len(s) : s[i] = c}
<1>1. DOMAIN s = 1..Len(s) /\ Len(s) \in Nat
  BY LenProperties
<1>2. ASSUME Has(s, c)
      PROVE  /\ LastOf(s, c) \in 1..Len(s) /\ s[LastOf(s, c)] = c
             /\ \A j \in 1..Len(s) : s[j] = c => j <= LastOf(s, c)
  <2>1. V # {}
    BY <1>1, <1>2 DEF Has
  <2>2. \E m \in V : \A k \in V : k <= m
    <3>1. V \subseteq 1..Len(s)
      OBVIOUS
    <3> HIDE DEF V
    <3> QED  BY <1>1, <2>1, <3>1, Greatest
  <2>3. \E i \in DOMAIN s : s[i] = c /\ \A j \in DOMAIN s : s[j] = c => j <= i
    BY <1>1, <2>2
  <2> QED  BY <1>1, <1>2, <2>3 DEF LastOf
<1> QED  BY <1>2 DEF LastOf

\* The first position of a symbol, when it has one.
LEMMA FirstPosition ==
  ASSUME NEW S, NEW s \in Seq(S), NEW c
  PROVE  /\ ~Has(s, c) => FirstOf(s, c) = 0
         /\ Has(s, c) => /\ FirstOf(s, c) \in 1..Len(s) /\ s[FirstOf(s, c)] = c
                         /\ \A j \in 1..Len(s) : s[j] = c => FirstOf(s, c) <= j
<1> DEFINE V == {i \in 1..Len(s) : s[i] = c}
<1>1. DOMAIN s = 1..Len(s) /\ Len(s) \in Nat
  BY LenProperties
<1>2. ASSUME Has(s, c)
      PROVE  /\ FirstOf(s, c) \in 1..Len(s) /\ s[FirstOf(s, c)] = c
             /\ \A j \in 1..Len(s) : s[j] = c => FirstOf(s, c) <= j
  <2>1. V # {}
    BY <1>1, <1>2 DEF Has
  <2>2. \E m \in V : \A k \in V : m <= k
    <3>1. V \subseteq 1..Len(s)
      OBVIOUS
    <3> HIDE DEF V
    <3> QED  BY <1>1, <2>1, <3>1, Least
  <2>3. \E i \in DOMAIN s : s[i] = c /\ \A j \in DOMAIN s : s[j] = c => i <= j
    BY <1>1, <2>2
  <2> QED  BY <1>1, <1>2, <2>3 DEF FirstOf
<1> QED  BY <1>2 DEF FirstOf

\* A part of a string, which may be empty.
LEMMA Part ==
  ASSUME NEW S, NEW s \in Seq(S), NEW a \in Nat \ {0}, NEW b \in 0..Len(s)
  PROVE  /\ SubSeq(s, a, b) \in Seq(S)
         /\ Len(SubSeq(s, a, b)) = IF a <= b THEN b - a + 1 ELSE 0
         /\ \A i \in 1..Len(SubSeq(s, a, b)) :
              SubSeq(s, a, b)[i] = s[a + i - 1] /\ a + i - 1 \in a..b
         /\ \A c : Has(SubSeq(s, a, b), c) => Has(s, c)
<1> DEFINE n == Len(s)
           u == SubSeq(s, a, b)
<1>1. n \in Nat /\ DOMAIN s = 1..n
  BY LenProperties
<1>2. \A i \in a..b : i \in 1..n
  <2> HIDE DEF n
  <2> QED  BY <1>1
<1>3. \A i \in a..b : s[i] \in S
  BY <1>2, ElementOfSeq
<1>4. a \in Int /\ b \in Int
  <2> HIDE DEF n
  <2> QED  BY <1>1
<1>5. /\ u \in Seq(S) /\ Len(u) = IF a <= b THEN b - a + 1 ELSE 0
      /\ \A i \in 1..(b - a + 1) : u[i] = s[a + i - 1]
  BY <1>3, <1>4, SubSeqProperties
<1> HIDE DEF u, n
<1>6. \A i \in 1..Len(u) : i \in 1..(b - a + 1) /\ a + i - 1 \in a..b
  <2>1. CASE a <= b
    BY <1>4, <1>5, <2>1
  <2>2. CASE ~(a <= b)
    BY <1>4, <1>5, <2>2
  <2> QED  BY <2>1, <2>2
<1>7. \A i \in 1..Len(u) : u[i] = s[a + i - 1] /\ a + i - 1 \in a..b
  BY <1>5, <1>6
<1>8. \A c : Has(u, c) => Has(s, c)
  <2>1. DOMAIN u = 1..Len(u)
    BY <1>5, LenProperties
  <2> QED  BY <1>1, <1>2, <1>7, <2>1 DEF Has
<1> QED  BY <1>5, <1>7, <1>8 DEF u

\* A string put together from two has the symbols of both, and they are its
\* parts.
LEMMA Halves ==
  ASSUME NEW S, NEW u \in Seq(S), NEW v \in Seq(S)
  PROVE  /\ u \o v \in Seq(S) /\ Len(u \o v) = Len(u) + Len(v)
         /\ \A i \in 1..Len(u) : (u \o v)[i] = u[i]
         /\ \A i \in 1..Len(v) : (u \o v)[Len(u) + i] = v[i]
         /\ SubSeq(u \o v, 1, Len(u)) = u
         /\ SubSeq(u \o v, Len(u) + 1, Len(u) + Len(v)) = v
         /\ \A c : Has(u \o v, c) <=> Has(u, c) \/ Has(v, c)
<1> DEFINE s == u \o v
           n == Len(u)
           m == Len(v)
<1>1. n \in Nat /\ m \in Nat /\ DOMAIN u = 1..n /\ DOMAIN v = 1..m
  BY LenProperties
<1>2. /\ s \in Seq(S) /\ Len(s) = n + m
      /\ \A i \in 1..(n + m) : s[i] = IF i <= n THEN u[i] ELSE v[i - n]
  BY ConcatProperties
<1>3. DOMAIN s = 1..(n + m)
  BY <1>2, LenProperties
<1> HIDE DEF s, n, m
<1>4. \A i \in 1..n : s[i] = u[i] /\ i \in 1..(n + m)
  <2> TAKE i \in 1..n
  <2>1. i \in 1..(n + m) /\ i <= n
    BY <1>1
  <2> QED  BY <1>2, <2>1
<1>5. \A i \in 1..m : s[n + i] = v[i] /\ n + i \in 1..(n + m)
  <2> TAKE i \in 1..m
  <2> DEFINE k == n + i
  <2>1. k \in 1..(n + m) /\ ~(k <= n) /\ k - n = i
    BY <1>1
  <2> HIDE DEF k
  <2>2. s[k] = v[i]
    BY <1>2, <2>1
  <2> QED  BY <2>1, <2>2 DEF k
<1>6. SubSeq(s, 1, n) = u
  <2> DEFINE p == SubSeq(s, 1, n)
  <2>1. n \in 0..Len(s) /\ 1 \in Nat \ {0}
    BY <1>1, <1>2
  <2>2. /\ p \in Seq(S) /\ Len(p) = IF 1 <= n THEN n - 1 + 1 ELSE 0
        /\ \A i \in 1..Len(p) : p[i] = s[1 + i - 1]
    BY <1>2, <2>1, Part
  <2> HIDE DEF p
  <2>3. Len(p) = n
    BY <1>1, <2>2
  <2>4. \A i \in 1..n : p[i] = u[i]
    <3> TAKE i \in 1..n
    <3>1. 1 + i - 1 = i
      BY <1>1
    <3> QED  BY <1>4, <2>2, <2>3, <3>1
  <2> QED  BY <2>2, <2>3, <2>4, SeqEqual DEF p, n
<1>7. SubSeq(s, n + 1, n + m) = v
  <2> DEFINE a == n + 1
             b == n + m
             p == SubSeq(s, a, b)
  <2>1. /\ b \in 0..Len(s) /\ a \in Nat \ {0}
        /\ (IF a <= b THEN b - a + 1 ELSE 0) = m
        /\ \A i \in 1..m : a + i - 1 = n + i
    BY <1>1, <1>2
  <2> HIDE DEF a, b
  <2>2. /\ p \in Seq(S) /\ Len(p) = IF a <= b THEN b - a + 1 ELSE 0
        /\ \A i \in 1..Len(p) : p[i] = s[a + i - 1]
    BY <1>2, <2>1, Part
  <2> HIDE DEF p
  <2>3. Len(p) = m
    BY <2>1, <2>2
  <2>4. \A i \in 1..m : p[i] = v[i]
    BY <1>5, <2>1, <2>2, <2>3
  <2> QED  BY <2>2, <2>3, <2>4, SeqEqual DEF p, m, a, b
<1>8. ASSUME NEW c
      PROVE  Has(s, c) <=> Has(u, c) \/ Has(v, c)
  <2>1. ASSUME NEW i \in 1..(n + m)
        PROVE  i \in 1..n \/ \E k \in 1..m : i = n + k
    <3>1. CASE i <= n
      BY <1>1, <3>1
    <3>2. CASE ~(i <= n)
      <4>1. i - n \in 1..m /\ i = n + (i - n)
        BY <1>1, <3>2
      <4> QED  BY <4>1
    <3> QED  BY <3>1, <3>2
  <2>2. ASSUME NEW i \in 1..(n + m), s[i] = c
        PROVE  Has(u, c) \/ Has(v, c)
    <3>1. CASE i \in 1..n
      BY <1>1, <1>4, <2>2, <3>1 DEF Has
    <3>2. ASSUME NEW k \in 1..m, i = n + k
          PROVE  Has(v, c)
      BY <1>1, <1>5, <2>2, <3>2 DEF Has
    <3> QED  BY <2>1, <3>1, <3>2
  <2>3. Has(u, c) => Has(s, c)
    BY <1>1, <1>3, <1>4 DEF Has
  <2>4. Has(v, c) => Has(s, c)
    BY <1>1, <1>3, <1>5 DEF Has
  <2> QED  BY <1>3, <2>2, <2>3, <2>4 DEF Has
<1> QED  BY <1>2, <1>4, <1>5, <1>6, <1>7, <1>8 DEF s, n, m

\* A blank is none of the symbols with a meaning.
Blank == " "

LEMMA BlankApart ==
  Blank \notin {"http://", "localhost", "a", "8", ":", "/", "[", "]"}
BY Zenon DEF Blank

\* The symbols of a target.
Letter == TargetChar \cup {"http://", "localhost", "a", "8", ":", "/", "[", "]"}
Digits == Seq({"8"})

\* A port is a string of digits.
LEMMA DigitsType ==
  ASSUME NEW port \in Digits
  PROVE  /\ port \in Seq(Letter) /\ \A i \in DOMAIN port : port[i] = "8"
         /\ \A c : Has(port, c) => c = "8"
         /\ port = <<>> \/ IsNumber(port)
<1>1. port \in Seq({"8"}) /\ {"8"} \subseteq Letter
  BY DEF Digits, Letter
<1>2. port \in Seq(Letter)
  BY <1>1, SeqMonotonic
<1>3. \A i \in DOMAIN port : port[i] = "8"
  <2>1. DOMAIN port = 1..Len(port)
    BY <1>1, LenProperties
  <2> QED  BY <1>1, <2>1, ElementOfSeq
<1> QED  BY <1>2, <1>3 DEF Has, IsNumber

\* A position that has the symbol and none after it is the last.
LEMMA LastIs ==
  ASSUME NEW S, NEW s \in Seq(S), NEW c, NEW k \in 1..Len(s), s[k] = c,
         \A j \in 1..Len(s) : s[j] = c => j <= k
  PROVE  LastOf(s, c) = k
<1> DEFINE l == LastOf(s, c)
           n == Len(s)
<1>1. n \in Nat /\ DOMAIN s = 1..n
  BY LenProperties
<1>2. Has(s, c)
  BY <1>1 DEF Has
<1>3. l \in 1..n /\ s[l] = c /\ \A j \in 1..n : s[j] = c => j <= l
  BY <1>2, LastPosition
<1>4. l <= k /\ k <= l /\ k \in 1..n
  <2> HIDE DEF l
  <2> QED  BY <1>3
<1> HIDE DEF l, n
<1> QED  BY <1>1, <1>3, <1>4 DEF l

\* A name and a port, and an address in brackets.
Joined(name, port) == name \o <<":">> \o port
Bracket(ip) == <<"[">> \o ip \o <<"]">>

\* The last colon parts a name from a port.
Parted(s, name, port) ==
  /\ s \in Seq(Letter) /\ Len(s) \in Nat /\ Len(name) \in Nat /\ Len(name) + 1 \in 1..Len(s)
  /\ s[Len(name) + 1] = ":"
  /\ \A i \in 1..Len(name) : s[i] = name[i]
  /\ LastOf(s, ":") = Len(name) + 1
  /\ Before(s, Len(name) + 1) = name
  /\ After(s, Len(name) + 1) = port
  /\ SubSeq(s, Len(name) + 1, Len(s)) = <<":">> \o port
  /\ ValidOptionalPort(<<":">> \o port)
  /\ \A c : Has(s, c) <=> Has(name, c) \/ c = ":" \/ Has(port, c)

\* A name and a port are parted at the last colon.
LEMMA NameAndPort ==
  ASSUME NEW name \in Seq(Letter), NEW port \in Digits, NEW s, s = Joined(name, port)
  PROVE  Parted(s, name, port)
<1> DEFINE one == <<":">>
           left == name \o one
           tail == one \o port
           n == Len(name)
           m == Len(port)
<1>1. /\ one \in Seq(Letter) /\ Len(one) = 1 /\ one[1] = ":"
      /\ \A c : Has(one, c) <=> c = ":"
  <2>1. one \in Seq(Letter) /\ Len(one) = 1 /\ one[1] = ":"
    BY DEF Letter
  <2> HIDE DEF one
  <2>2. DOMAIN one = {1}
    <3>1. DOMAIN one = 1..1
      BY <2>1, LenProperties
    <3> QED  BY <3>1
  <2> QED  BY <2>1, <2>2 DEF Has
<1>2. /\ port \in Seq(Letter) /\ n \in Nat /\ m \in Nat /\ DOMAIN port = 1..m
      /\ \A i \in 1..m : port[i] = "8"
  BY DigitsType, LenProperties
<1>3. s = left \o port
  BY DEF Joined
<1> HIDE DEF one
<1>4. s = name \o tail
  <2>1. one \in Seq(Letter) /\ port \in Seq(Letter)
    BY <1>1, <1>2
  <2>2. (name \o one) \o port = name \o (one \o port)
    BY <2>1, ConcatAssociative
  <2> QED  BY <1>3, <2>2
<1>5. /\ left \in Seq(Letter) /\ Len(left) = n + 1
      /\ \A i \in 1..n : left[i] = name[i]
      /\ \A i \in 1..Len(one) : left[n + i] = one[i]
      /\ \A c : Has(left, c) <=> Has(name, c) \/ Has(one, c)
  <2>1. one \in Seq(Letter) /\ name \in Seq(Letter)
    BY <1>1
  <2>2. /\ left \in Seq(Letter) /\ Len(left) = n + Len(one)
        /\ \A i \in 1..n : left[i] = name[i]
        /\ \A i \in 1..Len(one) : left[n + i] = one[i]
        /\ \A c : Has(left, c) <=> Has(name, c) \/ Has(one, c)
    BY <2>1, Halves
  <2> HIDE DEF left, n
  <2> QED  BY <1>1, <2>2
<1>6. /\ tail \in Seq(Letter) /\ Len(tail) = 1 + m
      /\ \A i \in 1..Len(one) : tail[i] = one[i]
      /\ \A i \in 1..m : tail[1 + i] = port[i]
  <2>1. one \in Seq(Letter) /\ port \in Seq(Letter)
    BY <1>1, <1>2
  <2>2. /\ tail \in Seq(Letter) /\ Len(tail) = Len(one) + m
        /\ \A i \in 1..Len(one) : tail[i] = one[i]
        /\ \A i \in 1..m : tail[Len(one) + i] = port[i]
    BY <2>1, Halves
  <2> HIDE DEF tail, m
  <2> QED  BY <1>1, <2>2
<1> HIDE DEF left, tail
<1>7. /\ s \in Seq(Letter) /\ Len(s) = Len(left) + m
      /\ \A i \in 1..Len(left) : s[i] = left[i]
      /\ \A i \in 1..m : s[Len(left) + i] = port[i]
      /\ SubSeq(s, Len(left) + 1, Len(left) + m) = port
      /\ \A c : Has(s, c) <=> Has(left, c) \/ Has(port, c)
  <2>1. left \in Seq(Letter) /\ port \in Seq(Letter)
    BY <1>2, <1>5
  <2>2. /\ left \o port \in Seq(Letter) /\ Len(left \o port) = Len(left) + m
        /\ \A i \in 1..Len(left) : (left \o port)[i] = left[i]
        /\ \A i \in 1..m : (left \o port)[Len(left) + i] = port[i]
        /\ SubSeq(left \o port, Len(left) + 1, Len(left) + m) = port
        /\ \A c : Has(left \o port, c) <=> Has(left, c) \/ Has(port, c)
    BY <2>1, Halves
  <2> HIDE DEF m
  <2> QED  BY <1>3, <2>2, Zenon
<1>8. /\ SubSeq(s, 1, n) = name
      /\ SubSeq(s, n + 1, n + Len(tail)) = tail
  BY <1>4, <1>6, Halves
<1> DEFINE at == n + 1
           l == Len(s)
<1>9. /\ l = at + m /\ l = n + Len(tail) /\ l = Len(left) + m /\ l \in Nat
      /\ at \in 1..l /\ at - 1 = n /\ at \in 1..at /\ Len(left) = at /\ at \in Nat
      /\ \A i \in 1..n : i \in 1..at
      /\ at = n + 1
  <2> HIDE DEF n, m
  <2> QED  BY <1>2, <1>5, <1>6, <1>7
<1> HIDE DEF n, m, at
<1>10. s[at] = ":" /\ \A i \in 1..n : s[i] = name[i]
  <2>1. left[n + 1] = one[1]
    <3>1. 1 \in 1..Len(one)
      BY <1>1
    <3> QED  BY <1>5, <3>1
  <2>2. left[at] = ":"
    BY <1>1, <2>1 DEF at
  <2> QED  BY <1>5, <1>7, <1>9, <2>2
<1> HIDE DEF l
<1>11. \A j \in 1..l : s[j] = ":" => j <= at
  <2> SUFFICES ASSUME NEW j \in 1..l, ~(j <= at)
               PROVE  s[j] # ":"
    OBVIOUS
  <2> DEFINE i == j - at
  <2>1. i \in 1..m /\ j = at + i
    BY <1>2, <1>9
  <2> HIDE DEF i
  <2> QED  BY <1>2, <1>7, <1>9, <2>1
<1>12. LastOf(s, ":") = at
  <2>1. s \in Seq(Letter) /\ at \in 1..Len(s) /\ s[at] = ":"
        /\ \A j \in 1..Len(s) : s[j] = ":" => j <= at
    BY <1>7, <1>9, <1>10, <1>11 DEF l
  <2> QED  BY <2>1, LastIs
<1>13. Before(s, at) = name
  BY <1>8, <1>9 DEF Before
<1>14. After(s, at) = port
  BY <1>7, <1>9 DEF After, l
<1>15. SubSeq(s, at, l) = tail
  BY <1>8, <1>9
<1>16. ValidOptionalPort(tail)
  <2>1. Len(tail) # 0 /\ 1 \in 1..Len(one)
    BY <1>1, <1>2, <1>6
  <2>2. Head(tail) = ":"
    <3>1. tail # <<>> /\ Head(tail) = tail[1]
      BY <1>6, <2>1, EmptySeq
    <3> QED  BY <1>1, <1>6, <2>1, <3>1
  <2>3. \A i \in 2..Len(tail) : tail[i] = "8"
    <3> TAKE i \in 2..Len(tail)
    <3> DEFINE k == i - 1
    <3>1. k \in 1..m /\ i = 1 + k
      BY <1>2, <1>6
    <3> HIDE DEF k
    <3> QED  BY <1>2, <1>6, <3>1
  <2> QED  BY <2>2, <2>3 DEF ValidOptionalPort
<1>17. \A c : Has(s, c) <=> Has(name, c) \/ c = ":" \/ Has(port, c)
  BY <1>1, <1>5, <1>7
<1> QED
  BY <1>2, <1>7, <1>9, <1>10, <1>12, <1>13, <1>14, <1>15, <1>16, <1>17
     DEF n, tail, one, at, l, Parted

\* A part that is known symbol by symbol.
LEMMA PartIs ==
  ASSUME NEW S, NEW s \in Seq(S), NEW t \in Seq(S), NEW a \in Nat \ {0}, NEW b \in 0..Len(s),
         Len(t) = b + 1 - a, \A i \in 1..Len(t) : t[i] = s[a + i - 1]
  PROVE  SubSeq(s, a, b) = t
<1> DEFINE u == SubSeq(s, a, b)
           m == Len(t)
<1>1. /\ u \in Seq(S) /\ Len(u) = IF a <= b THEN b - a + 1 ELSE 0
      /\ \A i \in 1..Len(u) : u[i] = s[a + i - 1]
  BY Part
<1>2. m \in Nat /\ Len(s) \in Nat
  BY LenProperties
<1> HIDE DEF u, m
<1>3. Len(u) = m
  <2>1. m = b + 1 - a
    BY DEF m
  <2>2. CASE a <= b
    BY <1>1, <1>2, <2>1, <2>2
  <2>3. CASE ~(a <= b)
    BY <1>1, <1>2, <2>1, <2>3
  <2> QED  BY <2>2, <2>3
<1>4. \A i \in 1..Len(u) : u[i] = t[i]
  BY <1>1, <1>3 DEF m
<1> QED  BY <1>1, <1>3, <1>4, SeqEqual DEF u, m

\* The ends of a string.
LEMMA Ends ==
  ASSUME NEW S, NEW s \in Seq(S), s # <<>>
  PROVE  /\ Len(s) \in Nat \ {0} /\ DOMAIN s = 1..Len(s) /\ 1 \in 1..Len(s) /\ Len(s) \in 1..Len(s)
         /\ Head(s) = s[1] /\ Last(s) = s[Len(s)]
<1>1. Len(s) \in Nat \ {0} /\ DOMAIN s = 1..Len(s)
  BY EmptySeq, LenProperties
<1>2. 1 \in 1..Len(s) /\ Len(s) \in 1..Len(s)
  BY <1>1
<1>3. Head(s) = s[1]
  BY <1>1
<1> QED  BY <1>1, <1>2, <1>3 DEF Last

\* A name in brackets.
LEMMA Bracketed ==
  ASSUME NEW ip \in Seq(Letter), NEW b, b = Bracket(ip)
  PROVE  /\ b \in Seq(Letter) /\ Len(b) = Len(ip) + 2 /\ Len(ip) \in Nat
         /\ b[1] = "[" /\ b[Len(ip) + 2] = "]" /\ \A i \in 1..Len(ip) : b[i + 1] = ip[i]
         /\ b # <<>> /\ Head(b) = "[" /\ Last(b) = "]"
         /\ \A c : Has(b, c) <=> Has(ip, c) \/ c = "[" \/ c = "]"
         /\ SubSeq(b, 2, Len(b) - 1) = ip
<1> DEFINE open == <<"[">>
           close == <<"]">>
           left == open \o ip
           n == Len(ip)
<1>1. /\ open \in Seq(Letter) /\ Len(open) = 1 /\ open[1] = "["
      /\ close \in Seq(Letter) /\ Len(close) = 1 /\ close[1] = "]"
  BY DEF Letter
<1>2. b = left \o close
  BY DEF Bracket
<1> HIDE DEF open, close
<1>3. (\A c : Has(open, c) <=> c = "[") /\ (\A c : Has(close, c) <=> c = "]")
  <2>1. DOMAIN open = 1..1 /\ DOMAIN close = 1..1
    BY <1>1, LenProperties
  <2>2. DOMAIN open = {1} /\ DOMAIN close = {1}
    BY <2>1
  <2> QED  BY <1>1, <2>2 DEF Has
<1>4. n \in Nat
  BY LenProperties
<1>5. /\ left \in Seq(Letter) /\ Len(left) = Len(open) + n
      /\ \A i \in 1..Len(open) : left[i] = open[i]
      /\ \A i \in 1..n : left[Len(open) + i] = ip[i]
      /\ \A c : Has(left, c) <=> Has(open, c) \/ Has(ip, c)
  <2>1. open \in Seq(Letter) /\ ip \in Seq(Letter)
    BY <1>1
  <2> QED  BY <2>1, Halves
<1> HIDE DEF left, n
<1>6. /\ left \o close \in Seq(Letter) /\ Len(left \o close) = Len(left) + Len(close)
      /\ \A i \in 1..Len(left) : (left \o close)[i] = left[i]
      /\ \A i \in 1..Len(close) : (left \o close)[Len(left) + i] = close[i]
      /\ \A c : Has(left \o close, c) <=> Has(left, c) \/ Has(close, c)
  <2>1. left \in Seq(Letter) /\ close \in Seq(Letter)
    BY <1>1, <1>5
  <2> QED  BY <2>1, Halves
<1>7. /\ b \in Seq(Letter) /\ Len(b) = Len(left) + Len(close)
      /\ \A i \in 1..Len(left) : b[i] = left[i]
      /\ \A i \in 1..Len(close) : b[Len(left) + i] = close[i]
      /\ \A c : Has(b, c) <=> Has(left, c) \/ Has(close, c)
  BY <1>2, <1>6, Zenon
<1>8. /\ Len(left) = n + 1 /\ Len(b) = n + 2 /\ Len(left) + 1 = n + 2 /\ 1 \in 1..1
      /\ 1 \in 1..Len(left) /\ \A i \in 1..n : i + 1 \in 1..Len(left) /\ 1 + i = i + 1
  BY <1>1, <1>4, <1>5, <1>7
<1>9. b[1] = "["
  BY <1>1, <1>5, <1>7, <1>8
<1>10. b[n + 2] = "]"
  BY <1>1, <1>7, <1>8
<1>11. \A i \in 1..n : b[i + 1] = ip[i]
  BY <1>1, <1>5, <1>7, <1>8
<1>12. \A c : Has(b, c) <=> Has(ip, c) \/ c = "[" \/ c = "]"
  BY <1>3, <1>5, <1>7
<1>13. b # <<>> /\ Head(b) = "[" /\ Last(b) = "]"
  <2>1. b # <<>>
    <3>1. Len(b) # 0
      BY <1>4, <1>8
    <3> QED  BY <3>1, EmptySeq
  <2> QED  BY <1>7, <1>8, <1>9, <1>10, <2>1, Ends
<1>14. SubSeq(b, 2, Len(b) - 1) = ip
  <2> DEFINE e == n + 1
  <2>1. e \in 0..Len(b) /\ n = e + 1 - 2 /\ Len(b) - 1 = e /\ \A i \in 1..n : 2 + i - 1 = i + 1
    BY <1>4, <1>8
  <2> HIDE DEF e
  <2>2. \A i \in 1..n : ip[i] = b[2 + i - 1]
    BY <1>11, <2>1
  <2>3. SubSeq(b, 2, e) = ip
    BY <1>7, <2>1, <2>2, PartIs DEF n
  <2> QED  BY <2>1, <2>3
<1> QED  BY <1>4, <1>7, <1>8, <1>9, <1>10, <1>11, <1>12, <1>13, <1>14 DEF n

-----------------------------------------------------------------------------
(***************************************************************************)
(* What url.Parse makes of the host of a URL.                              *)
(***************************************************************************)
\* The host is what is before the path.
Authority(s) == IF Has(s, "/") THEN Before(s, FirstOf(s, "/")) ELSE s

ParseHost(a) ==
  LET colon == LastOf(a, ":")
      split == colon # 0 /\ ValidOptionalPort(SubSeq(a, colon, Len(a)))
      name == IF split THEN Before(a, colon) ELSE a
      quoted == name # <<>> /\ Head(name) = "[" /\ Last(name) = "]"
  IN  IF ~ValidHost(a) THEN Error
      ELSE [ok |-> TRUE, host |-> a,
            hostname |-> IF quoted THEN SubSeq(name, 2, Len(name) - 1) ELSE name,
            port |-> IF split THEN After(a, colon) ELSE <<>>]

\* url.Parse reads the host and leaves the path alone.
LEMMA UrlIsHost == \A s : UrlParse(s) = ParseHost(Authority(s))
  BY DEF UrlParse, ParseHost, Authority

\* The host name without the brackets of an address.
Unquoted(name) ==
  IF name # <<>> /\ Head(name) = "[" /\ Last(name) = "]"
    THEN SubSeq(name, 2, Len(name) - 1) ELSE name

\* A host with a port is split at its last colon.
LEMMA SplitHost ==
  ASSUME NEW a, ValidHost(a), NEW at, at = LastOf(a, ":"), at # 0,
         ValidOptionalPort(SubSeq(a, at, Len(a)))
  PROVE  ParseHost(a) = [ok |-> TRUE, host |-> a,
                         hostname |-> Unquoted(Before(a, at)), port |-> After(a, at)]
  BY Zenon DEF ParseHost, Unquoted

\* A host without a port is not.
LEMMA WholeHost ==
  ASSUME NEW a, ValidHost(a), NEW at, at = LastOf(a, ":"),
         ~(at # 0 /\ ValidOptionalPort(SubSeq(a, at, Len(a))))
  PROVE  ParseHost(a) = [ok |-> TRUE, host |-> a, hostname |-> Unquoted(a), port |-> <<>>]
  BY Zenon DEF ParseHost, Unquoted

\* A host name, which is no address in brackets and has no port.
Plain(name) == Without(name, {Blank, "/", ":", "["})

\* What a host name does not have.
LEMMA PlainHas ==
  ASSUME NEW name
  PROVE  Plain(name) <=>
           ~Has(name, Blank) /\ ~Has(name, "/") /\ ~Has(name, ":") /\ ~Has(name, "[")
  BY DEF Plain, Without, Has, Blank

\* A name alone is the host name.
LEMMA PlainHost ==
  ASSUME NEW name \in Seq(Letter), Plain(name)
  PROVE  ParseHost(name) = [ok |-> TRUE, host |-> name, hostname |-> name, port |-> <<>>]
<1>1. ~Has(name, Blank) /\ ~Has(name, ":") /\ ~Has(name, "[")
  BY PlainHas
<1>2. LastOf(name, ":") = 0
  BY <1>1, LastPosition
<1>3. ~(name # <<>> /\ Head(name) = "[")
  <2> SUFFICES ASSUME name # <<>>
               PROVE  Head(name) # "["
    OBVIOUS
  <2> QED  BY <1>1, Ends DEF Has
<1>4. ValidHost(name)
  BY <1>1 DEF ValidHost, Without, Has, Blank
<1> QED  BY <1>2, <1>3, <1>4 DEF ParseHost

\* A name and a port are what they are.
LEMMA PlainHostAndPort ==
  ASSUME NEW name \in Seq(Letter), Plain(name), NEW port \in Digits,
         NEW s, s = Joined(name, port)
  PROVE  /\ ParseHost(s) = [ok |-> TRUE, host |-> s, hostname |-> name, port |-> port]
         /\ ~Has(s, "/") /\ ~Has(s, Blank)
<1>1. ~Has(name, Blank) /\ ~Has(name, "/") /\ ~Has(name, ":") /\ ~Has(name, "[")
  BY PlainHas
<1>2. \A c : Has(port, c) => c = "8"
  BY DigitsType
<1> DEFINE at == Len(name) + 1
           tail == <<":">> \o port
<1>0. Parted(s, name, port)
  BY NameAndPort
<1>3. /\ LastOf(s, ":") = at /\ Before(s, at) = name /\ After(s, at) = port
      /\ SubSeq(s, at, Len(s)) = tail /\ ValidOptionalPort(tail)
  BY <1>0, Zenon DEF Parted
<1>4. \A c : Has(s, c) <=> Has(name, c) \/ c = ":" \/ Has(port, c)
  BY <1>0, Zenon DEF Parted
<1>5. at # 0
  <2>1. Len(name) \in Nat
    BY LenProperties
  <2> QED  BY <2>1
<1> HIDE DEF at, tail
<1>6. Unquoted(name) = name
  <2> SUFFICES ASSUME name # <<>>
               PROVE  Head(name) # "["
    BY DEF Unquoted
  <2> QED  BY <1>1, Ends DEF Has
<1>7. ~Has(s, Blank) /\ ~Has(s, "/") /\ ~Has(s, "[")
  BY <1>1, <1>2, <1>4, BlankApart
<1>8. ValidHost(s)
  BY <1>3, <1>7 DEF ValidHost, Without, Has, Blank
<1> QED  BY <1>3, <1>5, <1>6, <1>7, <1>8, SplitHost

\* The symbols of an address; two colons are among them.
LEMMA AddressHas ==
  ASSUME NEW ip \in Seq(Letter), IsIPv6(ip)
  PROVE  /\ \A c : Has(ip, c) => c \in {"a", "8", ":"}
         /\ Has(ip, ":")
<1>1. DOMAIN ip = 1..Len(ip) /\ Len(ip) \in Nat
  BY LenProperties
<1>2. \A c : Has(ip, c) => c \in {"a", "8", ":"}
  BY DEF IsIPv6, Has
<1>3. Has(ip, ":")
  <2> DEFINE double == {i \in 1..(Len(ip) - 1) : ip[i] = ":" /\ ip[i + 1] = ":"}
  <2>1. Cardinality(double) = 1
    BY DEF IsIPv6
  <2>2. double # {}
    BY <2>1, FS_EmptySet
  <2>3. PICK i \in 1..(Len(ip) - 1) : ip[i] = ":"
    BY <2>2
  <2>4. i \in 1..Len(ip)
    BY <1>1, <2>3
  <2> QED  BY <1>1, <2>3, <2>4 DEF Has
<1> QED  BY <1>2, <1>3

\* An address in brackets and a port are what they are.
LEMMA AddressAndPort ==
  ASSUME NEW ip \in Seq(Letter), IsIPv6(ip), NEW port \in Digits,
         NEW s, s = Joined(Bracket(ip), port)
  PROVE  /\ ParseHost(s) = [ok |-> TRUE, host |-> s, hostname |-> ip, port |-> port]
         /\ ~Has(s, "/") /\ ~Has(s, Blank)
<1> DEFINE b == Bracket(ip)
           k == Len(ip)
           at == Len(b) + 1
           tail == <<":">> \o port
<1>1. /\ b \in Seq(Letter) /\ Len(b) = k + 2 /\ k \in Nat
      /\ b[1] = "[" /\ b[k + 2] = "]" /\ \A i \in 1..k : b[i + 1] = ip[i]
      /\ b # <<>> /\ Head(b) = "[" /\ Last(b) = "]"
      /\ \A c : Has(b, c) <=> Has(ip, c) \/ c = "[" \/ c = "]"
      /\ SubSeq(b, 2, Len(b) - 1) = ip
  BY Bracketed
<1> HIDE DEF b
<1>2. s = Joined(b, port)
  BY DEF b
<1>0. Parted(s, b, port)
  <2>1. b \in Seq(Letter)
    BY <1>1
  <2> QED  BY <1>2, <2>1, NameAndPort
<1>3. /\ s \in Seq(Letter) /\ Len(s) \in Nat /\ at \in 1..Len(s) /\ s[at] = ":"
      /\ \A i \in 1..Len(b) : s[i] = b[i]
  BY <1>0, Zenon DEF Parted
<1>4. /\ LastOf(s, ":") = at /\ Before(s, at) = b /\ After(s, at) = port
      /\ SubSeq(s, at, Len(s)) = tail /\ ValidOptionalPort(tail)
  BY <1>0, Zenon DEF Parted
<1>5. \A c : Has(s, c) <=> Has(b, c) \/ c = ":" \/ Has(port, c)
  BY <1>0, Zenon DEF Parted
<1>6. \A i \in 1..Len(s) : i > at => s[i] = "8"
  <2> SUFFICES ASSUME NEW i \in 1..Len(s), i > at
               PROVE  s[i] = "8"
    OBVIOUS
  <2> DEFINE j == i - at
  <2>1. port \in Seq(Letter) /\ DOMAIN port = 1..Len(port) /\ \A x \in DOMAIN port : port[x] = "8"
    BY DigitsType, LenProperties
  <2>2. After(s, at) = SubSeq(s, at + 1, Len(s))
    BY DEF After
  <2> DEFINE a == at + 1
             l == Len(s)
  <2>3. a \in Nat \ {0} /\ l \in 0..Len(s) /\ a <= l
    BY <1>1, <1>3
  <2> HIDE DEF at, a
  <2>4. /\ Len(SubSeq(s, a, l)) = l - a + 1
        /\ \A x \in 1..Len(SubSeq(s, a, l)) : SubSeq(s, a, l)[x] = s[a + x - 1]
    <3> HIDE DEF l
    <3> QED  BY <1>3, <2>3, Part
  <2>5. port = SubSeq(s, a, l)
    BY <1>4, <2>2 DEF a
  <2>6. j \in 1..Len(port) /\ a + j - 1 = i
    BY <1>3, <2>3, <2>4, <2>5 DEF a
  <2> HIDE DEF j, l
  <2> QED  BY <2>1, <2>4, <2>5, <2>6
<1>7. \A c : Has(port, c) => c = "8"
  BY DigitsType
<1>8. \A c : Has(ip, c) => c \in {"a", "8", ":"}
  BY AddressHas
<1>9. ~Has(s, Blank) /\ ~Has(s, "/") /\ Has(s, "[") /\ Has(s, "]")
  BY <1>1, <1>5, <1>7, <1>8, BlankApart
<1> DEFINE close == k + 2
<1>10. /\ close \in 1..Len(s) /\ close + 1 = at /\ close = Len(b) /\ close - 1 \in 0..Len(s)
       /\ at \in Nat /\ at # 0 /\ close - 1 = k + 1
       /\ \A i \in 1..k : i + 1 \in 1..Len(b) /\ 2 + i - 1 = i + 1
  BY <1>1, <1>3
<1>11. s[close] = "]" /\ s[1] = "["
  <2>1. close \in 1..Len(b) /\ 1 \in 1..Len(b)
    BY <1>1, <1>10
  <2> QED  BY <1>1, <1>3, <2>1
<1>12. LastOf(s, "]") = close
  <2>1. \A i \in 1..Len(s) : s[i] = "]" => i <= close
    <3> SUFFICES ASSUME NEW i \in 1..Len(s), s[i] = "]", ~(i <= close)
                 PROVE  FALSE
      OBVIOUS
    <3>1. i = at \/ i > at
      BY <1>10
    <3> QED  BY <1>3, <1>6, <3>1
  <2> QED  BY <1>3, <1>10, <1>11, <2>1, LastIs
<1>13. SubSeq(s, 2, close - 1) = ip
  <2> DEFINE e == close - 1
  <2>1. e \in 0..Len(s) /\ k = e + 1 - 2
    BY <1>1, <1>10
  <2>2. \A i \in 1..k : ip[i] = s[2 + i - 1]
    BY <1>1, <1>3, <1>10
  <2> HIDE DEF e
  <2>3. SubSeq(s, 2, e) = ip
    BY <1>3, <2>1, <2>2, PartIs
  <2> QED  BY <2>3 DEF e
<1>14. After(s, close) = tail
  BY <1>4, <1>10 DEF After
<1> HIDE DEF at, tail, close
<1>15. ValidHost(s)
  BY <1>4, <1>9, <1>11, <1>12, <1>13, <1>14 DEF ValidHost, Without, Has, Blank
<1>16. Unquoted(b) = ip
  BY <1>1 DEF Unquoted
<1> QED  BY <1>4, <1>9, <1>10, <1>15, <1>16, SplitHost

\* A valid host that has a bracket is an address in brackets, and its host name
\* is the address.
LEMMA QuotedHost ==
  ASSUME NEW a \in Seq(Letter), ValidHost(a), Has(a, "[")
  PROVE  Has(ParseHost(a).hostname, ":")
<1> DEFINE n == Len(a)
           close == LastOf(a, "]")
           e == close - 1
           ip == SubSeq(a, 2, e)
           next == close + 1
           tail == SubSeq(a, next, n)
           name == SubSeq(a, 1, close)
<1>1. /\ Has(a, "]") /\ a[1] = "[" /\ IsIPv6(SubSeq(a, 2, close - 1))
      /\ ValidOptionalPort(After(a, close))
  BY DEF ValidHost
<1>2. n \in Nat /\ DOMAIN a = 1..n
  BY LenProperties
<1>3. /\ close \in 1..n /\ a[close] = "]"
      /\ \A j \in 1..n : a[j] = "]" => j <= close
  BY <1>1, LastPosition
<1>4. IsIPv6(ip) /\ ValidOptionalPort(tail)
  BY <1>1 DEF After
<1> HIDE DEF close, n
<1>5. e \in 0..n /\ next \in Nat \ {0} /\ n \in 0..n /\ close \in 0..n /\ close \in Nat
      /\ next = close + 1 /\ e = close - 1
  BY <1>2, <1>3
<1> HIDE DEF e, next
<1>6. /\ ip \in Seq(Letter) /\ Len(ip) = IF 2 <= e THEN e - 2 + 1 ELSE 0
      /\ \A i \in 1..Len(ip) : ip[i] = a[2 + i - 1]
  BY <1>5, Part DEF n
<1>7. /\ tail \in Seq(Letter) /\ Len(tail) = IF next <= n THEN n - next + 1 ELSE 0
      /\ \A i \in 1..Len(tail) : tail[i] = a[next + i - 1]
  BY <1>5, Part DEF n
<1>8. /\ name \in Seq(Letter) /\ Len(name) = IF 1 <= close THEN close - 1 + 1 ELSE 0
      /\ \A i \in 1..Len(name) : name[i] = a[1 + i - 1]
  BY <1>5, Part DEF n
<1> HIDE DEF ip, tail, name
<1>9. PICK k \in 1..Len(ip) : ip[k] = ":"
  <2>1. Has(ip, ":") /\ DOMAIN ip = 1..Len(ip)
    BY <1>4, <1>6, AddressHas, LenProperties
  <2> QED  BY <2>1 DEF Has
<1> DEFINE at == k + 1
<1>10. /\ k \in Nat \ {0} /\ at \in 2..e /\ at \in 1..n /\ 2 + k - 1 = at /\ at < close
       /\ Len(name) = close /\ close # 0 /\ 1 \in 1..close /\ at \in 1..close
       /\ 2 <= e
  BY <1>2, <1>3, <1>5, <1>6, <1>8, <1>9
<1> HIDE DEF at
<1>11. a[at] = ":"
  BY <1>6, <1>9, <1>10
<1>12. \A i \in 1..close : name[i] = a[i]
  <2> TAKE i \in 1..close
  <2>1. 1 + i - 1 = i
    BY <1>5
  <2> QED  BY <1>8, <1>10, <2>1
<1>13. Has(Unquoted(name), ":")
  <2>1. name # <<>>
    <3>1. Len(name) # 0
      BY <1>10
    <3> QED  BY <3>1, EmptySeq
  <2>2. Head(name) = "[" /\ Last(name) = "]"
    <3>1. Head(name) = name[1] /\ Last(name) = name[close]
      BY <1>8, <1>10, <2>1, Ends
    <3>2. close \in 1..close
      BY <1>3, <1>5, <1>10
    <3> QED  BY <1>1, <1>3, <1>10, <1>12, <3>1, <3>2
  <2> DEFINE u == SubSeq(name, 2, e)
  <2>3. Unquoted(name) = u
    BY <1>5, <1>10, <2>1, <2>2 DEF Unquoted
  <2>4. e \in 0..Len(name)
    BY <1>5, <1>10
  <2>5. /\ u \in Seq(Letter) /\ Len(u) = IF 2 <= e THEN e - 2 + 1 ELSE 0
        /\ \A i \in 1..Len(u) : u[i] = name[2 + i - 1]
    BY <1>8, <2>4, Part
  <2> HIDE DEF u
  <2>6. k \in 1..Len(u) /\ DOMAIN u = 1..Len(u)
    <3>1. Len(u) = Len(ip)
      BY <1>6, <2>5
    <3> QED  BY <1>9, <2>5, <3>1, LenProperties
  <2>7. u[k] = ":"
    BY <1>10, <1>11, <1>12, <2>5, <2>6
  <2> QED  BY <2>3, <2>6, <2>7 DEF Has
<1>14. CASE tail = <<>>
  <2>1. close = n
    <3>1. Len(tail) = 0
      BY <1>14, EmptySeq
    <3> QED  BY <1>2, <1>3, <1>5, <1>7, <3>1
  <2>2. name = a
    BY <2>1, SubSeqFull DEF name, n
  <2> DEFINE colon == LastOf(a, ":")
             rest == SubSeq(a, colon, n)
  <2>3. Has(a, ":")
    BY <1>2, <1>10, <1>11 DEF Has
  <2>4. colon \in 1..n /\ a[colon] = ":"
    BY <2>3, LastPosition DEF n
  <2>5. colon # close
    BY <1>3, <2>4
  <2>6. ~ValidOptionalPort(rest)
    <3> HIDE DEF colon
    <3>1. colon \in Nat \ {0} /\ n \in 0..Len(a) /\ colon <= n
      BY <1>2, <2>4 DEF n
    <3>2. /\ rest \in Seq(Letter) /\ Len(rest) = n - colon + 1
          /\ \A i \in 1..Len(rest) : rest[i] = a[colon + i - 1]
      BY <3>1, Part
    <3> HIDE DEF rest
    <3> DEFINE l == n - colon + 1
    <3>3. l \in 2..Len(rest) /\ l \in 1..Len(rest) /\ colon + l - 1 = n /\ Len(rest) # 0
      BY <1>2, <2>1, <2>4, <2>5, <3>1, <3>2
    <3> HIDE DEF l
    <3>4. rest[l] = "]"
      BY <1>3, <2>1, <3>2, <3>3
    <3>5. rest # <<>>
      BY <3>2, <3>3, EmptySeq
    <3> QED  BY <3>3, <3>4, <3>5 DEF ValidOptionalPort
  <2>7. ParseHost(a).hostname = Unquoted(a)
    <3>1. ParseHost(a) = [ok |-> TRUE, host |-> a, hostname |-> Unquoted(a), port |-> <<>>]
      <4>1. ~ValidOptionalPort(SubSeq(a, LastOf(a, ":"), Len(a)))
        BY <2>6 DEF n
      <4> QED  BY <4>1, WholeHost
    <3> QED  BY <3>1
  <2> QED  BY <1>13, <2>2, <2>7
<1>15. CASE tail # <<>>
  <2>1. next <= n /\ Len(tail) = n - next + 1 /\ next \in 1..n
    <3>1. Len(tail) # 0
      BY <1>7, <1>15, EmptySeq
    <3> QED  BY <1>2, <1>3, <1>5, <1>7, <3>1
  <2>2. tail[1] = ":" /\ \A i \in 2..Len(tail) : tail[i] = "8"
    <3>1. Head(tail) = tail[1]
      BY <1>7, <1>15, Ends
    <3> QED  BY <1>4, <1>15, <3>1 DEF ValidOptionalPort
  <2>3. a[next] = ":"
    <3>1. 1 \in 1..Len(tail) /\ next + 1 - 1 = next
      BY <1>2, <2>1
    <3> QED  BY <1>7, <2>2, <3>1
  <2>4. \A j \in 1..n : a[j] = ":" => j <= next
    <3> SUFFICES ASSUME NEW j \in 1..n, ~(j <= next)
                 PROVE  a[j] # ":"
      OBVIOUS
    <3> DEFINE i == j - next + 1
    <3>1. i \in 2..Len(tail) /\ i \in 1..Len(tail) /\ next + i - 1 = j
      BY <1>2, <2>1
    <3> HIDE DEF i
    <3>2. a[j] = "8"
      BY <1>7, <2>2, <3>1
    <3> QED  BY <3>2
  <2>5. LastOf(a, ":") = next
    BY <2>1, <2>3, <2>4, LastIs DEF n
  <2>6. Before(a, next) = name
    BY <1>5 DEF Before, name
  <2>7. ParseHost(a).hostname = Unquoted(name)
    <3>1. next # 0 /\ ValidOptionalPort(SubSeq(a, next, Len(a)))
      BY <1>4, <1>5 DEF tail, n
    <3>2. ParseHost(a) = [ok |-> TRUE, host |-> a,
                          hostname |-> Unquoted(Before(a, next)), port |-> After(a, next)]
      BY <2>5, <3>1, SplitHost
    <3> QED  BY <2>6, <3>2
  <2> QED  BY <1>13, <2>7
<1> QED  BY <1>14, <1>15

\* What the rest of the code relies on: a host name of what is left of the
\* authority, with a port of digits.
Origin(url) ==
  /\ url.ok
  /\ url.hostname \in Seq(Letter) /\ url.port \in Digits
  /\ ~Has(url.hostname, Blank) /\ ~Has(url.hostname, "/")
  /\ Has(url.hostname, "[") => Has(url.hostname, ":")

\* A string of digits.
LEMMA AllDigits ==
  ASSUME NEW S, NEW s \in Seq(S), \A i \in DOMAIN s : s[i] = "8"
  PROVE  s \in Digits
<1> DEFINE n == Len(s)
<1>1. n \in Nat /\ DOMAIN s = 1..n /\ s \in [1..n -> S]
  BY LenProperties
<1> HIDE DEF n
<1>2. s \in [1..n -> {"8"}]
  BY <1>1
<1> QED  BY <1>1, <1>2, SeqDef DEF Digits

\* A port is a string of digits, and a name without its brackets a part of it.
LEMMA PortDigits ==
  ASSUME NEW a \in Seq(Letter), NEW at \in 1..Len(a),
         ValidOptionalPort(SubSeq(a, at, Len(a)))
  PROVE  After(a, at) \in Digits
<1> DEFINE n == Len(a)
           l == at + 1
           rest == SubSeq(a, at, n)
           port == SubSeq(a, l, n)
<1>1. n \in Nat /\ n \in 0..Len(a) /\ at \in Nat \ {0} /\ l \in Nat \ {0} /\ l = at + 1 /\ at <= n
  BY LenProperties
<1> HIDE DEF n, l
<1>2. /\ rest \in Seq(Letter) /\ Len(rest) = IF at <= n THEN n - at + 1 ELSE 0
      /\ \A i \in 1..Len(rest) : rest[i] = a[at + i - 1]
  BY <1>1, Part
<1>3. /\ port \in Seq(Letter) /\ Len(port) = IF l <= n THEN n - l + 1 ELSE 0
      /\ \A i \in 1..Len(port) : port[i] = a[l + i - 1]
  BY <1>1, Part
<1>4. ValidOptionalPort(rest)
  BY DEF n
<1> HIDE DEF rest, port
<1>5. \A i \in 1..Len(port) : port[i] = "8"
  <2> TAKE i \in 1..Len(port)
  <2> DEFINE k == i + 1
  <2>1. k \in 2..Len(rest) /\ k \in 1..Len(rest) /\ at + k - 1 = l + i - 1 /\ Len(rest) # 0
    <3>1. l <= n
      BY <1>1, <1>3
    <3>2. Len(port) = n - at /\ Len(rest) = n - at + 1
      BY <1>1, <1>2, <1>3, <3>1
    <3>3. i \in Nat /\ 1 <= i /\ i <= n - at
      BY <1>1, <3>2
    <3> QED  BY <1>1, <3>2, <3>3
  <2> HIDE DEF k
  <2>2. rest # <<>>
    BY <1>2, <2>1, EmptySeq
  <2>3. rest[k] = "8"
    BY <1>4, <2>1, <2>2 DEF ValidOptionalPort
  <2>4. rest[k] = a[at + k - 1] /\ port[i] = a[l + i - 1]
    BY <1>2, <1>3, <2>1
  <2> QED  BY <2>1, <2>3, <2>4
<1>6. port \in Digits
  <2>1. DOMAIN port = 1..Len(port)
    BY <1>3, LenProperties
  <2> QED  BY <1>3, <1>5, <2>1, AllDigits
<1> QED  BY <1>6 DEF After, port, l, n

\* What is left without the brackets is part of the name.
LEMMA UnquotedPart ==
  ASSUME NEW name \in Seq(Letter)
  PROVE  /\ Unquoted(name) \in Seq(Letter)
         /\ \A c : Has(Unquoted(name), c) => Has(name, c)
<1>1. CASE name = <<>>
  BY <1>1 DEF Unquoted
<1>2. CASE name # <<>>
  <2> DEFINE e == Len(name) - 1
  <2>1. e \in 0..Len(name) /\ 2 \in Nat \ {0}
    <3>1. Len(name) \in Nat \ {0}
      BY <1>2, EmptySeq
    <3> QED  BY <3>1
  <2> HIDE DEF e
  <2>2. /\ SubSeq(name, 2, e) \in Seq(Letter)
        /\ \A c : Has(SubSeq(name, 2, e), c) => Has(name, c)
    BY <2>1, Part
  <2>3. Unquoted(name) = SubSeq(name, 2, e) \/ Unquoted(name) = name
    BY DEF Unquoted, e
  <2> QED  BY <2>2, <2>3
<1> QED  BY <1>1, <1>2

\* What url.Parse returns for the host of a URL.
LEMMA HostIsOrigin ==
  ASSUME NEW a \in Seq(Letter), ~Has(a, "/"), ParseHost(a).ok
  PROVE  Origin(ParseHost(a)) /\ ParseHost(a).host = a
<1> DEFINE url == ParseHost(a)
           at == LastOf(a, ":")
<1>1. ValidHost(a)
  <2> SUFFICES ASSUME ~ValidHost(a)
               PROVE  FALSE
    OBVIOUS
  <2>1. ParseHost(a) = [ok |-> FALSE]
    BY Zenon DEF ParseHost, Error
  <2> QED  BY <2>1
<1>2. ~Has(a, Blank)
  BY <1>1 DEF ValidHost, Without, Has, Blank
<1>3. Has(a, "[") => Has(url.hostname, ":")
  BY <1>1, QuotedHost
<1>4. CASE at # 0 /\ ValidOptionalPort(SubSeq(a, at, Len(a)))
  <2>1. url = [ok |-> TRUE, host |-> a,
               hostname |-> Unquoted(Before(a, at)), port |-> After(a, at)]
    BY <1>1, <1>4, SplitHost
  <2>2. at \in 1..Len(a)
    BY <1>4, LastPosition
  <2>3. After(a, at) \in Digits
    BY <1>4, <2>2, PortDigits
  <2>4. /\ Before(a, at) \in Seq(Letter)
        /\ \A c : Has(Before(a, at), c) => Has(a, c)
    <3> HIDE DEF at
    <3> DEFINE e == at - 1
    <3>1. e \in 0..Len(a) /\ 1 \in Nat \ {0}
      BY <2>2, LenProperties
    <3> HIDE DEF e
    <3>2. /\ SubSeq(a, 1, e) \in Seq(Letter)
          /\ \A c : Has(SubSeq(a, 1, e), c) => Has(a, c)
      BY <3>1, Part
    <3> QED  BY <3>2 DEF Before, e
  <2>5. /\ url.hostname \in Seq(Letter)
        /\ \A c : Has(url.hostname, c) => Has(a, c)
    <3>1. url.hostname = Unquoted(Before(a, at))
      BY <2>1
    <3> HIDE DEF url, at
    <3> QED  BY <2>4, <3>1, UnquotedPart
  <2>6. url.ok /\ url.port = After(a, at) /\ url.host = a
    BY <2>1
  <2> HIDE DEF url, at
  <2>7. Origin(url) /\ url.host = a
    BY <1>2, <1>3, <2>3, <2>5, <2>6 DEF Origin
  <2> QED  BY <2>7 DEF url
<1>5. CASE ~(at # 0 /\ ValidOptionalPort(SubSeq(a, at, Len(a))))
  <2>1. url = [ok |-> TRUE, host |-> a, hostname |-> Unquoted(a), port |-> <<>>]
    BY <1>1, <1>5, WholeHost
  <2>2. <<>> \in Digits
    BY EmptySeq DEF Digits
  <2>3. url.ok /\ url.port = <<>> /\ url.hostname = Unquoted(a) /\ url.host = a
    BY <2>1
  <2> HIDE DEF url
  <2>4. /\ url.hostname \in Seq(Letter)
        /\ \A c : Has(url.hostname, c) => Has(a, c)
    BY <2>3, UnquotedPart
  <2>5. Origin(url) /\ url.host = a
    BY <1>2, <1>3, <2>2, <2>3, <2>4 DEF Origin
  <2> QED  BY <2>5 DEF url
<1> QED  BY <1>4, <1>5

\* The host is what is before the path.
LEMMA AuthorityType ==
  ASSUME NEW s \in Seq(Letter)
  PROVE  /\ Authority(s) \in Seq(Letter) /\ ~Has(Authority(s), "/")
         /\ \A c : Has(Authority(s), c) => Has(s, c)
<1>1. CASE ~Has(s, "/")
  BY <1>1 DEF Authority
<1>2. CASE Has(s, "/")
  <2> DEFINE at == FirstOf(s, "/")
             e == at - 1
             u == SubSeq(s, 1, e)
  <2>1. /\ at \in 1..Len(s)
        /\ \A j \in 1..Len(s) : s[j] = "/" => at <= j
    BY <1>2, FirstPosition
  <2>2. Authority(s) = u
    BY <1>2 DEF Authority, Before
  <2> HIDE DEF at
  <2>3. e \in 0..Len(s) /\ 1 \in Nat \ {0} /\ e = at - 1 /\ at \in Nat /\ Len(s) \in Nat
    BY <2>1, LenProperties
  <2> HIDE DEF e
  <2>4. /\ u \in Seq(Letter) /\ Len(u) = IF 1 <= e THEN e - 1 + 1 ELSE 0
        /\ \A i \in 1..Len(u) : u[i] = s[1 + i - 1] /\ 1 + i - 1 \in 1..e
        /\ \A c : Has(u, c) => Has(s, c)
    BY <2>3, Part
  <2> HIDE DEF u
  <2>5. \A i \in 1..Len(u) : u[i] # "/"
    <3> TAKE i \in 1..Len(u)
    <3>1. u[i] = s[1 + i - 1] /\ 1 + i - 1 \in 1..Len(s) /\ ~(at <= 1 + i - 1)
      BY <2>3, <2>4
    <3> QED  BY <2>1, <3>1
  <2>6. ~Has(u, "/")
    <3>1. DOMAIN u = 1..Len(u)
      BY <2>4, LenProperties
    <3> QED  BY <2>5, <3>1 DEF Has
  <2> QED  BY <2>2, <2>4, <2>6
<1> QED  BY <1>1, <1>2

\* What url.Parse accepts is an origin.
LEMMA UrlIsOrigin ==
  ASSUME NEW s \in Seq(Letter), UrlParse(s).ok
  PROVE  Origin(UrlParse(s))
BY UrlIsHost, AuthorityType, HostIsOrigin

-----------------------------------------------------------------------------
(***************************************************************************)
(* What ParseTarget makes of a target, and FormatTarget of that.           *)
(***************************************************************************)
LEMMA AnyPart ==
  ASSUME NEW S, NEW s \in Seq(S), NEW a \in Nat \ {0}, NEW b \in Int, b <= Len(s)
  PROVE  SubSeq(s, a, b) \in Seq(S)
<1>1. CASE b < a
  BY <1>1, SubSeqEmpty, EmptySeq
<1>2. CASE ~(b < a)
  <2>1. b \in 0..Len(s)
    BY <1>2, LenProperties
  <2> QED  BY <2>1, Part
<1> QED  BY <1>1, <1>2

\* Nothing is trimmed where there are no blanks.
LEMMA TrimNothing ==
  ASSUME NEW S, NEW s \in Seq(S), ~Has(s, Blank)
  PROVE  TrimSpace(s) = s
<1> DEFINE n == Len(s)
           visible == {i \in DOMAIN s : s[i] # Blank}
           lo == CHOOSE i \in visible : \A j \in visible : i <= j
           hi == CHOOSE i \in visible : \A j \in visible : j <= i
<1>1. n \in Nat /\ DOMAIN s = 1..n
  BY LenProperties
<1>2. visible = 1..n
  BY <1>1 DEF Has
<1>3. TrimSpace(s) = IF visible = {} THEN <<>> ELSE SubSeq(s, lo, hi)
  BY Zenon DEF TrimSpace, Blank
<1> HIDE DEF visible
<1>4. CASE n = 0
  <2>1. visible = {} /\ s = <<>>
    BY <1>2, <1>4, EmptySeq
  <2> QED  BY <1>3, <2>1
<1>5. CASE n # 0
  <2> HIDE DEF n
  <2>1. 1 \in visible /\ n \in visible /\ \A j \in visible : 1 <= j /\ j <= n
    BY <1>1, <1>2, <1>5
  <2>2. /\ lo \in visible /\ \A j \in visible : lo <= j
        /\ hi \in visible /\ \A j \in visible : j <= hi
    BY <2>1
  <2> HIDE DEF lo, hi
  <2>3. lo = 1 /\ hi = n
    BY <1>1, <1>2, <2>1, <2>2
  <2> QED  BY <1>3, <2>1, <2>3, SubSeqFull DEF n
<1> QED  BY <1>4, <1>5

\* What is trimmed is a string.
LEMMA TrimType ==
  ASSUME NEW S, NEW s \in Seq(S)
  PROVE  TrimSpace(s) \in Seq(S)
<1> DEFINE n == Len(s)
           visible == {i \in DOMAIN s : s[i] # Blank}
           lo == CHOOSE i \in visible : \A j \in visible : i <= j
           hi == CHOOSE i \in visible : \A j \in visible : j <= i
<1>1. n \in Nat /\ DOMAIN s = 1..n
  BY LenProperties
<1>2. TrimSpace(s) = IF visible = {} THEN <<>> ELSE SubSeq(s, lo, hi)
  BY Zenon DEF TrimSpace, Blank
<1>3. CASE visible = {}
  BY <1>2, <1>3, EmptySeq
<1>4. CASE visible # {}
  <2>1. visible \subseteq 1..n
    BY <1>1
  <2> HIDE DEF visible, n
  <2>2. /\ \E i \in visible : \A j \in visible : i <= j
        /\ \E i \in visible : \A j \in visible : j <= i
    BY <1>1, <1>4, <2>1, Least, Greatest
  <2>3. lo \in visible /\ hi \in visible
    BY <2>2
  <2> HIDE DEF lo, hi
  <2>4. lo \in Nat \ {0} /\ hi \in Int /\ hi <= Len(s)
    BY <1>1, <2>1, <2>3 DEF n
  <2> QED  BY <1>2, <1>4, <2>4, AnyPart
<1> QED  BY <1>3, <1>4

\* A target with a scheme.
LEMMA WebTarget ==
  ASSUME NEW x \in Seq(Letter), ~Has(x, Blank)
  PROVE  ParseTarget(<<"http://">> \o x) = WithHost(UrlParse(x))
<1> DEFINE http == <<"http://">>
           t == http \o x
           m == Len(x)
<1>1. http \in Seq(Letter) /\ Len(http) = 1 /\ http[1] = "http://" /\ ~Has(http, Blank)
  <2>1. http \in Seq(Letter) /\ Len(http) = 1 /\ http[1] = "http://"
    BY DEF Letter
  <2> HIDE DEF http
  <2>2. DOMAIN http = 1..1
    BY <2>1, LenProperties
  <2>3. \A i \in 1..1 : i = 1
    OBVIOUS
  <2> QED  BY <2>1, <2>2, <2>3, BlankApart DEF Has
<1> HIDE DEF http
<1>2. /\ t \in Seq(Letter) /\ Len(t) = Len(http) + m
      /\ \A i \in 1..Len(http) : t[i] = http[i]
      /\ SubSeq(t, Len(http) + 1, Len(http) + m) = x
      /\ \A c : Has(t, c) <=> Has(http, c) \/ Has(x, c)
  <2>1. http \in Seq(Letter) /\ x \in Seq(Letter)
    BY <1>1
  <2> QED  BY <2>1, Halves
<1> HIDE DEF t
<1>3. m \in Nat
  BY LenProperties
<1> HIDE DEF m
<1>4. Len(t) # 0 /\ 1 \in 1..Len(http) /\ Len(http) + 1 = 2 /\ Len(http) + m = Len(t)
  BY <1>1, <1>2, <1>3
<1>5. t # <<>>
  BY <1>2, <1>4, EmptySeq
<1>6. Head(t) = "http://"
  <2>1. Head(t) = t[1]
    BY <1>2, <1>5, Ends
  <2> QED  BY <1>1, <1>2, <1>4, <2>1
<1>7. Tail(t) = x
  <2>1. Tail(t) = SubSeq(t, 2, Len(t))
    BY <1>2, <1>5, TailIsSubSeq
  <2> QED  BY <1>2, <1>4, <2>1
<1>8. TrimSpace(t) = t
  BY <1>1, <1>2, TrimNothing
<1>9. ParseTarget(t) = WithHost(UrlParse(x))
  BY <1>5, <1>6, <1>7, <1>8, Zenon DEF ParseTarget
<1> QED  BY <1>9 DEF t, http

\* A target that was formatted from a host name and a port without a path.
LEMMA FormattedTarget ==
  ASSUME NEW x \in Seq(Letter), ~Has(x, Blank), ~Has(x, "/"), x # <<>>,
         NEW hostname, NEW port,
         ParseHost(x) = [ok |-> TRUE, host |-> x, hostname |-> hostname, port |-> port]
  PROVE  ParseTarget(<<"http://">> \o x)
           = [ok |-> TRUE, host |-> x, hostname |-> hostname, port |-> port]
<1>1. Authority(x) = x
  BY DEF Authority
<1>2. UrlParse(x) = [ok |-> TRUE, host |-> x, hostname |-> hostname, port |-> port]
  BY <1>1, UrlIsHost
<1>3. WithHost(UrlParse(x)) = UrlParse(x)
  <2>1. UrlParse(x).host # <<>>
    BY <1>2
  <2> QED  BY <2>1 DEF WithHost
<1> QED  BY <1>2, <1>3, WebTarget

\* A host name and its port come back.
LEMMA OriginReturns ==
  ASSUME NEW url, Origin(url), Returns(url)
  PROVE  LET again == ParseTarget(FormatTarget(url))
         IN  again.ok /\ again.hostname = url.hostname /\ again.port = url.port
<1> DEFINE name == url.hostname
           port == url.port
           Back(x) == /\ x \in Seq(Letter) /\ ~Has(x, Blank) /\ ~Has(x, "/") /\ x # <<>>
                      /\ ParseHost(x) = [ok |-> TRUE, host |-> x, hostname |-> name, port |-> port]
<1>1. /\ name \in Seq(Letter) /\ port \in Digits
      /\ ~Has(name, Blank) /\ ~Has(name, "/") /\ (Has(name, "[") => Has(name, ":"))
  BY DEF Origin
<1>2. /\ Has(name, ":") => IsIPv6(name) /\ port # <<>>
      /\ ~Has(name, ":") => name # <<>> \/ port # <<>>
  BY DEF Returns
<1>3. FormatTarget(url) = <<"http://">> \o
        (IF port = <<>> THEN name
         ELSE IF Has(name, ":") THEN Joined(Bracket(name), port) ELSE Joined(name, port))
  BY DEF FormatTarget, JoinHostPort, Joined, Bracket
<1> HIDE DEF name, port
<1>4. ASSUME NEW b \in Seq(Letter)
      PROVE  Joined(b, port) \in Seq(Letter) /\ Joined(b, port) # <<>>
  <2> DEFINE s == Joined(b, port)
  <2>1. s \in Seq(Letter) /\ Len(s) \in Nat /\ Len(b) \in Nat /\ Len(b) + 1 \in 1..Len(s)
    <3>1. Parted(s, b, port)
      BY <1>1, NameAndPort
    <3> QED  BY <3>1, Zenon DEF Parted
  <2> HIDE DEF s
  <2>2. Len(s) # 0
    BY <2>1
  <2> QED  BY <2>1, <2>2, EmptySeq DEF s
<1>5. ~Has(name, ":") => Plain(name)
  BY <1>1, PlainHas
<1>6. CASE port = <<>>
  <2>1. ~Has(name, ":") /\ name # <<>>
    BY <1>2, <1>6
  <2>2. Back(name)
    BY <1>1, <1>5, <1>6, <2>1, PlainHost
  <2> QED  BY <1>3, <1>6, <2>2, FormattedTarget DEF name, port
<1>7. CASE port # <<>> /\ Has(name, ":")
  <2> DEFINE x == Joined(Bracket(name), port)
  <2>1. ParseHost(x) = [ok |-> TRUE, host |-> x, hostname |-> name, port |-> port]
        /\ ~Has(x, "/") /\ ~Has(x, Blank)
    BY <1>1, <1>2, <1>7, AddressAndPort
  <2>2. Bracket(name) \in Seq(Letter)
    BY <1>1, Bracketed
  <2>3. x \in Seq(Letter) /\ x # <<>>
    BY <1>4, <2>2
  <2> HIDE DEF x
  <2>4. ParseTarget(<<"http://">> \o x) = [ok |-> TRUE, host |-> x, hostname |-> name, port |-> port]
    BY <2>1, <2>3, FormattedTarget
  <2>5. FormatTarget(url) = <<"http://">> \o x
    BY <1>3, <1>7 DEF x
  <2> QED  BY <2>4, <2>5 DEF name, port
<1>8. CASE port # <<>> /\ ~Has(name, ":")
  <2> DEFINE x == Joined(name, port)
  <2>1. ParseHost(x) = [ok |-> TRUE, host |-> x, hostname |-> name, port |-> port]
        /\ ~Has(x, "/") /\ ~Has(x, Blank)
    BY <1>1, <1>5, <1>8, PlainHostAndPort
  <2>3. x \in Seq(Letter) /\ x # <<>>
    BY <1>1, <1>4
  <2> HIDE DEF x
  <2>4. ParseTarget(<<"http://">> \o x) = [ok |-> TRUE, host |-> x, hostname |-> name, port |-> port]
    BY <2>1, <2>3, FormattedTarget
  <2>5. FormatTarget(url) = <<"http://">> \o x
    BY <1>3, <1>8 DEF x
  <2> QED  BY <2>4, <2>5 DEF name, port
<1> QED  BY <1>6, <1>7, <1>8

\* A part of a string that is put back together with digits.
LEMMA JoinedType ==
  ASSUME NEW host \in Seq(Letter), NEW port \in Seq(Letter), IsNumber(port)
  PROVE  JoinHostPort(host, port) \in Seq(Letter)
<1> DEFINE b == IF Has(host, ":") THEN Bracket(host) ELSE host
<1>1. port \in Digits
  BY AllDigits DEF IsNumber
<1>2. b \in Seq(Letter)
  BY Bracketed
<1>3. JoinHostPort(host, port) = Joined(b, port)
  BY DEF JoinHostPort, Joined, Bracket
<1> HIDE DEF b
<1> QED  BY <1>1, <1>2, <1>3, NameAndPort DEF Parted

\* What net.SplitHostPort returns are parts of the string.
LEMMA SplitType ==
  ASSUME NEW s \in Seq(Letter), SplitHostPort(s).ok
  PROVE  SplitHostPort(s).host \in Seq(Letter) /\ SplitHostPort(s).port \in Seq(Letter)
<1> DEFINE colon == LastOf(s, ":")
           close == FirstOf(s, "]")
           inside == SubSeq(s, 2, close - 1)
           before == Before(s, colon)
           pair == SplitHostPort(s)
<1>1. \/ pair = Error
      \/ pair = [ok |-> TRUE, host |-> inside, port |-> After(s, colon)]
      \/ pair = [ok |-> TRUE, host |-> before, port |-> After(s, colon)]
  BY Zenon DEF SplitHostPort
<1>2. Len(s) \in Nat /\ colon \in 0..Len(s) /\ close \in 0..Len(s)
  <2>1. Len(s) \in Nat
    BY LenProperties
  <2>2. colon = 0 \/ colon \in 1..Len(s)
    BY LastPosition
  <2>3. close = 0 \/ close \in 1..Len(s)
    BY FirstPosition
  <2> HIDE DEF colon, close
  <2> QED  BY <2>1, <2>2, <2>3
<1> HIDE DEF colon, close
<1> DEFINE e == close - 1
           f == colon - 1
           l == Len(s)
           g == colon + 1
<1>3. /\ e \in Int /\ e <= Len(s) /\ f \in Int /\ f <= Len(s) /\ g \in Nat \ {0}
      /\ l \in Int /\ l <= Len(s) /\ 1 \in Nat \ {0} /\ 2 \in Nat \ {0}
  BY <1>2
<1> HIDE DEF e, f, g, l
<1>4. /\ SubSeq(s, 2, e) \in Seq(Letter) /\ SubSeq(s, 1, f) \in Seq(Letter)
      /\ SubSeq(s, g, l) \in Seq(Letter)
  BY <1>3, AnyPart
<1>5. inside \in Seq(Letter) /\ before \in Seq(Letter) /\ After(s, colon) \in Seq(Letter)
  BY <1>4 DEF Before, After, e, f, g, l
<1>6. pair # Error
  <2> SUFFICES ASSUME pair = Error
               PROVE  FALSE
    OBVIOUS
  <2>1. pair.ok
    OBVIOUS
  <2> HIDE DEF pair
  <2> QED  BY <2>1 DEF Error
<1> HIDE DEF pair, inside, before
<1> QED  BY <1>1, <1>5, <1>6 DEF pair

\* What ParseTarget returns comes from url.Parse.
LEMMA TargetIsOrigin ==
  ASSUME NEW raw \in Seq(Letter), ParseTarget(raw).ok
  PROVE  Origin(ParseTarget(raw))
<1> DEFINE s == TrimSpace(raw)
           pair == SplitHostPort(s)
           Url(x) == x \in Seq(Letter) /\ \/ ParseTarget(raw) = UrlParse(x)
                                          \/ ParseTarget(raw) = WithHost(UrlParse(x))
<1>1. s \in Seq(Letter)
  BY TrimType
<1>2. ParseTarget(raw) # Error
  <2> SUFFICES ASSUME ParseTarget(raw) = Error
               PROVE  FALSE
    OBVIOUS
  <2> QED  BY DEF Error
<1>3. s # <<>>
  BY <1>2, Zenon DEF ParseTarget
<1> HIDE DEF s
<1>4. Tail(s) \in Seq(Letter)
  BY <1>1, <1>3, TailElements
<1>5. ASSUME NEW p \in Seq(Letter)
      PROVE  <<"localhost", ":">> \o p \in Seq(Letter)
  <2>1. <<"localhost", ":">> \in Seq(Letter)
    BY DEF Letter
  <2> QED  BY <2>1, Halves
<1>6. \E x : Url(x)
  <2>1. CASE Head(s) = "http://"
    <3>1. ParseTarget(raw) = WithHost(UrlParse(Tail(s)))
      BY <1>3, <2>1, Zenon DEF ParseTarget, s
    <3> QED  BY <1>4, <3>1
  <2>2. CASE Head(s) # "http://" /\ Head(s) = ":"
    <3>1. ParseTarget(raw) = UrlParse(<<"localhost", ":">> \o Tail(s))
      BY <1>2, <1>3, <2>2, Zenon DEF ParseTarget, Local, s
    <3> QED  BY <1>4, <1>5, <3>1
  <2>3. CASE Head(s) # "http://" /\ Head(s) # ":" /\ IsNumber(s)
    <3>1. ParseTarget(raw) = UrlParse(<<"localhost", ":">> \o s)
      BY <1>3, <2>3, Zenon DEF ParseTarget, Local, s
    <3> QED  BY <1>1, <1>5, <3>1
  <2>4. CASE Head(s) # "http://" /\ Head(s) # ":" /\ ~IsNumber(s) /\ pair.ok
    <3>1. /\ ParseTarget(raw) = UrlParse(JoinHostPort(pair.host, pair.port))
          /\ IsNumber(pair.port)
      BY <1>2, <1>3, <2>4, Zenon DEF ParseTarget, s
    <3>2. JoinHostPort(pair.host, pair.port) \in Seq(Letter)
      <4>1. pair.host \in Seq(Letter) /\ pair.port \in Seq(Letter)
        BY <1>1, <2>4, SplitType
      <4> HIDE DEF pair
      <4> QED  BY <3>1, <4>1, JoinedType
    <3> QED  BY <3>1, <3>2
  <2>5. CASE Head(s) # "http://" /\ Head(s) # ":" /\ ~IsNumber(s) /\ ~pair.ok
    <3>1. ParseTarget(raw) = UrlParse(s)
      BY <1>3, <2>5, Zenon DEF ParseTarget, s
    <3> QED  BY <1>1, <3>1
  <2> QED  BY <2>1, <2>2, <2>3, <2>4, <2>5, Zenon
<1>7. PICK x : Url(x)
  BY <1>6
<1>8. ParseTarget(raw) = UrlParse(x)
  <2>1. WithHost(UrlParse(x)) = UrlParse(x) \/ WithHost(UrlParse(x)) = Error
    BY Zenon DEF WithHost
  <2> QED  BY <1>2, <1>7, <2>1
<1>9. x \in Seq(Letter) /\ UrlParse(x).ok
  BY <1>7, <1>8
<1> QED  BY <1>8, <1>9, UrlIsOrigin

-----------------------------------------------------------------------------
(***************************************************************************)
(* The formats that are documented.                                        *)
(***************************************************************************)
\* What users type before the port: a name that is no number.
Name(name) ==
  /\ name \in Seq(Letter) /\ Plain(name) /\ ~Has(name, "]") /\ name # <<>>
  /\ name[1] # "http://" /\ \E i \in DOMAIN name : name[i] # "8"

Url(host, name, port) == [ok |-> TRUE, host |-> host, hostname |-> name, port |-> port]

\* The fields of a URL.
LEMMA UrlFields ==
  ASSUME NEW host, NEW name, NEW port
  PROVE  LET url == Url(host, name, port)
         IN  url.ok /\ url.host = host /\ url.hostname = name /\ url.port = port
BY DEF Url

\* A name alone.
LEMMA NameTarget ==
  ASSUME NEW name, Name(name)
  PROVE  /\ ParseHost(name) = Url(name, name, <<>>)
         /\ ParseTarget(name) = Url(name, name, <<>>)
         /\ FormatTarget(Url(name, name, <<>>)) = <<"http://">> \o name
         /\ Returns(Url(name, name, <<>>))
         /\ name # <<>> /\ ~Has(name, "/") /\ ~Has(name, Blank) /\ name \in Seq(Letter)
<1>1. /\ name \in Seq(Letter) /\ Plain(name) /\ name # <<>>
      /\ ~Has(name, Blank) /\ ~Has(name, "/") /\ ~Has(name, ":") /\ ~Has(name, "[")
  BY PlainHas DEF Name
<1>2. ParseHost(name) = Url(name, name, <<>>)
  BY <1>1, PlainHost DEF Url
<1>3. TrimSpace(name) = name
  BY <1>1, TrimNothing
<1>4. Head(name) = name[1] /\ 1 \in DOMAIN name
  BY <1>1, Ends
<1>5. Head(name) # "http://" /\ Head(name) # ":"
  BY <1>1, <1>4 DEF Name, Has
<1>6. ~IsNumber(name)
  BY DEF Name, IsNumber
<1>7. SplitHostPort(name) = Error
  <2>1. LastOf(name, ":") = 0
    BY <1>1, LastPosition
  <2> QED  BY <2>1, Zenon DEF SplitHostPort
<1>8. UrlParse(name) = ParseHost(name)
  BY <1>1, UrlIsHost DEF Authority
<1>9. ParseTarget(name) = UrlParse(name)
  <2>1. ~SplitHostPort(name).ok
    BY <1>7 DEF Error
  <2> QED  BY <1>1, <1>3, <1>5, <1>6, <2>1, Zenon DEF ParseTarget
<1> DEFINE url == Url(name, name, <<>>)
<1>10. url.hostname = name /\ url.port = <<>>
  BY UrlFields
<1> HIDE DEF url
<1>11. FormatTarget(url) = <<"http://">> \o name /\ Returns(url)
  BY <1>1, <1>10 DEF FormatTarget, Returns
<1> QED  BY <1>1, <1>2, <1>8, <1>9, <1>11 DEF url

\* A name and a port.
LEMMA NamePortTarget ==
  ASSUME NEW name, Name(name), NEW port \in Digits, port # <<>>, NEW t, t = Joined(name, port)
  PROVE  /\ ParseHost(t) = Url(t, name, port)
         /\ ParseTarget(t) = Url(t, name, port)
         /\ FormatTarget(Url(t, name, port)) = <<"http://">> \o t
         /\ Returns(Url(t, name, port))
         /\ t # <<>> /\ ~Has(t, "/") /\ ~Has(t, Blank) /\ t \in Seq(Letter)
<1> DEFINE n == Len(name)
           at == n + 1
<1>1. /\ name \in Seq(Letter) /\ Plain(name) /\ name # <<>> /\ ~Has(name, "]")
      /\ ~Has(name, Blank) /\ ~Has(name, "/") /\ ~Has(name, ":") /\ ~Has(name, "[")
  BY PlainHas DEF Name
<1>2. ParseHost(t) = Url(t, name, port) /\ ~Has(t, "/") /\ ~Has(t, Blank)
  BY <1>1, PlainHostAndPort DEF Url
<1>0. Parted(t, name, port)
  BY <1>1, NameAndPort
<1>3. /\ t \in Seq(Letter) /\ Len(t) \in Nat /\ at \in 1..Len(t)
      /\ \A i \in 1..n : t[i] = name[i]
  BY <1>0, Zenon DEF Parted
<1>4. t[at] = ":" /\ LastOf(t, ":") = at /\ Before(t, at) = name /\ After(t, at) = port
  BY <1>0, Zenon DEF Parted
<1>5. \A c : Has(t, c) <=> Has(name, c) \/ c = ":" \/ Has(port, c)
  BY <1>0, Zenon DEF Parted
<1>6. \A c : Has(port, c) => c = "8"
  BY DigitsType
<1>7. n \in Nat \ {0} /\ 1 \in 1..n /\ DOMAIN name = 1..n /\ DOMAIN t = 1..Len(t)
  BY <1>1, <1>3, Ends, LenProperties
<1>8. t # <<>> /\ at # 0
  <2>1. Len(t) # 0
    BY <1>3
  <2> QED  BY <1>3, <1>7, <2>1, EmptySeq
<1> HIDE DEF n, at
<1>9. Head(t) = t[1] /\ t[1] = name[1]
  BY <1>3, <1>7, <1>8, Ends
<1>10. Head(t) # "http://" /\ Head(t) # ":" /\ t[1] # "["
  BY <1>1, <1>7, <1>9 DEF Name, Has
<1>11. ~IsNumber(t)
  BY <1>3, <1>4, <1>7 DEF IsNumber
<1>12. TrimSpace(t) = t
  BY <1>2, <1>3, TrimNothing
<1>13. ~Has(t, "[") /\ ~Has(t, "]")
  BY <1>1, <1>5, <1>6
<1>14. ~Has(Tail(t), "[") /\ ~Has(After(t, 0), "]")
  <2>1. Tail(t) = SubSeq(t, 2, Len(t))
    BY <1>3, <1>8, TailIsSubSeq
  <2>2. \A c : Has(SubSeq(t, 2, Len(t)), c) => Has(t, c)
    <3>1. 2 \in Nat \ {0} /\ Len(t) \in 0..Len(t)
      BY <1>3
    <3> QED  BY <1>3, <3>1, Part
  <2>3. After(t, 0) = t
    <3>1. After(t, 0) = SubSeq(t, 1, Len(t))
      BY DEF After
    <3> QED  BY <1>3, <3>1, SubSeqFull
  <2> QED  BY <1>13, <2>1, <2>2, <2>3
<1>15. SplitHostPort(t) = [ok |-> TRUE, host |-> name, port |-> port]
  BY <1>1, <1>4, <1>8, <1>10, <1>13, <1>14, Zenon DEF SplitHostPort
<1>16. JoinHostPort(name, port) = t
  BY <1>1 DEF JoinHostPort, Joined
<1>17. ParseTarget(t) = UrlParse(t)
  <2> DEFINE pair == SplitHostPort(t)
  <2>1. pair.ok /\ pair.host = name /\ pair.port = port
    BY <1>15
  <2>2. IsNumber(port)
    BY DigitsType
  <2> QED
    BY <1>8, <1>10, <1>11, <1>12, <1>16, <2>1, <2>2, Zenon DEF ParseTarget
<1>18. UrlParse(t) = ParseHost(t)
  BY <1>2, UrlIsHost DEF Authority
<1> DEFINE url == Url(t, name, port)
<1>19. url.hostname = name /\ url.port = port
  BY UrlFields
<1> HIDE DEF url
<1>20. FormatTarget(url) = <<"http://">> \o t
  BY <1>16, <1>19 DEF FormatTarget
<1>21. Returns(url)
  BY <1>1, <1>19 DEF Returns
<1> QED  BY <1>2, <1>3, <1>8, <1>17, <1>18, <1>20, <1>21 DEF url

\* A URL, with a path or without.
LEMMA UrlTarget ==
  ASSUME NEW host \in Seq(Letter), ~Has(host, "/"), ~Has(host, Blank), host # <<>>,
         NEW name, NEW port, ParseHost(host) = Url(host, name, port),
         NEW path \in Seq(Letter), ~Has(path, Blank), path = <<>> \/ path[1] = "/"
  PROVE  ParseTarget(<<"http://">> \o host \o path) = Url(host, name, port)
<1> DEFINE http == <<"http://">>
           x == host \o path
           n == Len(host)
           m == Len(path)
<1>1. http \in Seq(Letter)
  BY DEF Letter
<1>2. (http \o host) \o path = http \o x
  <2> HIDE DEF http
  <2> QED  BY <1>1, ConcatAssociative
<1>3. /\ x \in Seq(Letter) /\ Len(x) = n + m
      /\ \A i \in 1..n : x[i] = host[i]
      /\ \A i \in 1..m : x[n + i] = path[i]
      /\ SubSeq(x, 1, n) = host
      /\ \A c : Has(x, c) <=> Has(host, c) \/ Has(path, c)
  BY Halves
<1>4. n \in Nat /\ m \in Nat /\ DOMAIN host = 1..n
  BY LenProperties
<1> HIDE DEF http, x
<1>5. Authority(x) = host
  <2>1. CASE path = <<>>
    <3>1. x = host
      BY <2>1, ConcatEmptySeq DEF x
    <3> QED  BY <3>1 DEF Authority
  <2>2. CASE path # <<>>
    <3> DEFINE at == FirstOf(x, "/")
    <3>1. m # 0 /\ path[1] = "/"
      BY <2>2, EmptySeq
    <3> HIDE DEF n, m
    <3>2. 1 \in 1..m /\ n + 1 \in 1..Len(x) /\ n + 1 - 1 = n
      BY <1>3, <1>4, <3>1
    <3>3. x[n + 1] = "/"
      BY <1>3, <3>1, <3>2
    <3>4. Has(x, "/")
      <4>1. DOMAIN x = 1..Len(x)
        BY <1>3, LenProperties
      <4> QED  BY <3>2, <3>3, <4>1 DEF Has
    <3>5. /\ at \in 1..Len(x) /\ x[at] = "/"
          /\ \A j \in 1..Len(x) : x[j] = "/" => at <= j
      BY <1>3, <3>4, FirstPosition
    <3> HIDE DEF at
    <3>6. at <= n + 1
      BY <3>2, <3>3, <3>5
    <3>7. at \notin 1..n
      BY <1>3, <1>4, <3>5 DEF Has
    <3>8. at = n + 1
      BY <1>3, <1>4, <3>5, <3>6, <3>7
    <3>9. Before(x, at) = host
      <4>1. at - 1 = n
        BY <1>4, <3>8
      <4> QED  BY <1>3, <4>1 DEF Before
    <3> QED  BY <3>4, <3>9 DEF Authority, at
  <2> QED  BY <2>1, <2>2
<1>6. UrlParse(x) = Url(host, name, port)
  BY <1>5, UrlIsHost
<1>7. WithHost(UrlParse(x)) = UrlParse(x)
  <2>1. UrlParse(x).host = host
    BY <1>6, UrlFields
  <2> QED  BY <2>1 DEF WithHost
<1>8. ParseTarget(http \o x) = WithHost(UrlParse(x))
  BY <1>3, WebTarget DEF http
<1> QED  BY <1>2, <1>6, <1>7, <1>8 DEF http

\* A port alone is one of this machine.
LEMMA PortTarget ==
  ASSUME NEW port \in Digits, port # <<>>, NEW s,
         s = port \/ s = <<":">> \o port
  PROVE  /\ ParseTarget(s) = Url(Joined(<<"localhost">>, port), <<"localhost">>, port)
         /\ s \in Seq(Letter) /\ s # <<>> /\ ~Has(s, Blank)
<1> DEFINE one == <<":">>
           local == <<"localhost">>
           t == one \o port
<1>1. /\ port \in Seq(Letter) /\ IsNumber(port) /\ \A c : Has(port, c) => c = "8"
      /\ \A i \in DOMAIN port : port[i] = "8"
  BY DigitsType
<1>2. one \in Seq(Letter) /\ Len(one) = 1 /\ one[1] = ":" /\ ~Has(one, Blank)
  <2>1. one \in Seq(Letter) /\ Len(one) = 1 /\ one[1] = ":"
    BY DEF Letter
  <2> HIDE DEF one
  <2>2. DOMAIN one = 1..1 /\ \A i \in 1..1 : i = 1
    BY <2>1, LenProperties
  <2> QED  BY <2>1, <2>2, BlankApart DEF Has
<1>3. <<"localhost", ":">> = local \o one
  OBVIOUS
<1>4. local \in Seq(Letter)
  BY DEF Letter
<1>5. Name(local)
  <2>1. Len(local) = 1 /\ local[1] = "localhost"
    OBVIOUS
  <2> HIDE DEF local
  <2>2. DOMAIN local = 1..1 /\ 1 \in 1..1 /\ \A i \in 1..1 : i = 1
    BY <1>4, <2>1, LenProperties
  <2>3. \A c : Has(local, c) <=> c = "localhost"
    BY <2>1, <2>2 DEF Has
  <2>4. Plain(local) /\ ~Has(local, "]")
    BY <2>3, PlainHas, BlankApart
  <2>5. local # <<>>
    BY <1>4, <2>1, EmptySeq
  <2> QED  BY <1>4, <2>1, <2>2, <2>4, <2>5 DEF Name
<1>6. Local(port) = UrlParse(Joined(local, port))
  <2>1. Local(port) = UrlParse(<<"localhost", ":">> \o port)
    BY DEF Local
  <2>2. Joined(local, port) = (local \o one) \o port
    BY DEF Joined
  <2> HIDE DEF one, local
  <2> QED  BY <1>3, <2>1, <2>2
<1> HIDE DEF one, local
<1>7. UrlParse(Joined(local, port)) = Url(Joined(local, port), local, port)
  <2> DEFINE h == Joined(local, port)
  <2>1. ParseHost(h) = Url(h, local, port) /\ ~Has(h, "/")
    BY <1>5, NamePortTarget
  <2> HIDE DEF h
  <2>2. UrlParse(h) = ParseHost(h)
    BY <2>1, UrlIsHost DEF Authority
  <2> QED  BY <2>1, <2>2 DEF h
<1>8. CASE s = port
  <2>1. ~Has(s, Blank)
    BY <1>1, <1>8, BlankApart
  <2>2. TrimSpace(s) = s
    BY <1>1, <1>8, <2>1, TrimNothing
  <2>3. Head(s) = "8"
    BY <1>1, <1>8, Ends
  <2>4. Head(s) # "http://" /\ Head(s) # ":"
    BY <2>3
  <2>5. ParseTarget(s) = Local(port)
    BY <1>1, <1>8, <2>2, <2>4, Zenon DEF ParseTarget
  <2> QED  BY <1>1, <1>6, <1>7, <1>8, <2>1, <2>5 DEF local
<1>9. CASE s = t
  <2>1. /\ t \in Seq(Letter) /\ Len(t) = 1 + Len(port) /\ Len(port) \in Nat
        /\ \A i \in 1..1 : t[i] = one[i]
        /\ SubSeq(t, 2, Len(t)) = port
        /\ \A c : Has(t, c) <=> Has(one, c) \/ Has(port, c)
    <3>1. /\ t \in Seq(Letter) /\ Len(t) = Len(one) + Len(port)
          /\ \A i \in 1..Len(one) : t[i] = one[i]
          /\ SubSeq(t, Len(one) + 1, Len(one) + Len(port)) = port
          /\ \A c : Has(t, c) <=> Has(one, c) \/ Has(port, c)
      <4>1. one \in Seq(Letter) /\ port \in Seq(Letter)
        BY <1>1, <1>2
      <4> QED  BY <4>1, Halves
    <3>2. Len(port) \in Nat /\ Len(one) + 1 = 2
      BY <1>2, LenProperties
    <3> HIDE DEF t
    <3> QED  BY <1>2, <3>1, <3>2
  <2> HIDE DEF t
  <2>2. ~Has(t, Blank)
    BY <1>1, <1>2, <2>1, BlankApart
  <2>3. t # <<>>
    <3>1. Len(t) # 0
      BY <2>1
    <3> QED  BY <2>1, <3>1, EmptySeq
  <2>4. Head(t) = ":" /\ Tail(t) = port
    <3>1. Head(t) = t[1] /\ Tail(t) = SubSeq(t, 2, Len(t)) /\ 1 \in 1..1
      BY <2>1, <2>3, Ends, TailIsSubSeq
    <3> QED  BY <1>2, <2>1, <3>1
  <2>5. Head(t) # "http://"
    BY <2>4
  <2>6. TrimSpace(t) = t
    BY <2>1, <2>2, TrimNothing
  <2>7. ParseTarget(t) = Local(port)
    BY <1>1, <2>3, <2>4, <2>5, <2>6, Zenon DEF ParseTarget
  <2> QED  BY <1>6, <1>7, <1>9, <2>1, <2>2, <2>3, <2>7 DEF local
<1> QED  BY <1>8, <1>9 DEF t, one

\* The formats that are documented: a port, a host, or a URL with or without a
\* path, where a host is a name with or without a port.
Ports == {<<"8">>, <<"8", "8">>}
Names == {<<"localhost">>, <<"a">>, <<"8", "a">>}
Paths == {<<>>, <<"/">>, <<"/", "a", ":">>}
Hosts == Names \cup {Joined(name, port) : name \in Names, port \in Ports}

\* Each of these is a port, a name, a path.
LEMMA PortsType ==
  ASSUME NEW port \in Ports
  PROVE  port \in Digits /\ port # <<>>
<1>1. CASE port = <<"8">>
  <2>1. <<"8">> \in Seq({"8"}) /\ Len(<<"8">>) # 0
    OBVIOUS
  <2> QED  BY <1>1, <2>1, EmptySeq DEF Digits
<1>2. CASE port = <<"8", "8">>
  <2>1. <<"8", "8">> \in Seq({"8"}) /\ Len(<<"8", "8">>) # 0
    OBVIOUS
  <2> QED  BY <1>2, <2>1, EmptySeq DEF Digits
<1> QED  BY <1>1, <1>2 DEF Ports

LEMMA NamesType ==
  ASSUME NEW name \in Names
  PROVE  Name(name)
<1>1. /\ name \in Seq({"localhost", "a", "8"}) /\ Len(name) \in {1, 2}
      /\ name[1] # "http://" /\ name[Len(name)] # "8"
  <2> DEFINE Fits(s) == /\ s \in Seq({"localhost", "a", "8"}) /\ Len(s) \in {1, 2}
                        /\ s[1] # "http://" /\ s[Len(s)] # "8"
  <2>1. Fits(<<"localhost">>)
    OBVIOUS
  <2>2. Fits(<<"a">>)
    OBVIOUS
  <2>3. Fits(<<"8", "a">>)
    OBVIOUS
  <2>4. name = <<"localhost">> \/ name = <<"a">> \/ name = <<"8", "a">>
    BY DEF Names
  <2>5. Fits(name)
    <3> HIDE DEF Fits
    <3> QED  BY <2>1, <2>2, <2>3, <2>4
  <2> QED  BY <2>5
<1>2. name \in Seq(Letter) /\ DOMAIN name = 1..Len(name)
  <2>1. {"localhost", "a", "8"} \subseteq Letter
    BY DEF Letter
  <2> QED  BY <1>1, <2>1, SeqMonotonic, LenProperties
<1>3. \A i \in DOMAIN name : name[i] \in {"localhost", "a", "8"}
  BY <1>1, <1>2, ElementOfSeq
<1>4. \A c : Has(name, c) => c \in {"localhost", "a", "8"}
  BY <1>3 DEF Has
<1>5. ~Has(name, Blank) /\ ~Has(name, "/") /\ ~Has(name, ":") /\ ~Has(name, "[") /\ ~Has(name, "]")
  BY <1>4, BlankApart
<1>6. name # <<>> /\ Len(name) \in DOMAIN name
  <2>1. Len(name) # 0 /\ Len(name) \in 1..Len(name)
    BY <1>1
  <2> QED  BY <1>2, <2>1, EmptySeq
<1> QED  BY <1>1, <1>2, <1>5, <1>6, PlainHas DEF Name

LEMMA PathsType ==
  ASSUME NEW path \in Paths
  PROVE  path \in Seq(Letter) /\ ~Has(path, Blank) /\ (path = <<>> \/ path[1] = "/")
<1>1. path \in Seq({"/", "a", ":"}) /\ (path = <<>> \/ path[1] = "/")
  <2> DEFINE Fits(s) == s \in Seq({"/", "a", ":"}) /\ (s = <<>> \/ s[1] = "/")
  <2>1. Fits(<<>>)
    BY EmptySeq
  <2>2. Fits(<<"/">>)
    OBVIOUS
  <2>3. Fits(<<"/", "a", ":">>)
    OBVIOUS
  <2>4. path = <<>> \/ path = <<"/">> \/ path = <<"/", "a", ":">>
    BY DEF Paths
  <2>5. Fits(path)
    <3> HIDE DEF Fits
    <3> QED  BY <2>1, <2>2, <2>3, <2>4
  <2> QED  BY <2>5
<1>2. path \in Seq(Letter) /\ DOMAIN path = 1..Len(path)
  <2>1. {"/", "a", ":"} \subseteq Letter
    BY DEF Letter
  <2> QED  BY <1>1, <2>1, SeqMonotonic, LenProperties
<1>3. \A i \in DOMAIN path : path[i] \in {"/", "a", ":"}
  BY <1>1, <1>2, ElementOfSeq
<1> QED  BY <1>1, <1>2, <1>3, BlankApart DEF Has

\* Each documented format is one of four forms.
LEMMA DocumentedForms ==
  ASSUME NEW d \in Documented
  PROVE  \/ \E port \in Ports : \/ d = <<port, Joined(<<"localhost">>, port)>>
                                \/ d = <<<<":">> \o port, Joined(<<"localhost">>, port)>>
         \/ \E host \in Hosts : \/ d = <<host, host>>
                                \/ \E path \in Paths : d = <<<<"http://">> \o host \o path, host>>
<1> DEFINE hosts == {host \o port : host \in Names, port \in {<<>>, <<":", "8">>, <<":", "8", "8">>}}
           PortForm(pre, port) == <<pre \o port, <<"localhost", ":">> \o port>>
           ports == {PortForm(pre, port) : pre \in {<<>>, <<":">>}, port \in Ports}
           UrlForm(host, path) == <<<<"http://">> \o host \o path, host>>
           urls == {UrlForm(host, path) : host \in hosts, path \in Paths}
<1>1. d \in ports \/ d \in urls \/ d \in {<<host, host>> : host \in hosts}
  <2>1. Documented = (ports \cup urls) \cup {<<host, host>> : host \in hosts}
    BY DEF Documented, Ports, Names, Paths
  <2> HIDE DEF ports, urls, hosts
  <2> QED  BY <2>1
<1>2. \A name \in Names : name \in Seq(Letter)
  BY NamesType DEF Name
<1>3. \A port \in Ports : port \in Seq(Letter)
  BY PortsType, DigitsType
<1>4. hosts \subseteq Hosts
  <2> SUFFICES ASSUME NEW h \in hosts
               PROVE  h \in Hosts
    OBVIOUS
  <2>0. PICK name \in Names, port \in {<<>>, <<":", "8">>, <<":", "8", "8">>} : h = name \o port
    OBVIOUS
  <2> HIDE DEF hosts, ports, urls
  <2>1. CASE port = <<>>
    <3>1. name \o port = name
      BY <1>2, <2>1, ConcatEmptySeq
    <3> QED  BY <2>0, <3>1 DEF Hosts
  <2>2. ASSUME NEW p \in Ports, port = <<":">> \o p
        PROVE  h \in Hosts
    <3>1. <<":">> \in Seq(Letter)
      BY DEF Letter
    <3>2. name \o port = Joined(name, p)
      <4> DEFINE one == <<":">>
      <4>1. one \in Seq(Letter) /\ name \in Seq(Letter) /\ p \in Seq(Letter)
        BY <1>2, <1>3, <2>2, <3>1
      <4>2. Joined(name, p) = (name \o one) \o p /\ port = one \o p
        BY <2>2 DEF Joined
      <4> HIDE DEF one
      <4>3. (name \o one) \o p = name \o (one \o p)
        BY <4>1, ConcatAssociative
      <4> QED  BY <4>2, <4>3, Zenon
    <3>3. Joined(name, p) \in Hosts
      BY <2>2 DEF Hosts
    <3> QED  BY <2>0, <3>2, <3>3
  <2>3. <<":", "8">> = <<":">> \o <<"8">> /\ <<":", "8", "8">> = <<":">> \o <<"8", "8">>
    OBVIOUS
  <2>4. <<"8">> \in Ports /\ <<"8", "8">> \in Ports
    BY DEF Ports
  <2>5. port = <<>> \/ port = <<":", "8">> \/ port = <<":", "8", "8">>
    BY <2>0
  <2> QED  BY <2>1, <2>2, <2>3, <2>4, <2>5
<1>5. CASE d \in ports
  <2>1. PICK pre \in {<<>>, <<":">>}, port \in Ports :
          d = PortForm(pre, port)
    <3> HIDE DEF PortForm, hosts, urls
    <3> QED  BY <1>5
  <2> HIDE DEF ports, urls, hosts
  <2>2. <<"localhost", ":">> \o port = Joined(<<"localhost">>, port)
    <3>1. <<"localhost", ":">> = <<"localhost">> \o <<":">>
      OBVIOUS
    <3> QED  BY <3>1, Zenon DEF Joined
  <2>3. <<>> \o port = port
    BY <1>3, ConcatEmptySeq
  <2> QED  BY <2>1, <2>2, <2>3
<1>6. CASE d \in urls
  <2>1. PICK host \in hosts, path \in Paths : d = UrlForm(host, path)
    <3> HIDE DEF UrlForm, hosts, ports
    <3> QED  BY <1>6
  <2> HIDE DEF ports, urls, hosts
  <2> QED  BY <1>4, <2>1
<1>7. CASE d \in {<<host, host>> : host \in hosts}
  <2> HIDE DEF ports, urls, hosts
  <2> QED  BY <1>4, <1>7
<1> HIDE DEF ports, urls, hosts
<1> QED  BY <1>1, <1>5, <1>6, <1>7

\* What is kept of a documented format.
LEMMA DocumentedKept ==
  ASSUME NEW d \in Documented
  PROVE  /\ d[1] \in Seq(Letter) /\ d[1] # <<>> /\ ~Has(d[1], Blank)
         /\ ParseTarget(d[1]).ok /\ Returns(ParseTarget(d[1]))
         /\ Kept(d[1]) = <<"http://">> \o d[2]
<1> DEFINE Good(s, h) == /\ s \in Seq(Letter) /\ s # <<>> /\ ~Has(s, Blank)
                         /\ ParseTarget(s).ok /\ Returns(ParseTarget(s))
                         /\ Kept(s) = <<"http://">> \o h
<1>1. ASSUME NEW port \in Ports, NEW s, s = port \/ s = <<":">> \o port
      PROVE  Good(s, Joined(<<"localhost">>, port))
  <2> DEFINE name == <<"localhost">>
             h == Joined(name, port)
             url == Url(h, name, port)
  <2>1. port \in Digits /\ port # <<>> /\ Name(name)
    BY PortsType, NamesType DEF Names
  <2>2. ParseTarget(s) = url /\ s \in Seq(Letter) /\ s # <<>> /\ ~Has(s, Blank)
    BY <1>1, <2>1, PortTarget
  <2> HIDE DEF name
  <2>3. FormatTarget(url) = <<"http://">> \o h /\ Returns(url)
    BY <2>1, NamePortTarget
  <2>4. url.ok
    BY UrlFields
  <2> HIDE DEF url, h
  <2>5. Good(s, h)
    BY <2>2, <2>3, <2>4 DEF Kept
  <2> QED  BY <2>5 DEF h, name
<1>2. ASSUME NEW host \in Hosts
      PROVE  \E name, port :
               /\ ParseHost(host) = Url(host, name, port)
               /\ ParseTarget(host) = Url(host, name, port)
               /\ FormatTarget(Url(host, name, port)) = <<"http://">> \o host
               /\ Returns(Url(host, name, port))
               /\ host # <<>> /\ ~Has(host, "/") /\ ~Has(host, Blank) /\ host \in Seq(Letter)
  <2>1. CASE host \in Names
    BY <2>1, NamesType, NameTarget
  <2>2. ASSUME NEW name \in Names, NEW port \in Ports, host = Joined(name, port)
        PROVE  /\ ParseHost(host) = Url(host, name, port)
               /\ ParseTarget(host) = Url(host, name, port)
               /\ FormatTarget(Url(host, name, port)) = <<"http://">> \o host
               /\ Returns(Url(host, name, port))
               /\ host # <<>> /\ ~Has(host, "/") /\ ~Has(host, Blank) /\ host \in Seq(Letter)
    BY <2>2, NamesType, PortsType, NamePortTarget
  <2> QED  BY <2>1, <2>2 DEF Hosts
<1>3. ASSUME NEW host \in Hosts
      PROVE  Good(host, host)
  <2>1. PICK name, port :
           /\ ParseTarget(host) = Url(host, name, port)
           /\ FormatTarget(Url(host, name, port)) = <<"http://">> \o host
           /\ Returns(Url(host, name, port))
           /\ host # <<>> /\ ~Has(host, Blank) /\ host \in Seq(Letter)
    BY <1>2
  <2>2. Url(host, name, port).ok
    BY UrlFields
  <2> QED  BY <2>1, <2>2 DEF Kept
<1>4. ASSUME NEW host \in Hosts, NEW path \in Paths
      PROVE  Good(<<"http://">> \o host \o path, host)
  <2> DEFINE http == <<"http://">>
             s == (http \o host) \o path
  <2>1. PICK name, port :
           /\ ParseHost(host) = Url(host, name, port)
           /\ FormatTarget(Url(host, name, port)) = http \o host
           /\ Returns(Url(host, name, port))
           /\ host # <<>> /\ ~Has(host, "/") /\ ~Has(host, Blank) /\ host \in Seq(Letter)
    BY <1>2
  <2>2. path \in Seq(Letter) /\ ~Has(path, Blank) /\ (path = <<>> \/ path[1] = "/")
    BY PathsType
  <2>3. ParseTarget(s) = Url(host, name, port)
    BY <2>1, <2>2, UrlTarget
  <2>4. http \in Seq(Letter) /\ Len(http) = 1 /\ http[1] = "http://"
    BY DEF Letter
  <2> HIDE DEF http
  <2>5. ~Has(http, Blank)
    <3>1. DOMAIN http = 1..1 /\ \A i \in 1..1 : i = 1
      BY <2>4, LenProperties
    <3> QED  BY <2>4, <3>1, BlankApart DEF Has
  <2> DEFINE w == http \o host
  <2>6. w \in Seq(Letter) /\ Len(w) = Len(http) + Len(host) /\ ~Has(w, Blank)
    BY <2>1, <2>4, <2>5, Halves
  <2> HIDE DEF w
  <2>7. s \in Seq(Letter) /\ Len(s) = Len(w) + Len(path) /\ ~Has(s, Blank)
    <3>1. s = w \o path
      BY DEF w
    <3> HIDE DEF s
    <3>2. w \in Seq(Letter) /\ path \in Seq(Letter)
      BY <2>2, <2>6
    <3>3. /\ w \o path \in Seq(Letter) /\ Len(w \o path) = Len(w) + Len(path)
          /\ \A c : Has(w \o path, c) <=> Has(w, c) \/ Has(path, c)
      BY <3>2, Halves
    <3> QED  BY <2>2, <2>6, <3>1, <3>3
  <2> HIDE DEF s
  <2>8. s # <<>>
    <3>1. Len(host) \in Nat /\ Len(path) \in Nat
      BY <2>1, <2>2, LenProperties
    <3>2. Len(s) # 0
      BY <2>4, <2>6, <2>7, <3>1
    <3> QED  BY <2>7, <3>2, EmptySeq
  <2>9. Url(host, name, port).ok
    BY UrlFields
  <2>10. Good(s, host)
    BY <2>1, <2>3, <2>7, <2>8, <2>9 DEF Kept, http
  <2> QED  BY <2>10 DEF s, http
<1>5. PICK s, h : d = <<s, h>> /\ Good(s, h)
  <2> HIDE DEF Good
  <2>1. CASE \E port \in Ports : \/ d = <<port, Joined(<<"localhost">>, port)>>
                                 \/ d = <<<<":">> \o port, Joined(<<"localhost">>, port)>>
    BY <1>1, <2>1
  <2>2. CASE \E host \in Hosts : d = <<host, host>>
    BY <1>3, <2>2
  <2>3. CASE \E host \in Hosts, path \in Paths : d = <<<<"http://">> \o host \o path, host>>
    BY <1>4, <2>3
  <2> QED  BY <2>1, <2>2, <2>3, DocumentedForms
<1>6. d[1] = s /\ d[2] = h
  BY <1>5
<1> QED  BY <1>5, <1>6

-----------------------------------------------------------------------------
(***************************************************************************)
(* The target of the route that was added last.                            *)
(***************************************************************************)
\* While there is a route its target is the one kept of what was typed; it is
\* only an origin that comes back of which a restore keeps the same.
TargetInv ==
  /\ mounted = <<>> => typed = <<>>
  /\ mounted # <<>> =>
       /\ typed \in Seq(Letter) /\ ParseTarget(typed).ok
       /\ Returns(ParseTarget(typed)) => target = Kept(typed)

\* What is kept of a target is the same origin, and kept as it is from then on.
LEMMA KeptReturns ==
  ASSUME NEW s \in Seq(Letter), ParseTarget(s).ok, Returns(ParseTarget(s))
  PROVE  /\ ParseTarget(Kept(s)).ok
         /\ ParseTarget(Kept(s)).hostname = ParseTarget(s).hostname
         /\ ParseTarget(Kept(s)).port = ParseTarget(s).port
         /\ Kept(Kept(s)) = Kept(s)
<1> DEFINE url == ParseTarget(s)
           again == ParseTarget(Kept(s))
<1>1. Origin(url)
  BY TargetIsOrigin
<1>2. again.ok /\ again.hostname = url.hostname /\ again.port = url.port
  <2>1. Kept(s) = FormatTarget(url)
    BY DEF Kept
  <2>2. Returns(url)
    OBVIOUS
  <2> HIDE DEF url
  <2> QED  BY <1>1, <2>1, <2>2, OriginReturns
<1>3. FormatTarget(again) = FormatTarget(url)
  <2> HIDE DEF url, again
  <2> QED  BY <1>2, Zenon DEF FormatTarget
<1> QED  BY <1>2, <1>3, Zenon DEF Kept

\* What users type is made of the symbols of a target.
LEMMA TypedType ==
  ASSUME NEW s \in Typed
  PROVE  s \in Seq(Letter)
<1> DEFINE short == UNION {[1..n -> TargetChar] : n \in 0..MaxTarget}
           bare == short \cup {Address, Address \o <<":">>, Address \o <<":", "8">>}
<1>1. ASSUME NEW x \in short
      PROVE  x \in Seq(Letter)
  <2>1. PICK n \in 0..MaxTarget : x \in [1..n -> TargetChar]
    BY <1>1
  <2>2. n \in Nat
    BY <2>1
  <2>3. x \in [1..n -> Letter]
    BY <2>1 DEF Letter
  <2> QED  BY <2>2, <2>3, SeqDef
<1>2. ASSUME NEW x \in {Address, Address \o <<":">>, Address \o <<":", "8">>}
      PROVE  x \in Seq(Letter)
  <2>1. Address \in Seq(Letter) /\ <<":">> \in Seq(Letter) /\ <<":", "8">> \in Seq(Letter)
    <3>1. "[" \in Letter /\ ":" \in Letter /\ "8" \in Letter /\ "]" \in Letter
      BY DEF Letter
    <3> QED  BY <3>1 DEF Address
  <2>2. \A u \in Seq(Letter), v \in Seq(Letter) : u \o v \in Seq(Letter)
    BY Halves
  <2> QED  BY <2>1, <2>2
<1>3. \A x \in bare : x \in Seq(Letter)
  BY <1>1, <1>2
<1>4. ASSUME NEW x \in bare
      PROVE  <<"http://">> \o x \in Seq(Letter)
  <2>1. <<"http://">> \in Seq(Letter)
    BY DEF Letter
  <2>2. x \in Seq(Letter)
    BY <1>3
  <2> QED  BY <2>1, <2>2, Halves
<1>5. \A d \in Documented : d[1] \in Seq(Letter)
  BY DocumentedKept
<1>6. Typed = (bare \cup {<<"http://">> \o x : x \in bare}) \cup {d[1] : d \in Documented}
  BY Zenon DEF Typed
<1> HIDE DEF short, bare
<1> QED  BY <1>3, <1>4, <1>5, <1>6

\* The target that is added is one of those.
LEMMA FormType ==
  ASSUME NEW form \in Forms
  PROVE  form[2] \in Seq(Letter)
<1>1. <<"8">> \in Seq(Letter)
  BY DEF Letter
<1>2. form[2] \in Typed \/ form[2] = <<"8">>
  BY DEF Forms
<1> QED  BY <1>1, <1>2, TypedType

\* No step keeps another target of an origin that comes back.
LEMMA TargetStep == Inv /\ TargetInv /\ [RouteNext]_<<mounted, typed, target>> => TargetInv'
<1> SUFFICES ASSUME Inv, TargetInv, [RouteNext]_<<mounted, typed, target>>
             PROVE  TargetInv'
  OBVIOUS
<1>1. mounted \in Seq(Mount) /\ DOMAIN mounted = 1..Len(mounted) /\ Len(mounted) \in Nat
  BY LenProperties DEF Inv
<1>2. ASSUME NEW form \in Forms, AddRoute(form[1], form[2])
      PROVE  TargetInv'
  <2>1. ParseTarget(form[2]).ok /\ form[2] \in Seq(Letter)
        /\ typed' = form[2] /\ target' = Kept(form[2])
    BY <1>2, FormType DEF AddRoute
  <2>2. mounted' # <<>>
    <3>1. PICK path : mounted' = Append(mounted, path)
      BY <1>2 DEF AddRoute, Add
    <3>2. mounted \in Seq(Mount \cup {path})
      BY <1>1, SeqMonotonic
    <3> QED  BY <3>1, <3>2, AppendProperties
  <2> QED  BY <2>1, <2>2 DEF TargetInv
<1>3. ASSUME NEW i \in DOMAIN mounted, DeleteRoute(i)
      PROVE  TargetInv'
  <2>1. mounted # <<>>
    BY <1>1, <1>3, Ends
  <2>2. CASE mounted' = <<>>
    BY <1>3, <2>2 DEF DeleteRoute, Forget, TargetInv
  <2>3. CASE mounted' # <<>>
    <3>1. typed' = typed /\ target' = target
      BY <1>3, <2>3 DEF DeleteRoute
    <3> QED  BY <2>1, <2>3, <3>1 DEF TargetInv
  <2> QED  BY <2>2, <2>3
<1>4. ASSUME Restore
      PROVE  TargetInv'
  <2>1. mounted # <<>>
    BY <1>4 DEF Restore
  <2>2. CASE mounted' = <<>> /\ Forget
    BY <2>2 DEF Forget, TargetInv
  <2>3. CASE target' = Kept(Kept(target)) /\ typed' = typed
             /\ mounted' = [i \in DOMAIN mounted |-> Restored(mounted[i])]
    <3>1. mounted' # <<>>
      <4>1. 1 \in DOMAIN mounted /\ DOMAIN mounted' = DOMAIN mounted
        BY <1>1, <2>1, <2>3, Ends
      <4> QED  BY <4>1
    <3>2. typed \in Seq(Letter) /\ ParseTarget(typed).ok
      BY <2>1 DEF TargetInv
    <3>3. Returns(ParseTarget(typed)) => target' = Kept(typed)
      <4> SUFFICES ASSUME Returns(ParseTarget(typed))
                   PROVE  target' = Kept(typed)
        OBVIOUS
      <4>1. target = Kept(typed)
        BY <2>1 DEF TargetInv
      <4>2. Kept(Kept(typed)) = Kept(typed)
        BY <3>2, KeptReturns
      <4> QED  BY <2>3, <4>1, <4>2, Zenon
    <3> QED  BY <2>3, <3>1, <3>2, <3>3 DEF TargetInv
  <2> QED  BY <1>4, <2>2, <2>3, Zenon DEF Restore
<1>5. CASE UNCHANGED <<mounted, typed, target>>
  BY <1>5 DEF TargetInv
<1> QED  BY <1>2, <1>3, <1>4, <1>5 DEF RouteNext

\* The invariant holds.
LEMMA TargetsKept == RouteSpec => []TargetInv
<1>1. RouteInit => TargetInv
  BY DEF RouteInit, Init, TargetInv
<1> QED  BY <1>1, InitInv, NextInv, TargetStep, PTL DEF RouteSpec

\* What Add keeps of a target, and saves, a restore reads as the same origin,
\* after any number of restores and whatever way the target was typed
\* (Registry.Add, RestoreFromCheckpoint).
THEOREM OriginsComeBack == RouteSpec => []TargetsReturn
<1>1. TargetInv => TargetsReturn
  <2> SUFFICES ASSUME TargetInv, mounted # <<>>, Returns(ParseTarget(typed))
               PROVE  LET url == ParseTarget(typed)
                          again == ParseTarget(target)
                      IN  again.ok /\ again.hostname = url.hostname /\ again.port = url.port
    BY DEF TargetsReturn
  <2>1. typed \in Seq(Letter) /\ ParseTarget(typed).ok /\ target = Kept(typed)
    BY DEF TargetInv
  <2> QED  BY <2>1, KeptReturns
<1> QED  BY <1>1, TargetsKept, PTL

\* The formats README lists are accepted and kept as it says, with blanks or
\* without, and stay so when they are restored (ParseTarget, FormatTarget).
THEOREM FormatsKept == RouteSpec => []DocumentedTargets
<1>1. TargetInv => DocumentedTargets
  <2> SUFFICES ASSUME TargetInv, NEW d \in Documented, TrimSpace(typed) = d[1]
               PROVE  target = <<"http://">> \o d[2]
    BY DocumentedKept DEF DocumentedTargets
  <2>1. /\ d[1] \in Seq(Letter) /\ d[1] # <<>> /\ ~Has(d[1], Blank)
        /\ Returns(ParseTarget(d[1])) /\ Kept(d[1]) = <<"http://">> \o d[2]
    BY DocumentedKept
  <2>2. TrimSpace(d[1]) = d[1]
    BY <2>1, TrimNothing
  <2>3. ParseTarget(typed) = ParseTarget(d[1])
    BY <2>2, Zenon DEF ParseTarget
  <2>4. mounted # <<>>
    <3> SUFFICES ASSUME typed = <<>>
                 PROVE  FALSE
      BY DEF TargetInv
    <3>1. typed \in Seq(Letter) /\ ~Has(typed, Blank)
      BY EmptySeq DEF Has
    <3>2. TrimSpace(typed) = typed
      BY <3>1, TrimNothing
    <3> QED  BY <2>1, <3>2
  <2>5. target = Kept(typed)
    BY <2>1, <2>3, <2>4 DEF TargetInv
  <2> QED  BY <2>1, <2>3, <2>5, Zenon DEF Kept
<1> QED  BY <1>1, TargetsKept, PTL

=============================================================================
