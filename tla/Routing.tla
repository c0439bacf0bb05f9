------------------------------- MODULE Routing -------------------------------
(***************************************************************************)
(* Mount paths (internal/routes/path.go) and the choice of the route for a *)
(* request (Registry.Match), over the tables that adding and deleting      *)
(* routes can produce.  A path is a sequence of characters; ".ft" stands   *)
(* for the three characters of the internal prefix.                        *)
(***************************************************************************)
EXTENDS Naturals, Sequences, FiniteSets, SequencesExt

CONSTANTS
  Char,      \* the characters users type, "/" and " " among them
  MaxLen,    \* bound: the length of what they type
  MaxRoutes  \* bound: routes at a time

ASSUME RoutingAssumption ==
  /\ "/" \in Char /\ ".ft" \notin Char
  /\ MaxLen \in Nat \ {0}
  /\ MaxRoutes \in Nat

VARIABLE mounted   \* the paths of Registry.order

Strings == UNION {[1..n -> Char] : n \in 0..MaxLen}

Root == <<"/">>
HasPrefix(s, prefix) == IsPrefix(prefix, s)

TrimSpace(s) ==
  LET visible == {i \in DOMAIN s : s[i] # " "}
  IN  IF visible = {} THEN <<>>
      ELSE SubSeq(s, CHOOSE i \in visible : \A j \in visible : i <= j,
                     CHOOSE i \in visible : \A j \in visible : j <= i)

TrimSlash(s) == IF s # <<>> /\ Last(s) = "/" THEN Front(s) ELSE s

\* NormalizePath; the error is the empty path.
NormalizePath(raw) ==
  LET p == TrimSpace(raw)
  IN  IF ~HasPrefix(p, Root) THEN <<>>
      ELSE IF p = Root THEN p ELSE TrimSlash(p)

\* What a restore makes of a path: RestoreFromCheckpoint normalizes it, and
\* Add does so again.
Restored(path) == NormalizePath(NormalizePath(path))

\* (Faulty variants: only a path below b conflicts with it; equal paths do
\* not conflict.)
IsBelow(a, b) == a = b \/ HasPrefix(a, b \o Root)
IsNested(a, b) == HasPrefix(a, b \o Root) \/ HasPrefix(b, a \o Root)

PathsOverlap(a, b) ==
  a = b \/ HasPrefix(a, b \o Root) \/ HasPrefix(b, a \o Root)

\* (Faulty variant: "/" is treated like the other paths.)
PrefixAnyPath(path) == <<"/", ".ft">> \o path

InternalPrefix(path) ==
  IF path = Root THEN <<"/", ".ft">> ELSE <<"/", ".ft">> \o path

-----------------------------------------------------------------------------
(***************************************************************************)
(* Match: the routes whose prefix the request has, and among them those    *)
(* that the sort may put first.  sort.Slice is not stable: with equal      *)
(* lengths any of them.                                                    *)
(***************************************************************************)
Candidates(request) ==
  {i \in DOMAIN mounted :
     LET prefix == InternalPrefix(mounted[i])
     IN  request = prefix \/ HasPrefix(request, prefix \o Root)}

\* (Faulty variant: the shortest prefix first.)
Shortest(request) ==
  {i \in Candidates(request) :
     \A j \in Candidates(request) :
       Len(InternalPrefix(mounted[i])) <= Len(InternalPrefix(mounted[j]))}

Best(request) ==
  {i \in Candidates(request) :
     \A j \in Candidates(request) :
       Len(InternalPrefix(mounted[i])) >= Len(InternalPrefix(mounted[j]))}

\* The path that goes upstream when route i is chosen.
Suffix(request, i) ==
  LET rest == SubSeq(request, Len(InternalPrefix(mounted[i])) + 1, Len(request))
  IN  IF rest = <<>> THEN Root
      ELSE IF ~HasPrefix(rest, Root) THEN Root \o rest ELSE rest

-----------------------------------------------------------------------------
Init == mounted = <<>>

\* Registry.Add, as far as paths go.
\* (Faulty variant: the error of NormalizePath is ignored.)
AddUnchecked(raw) ==
  LET path == NormalizePath(raw)
  IN  /\ Len(mounted) < MaxRoutes
      /\ \A i \in DOMAIN mounted : ~PathsOverlap(path, mounted[i])
      /\ mounted' = Append(mounted, path)

Add(raw) ==
  LET path == NormalizePath(raw)
  IN  /\ Len(mounted) < MaxRoutes
      /\ path # <<>>
      /\ \A i \in DOMAIN mounted : ~PathsOverlap(path, mounted[i])
      /\ mounted' = Append(mounted, path)

Delete(i) == mounted' = RemoveAt(mounted, i)

Next == \/ \E raw \in Strings : Add(raw)
        \/ \E i \in DOMAIN mounted : Delete(i)

Spec == Init /\ [][Next]_mounted

-----------------------------------------------------------------------------
TypeOK == mounted \in Seq(Strings \ {<<>>})

\* What a request may have after the prefix of a mount: nothing, or a slash
\* and more.
Below == {<<>>} \cup {Root \o s : s \in Strings}

\* The route a request goes to does not depend on the order of the table or
\* of an unstable sort, even though "/" is mounted beside other paths.
MatchIsUnique ==
  \A i \in DOMAIN mounted, rest \in Below :
    Cardinality(Best(InternalPrefix(mounted[i]) \o rest)) <= 1

\* A route serves its mount and what has the mount and a further slash before
\* it, with the path that is left of the request; "/" serves what no other
\* route does.  For a mount without a slash at its end that is everything below
\* it; for one that is kept with a slash it is not (SlashMountsServe).
RoutesServeTheirMounts ==
  \A i \in DOMAIN mounted, rest \in Below :
    LET request == InternalPrefix(mounted[i]) \o rest
    IN  /\ Best(request) # {}
        /\ mounted[i] # Root => i \in Best(request)
        /\ \A j \in Best(request) :
             \/ /\ i = j
                /\ Suffix(request, j) = IF rest = <<>> THEN Root ELSE rest
             \/ mounted[i] = Root /\ HasPrefix(rest, mounted[j])

(***************************************************************************)
(* What the documents say and the code does not do.                        *)
(***************************************************************************)

\* docs/plan-routes.md: no overlapping paths; a path that is a prefix of an
\* existing one is rejected, and so prefix match is unambiguous.
MatchIsUnambiguous ==
  \A i \in DOMAIN mounted, rest \in Below :
    Cardinality(Candidates(InternalPrefix(mounted[i]) \o rest)) <= 1

\* docs/plan-routes.md: trailing slashes are normalized, a mount with them is
\* the one without.  NormalizePath takes one slash, and Match asks for a further
\* one behind the mount: "/a/" does not serve what is asked below "/a".
SlashMountsServe ==
  \A i \in DOMAIN mounted, s \in Strings :
    mounted[i] # Root /\ TrimSlash(mounted[i]) # Root =>
      Best(InternalPrefix(TrimSlash(mounted[i])) \o Root \o s) # {}

\* docs/plan-routes.md: trailing slashes are normalized, and Recover loads
\* the routes of the checkpoint.  RestoreFromCheckpoint normalizes them once
\* more, and Add again, and refuses those that then overlap.
TableSurvivesRestore ==
  \A i, j \in DOMAIN mounted :
    i # j => ~PathsOverlap(Restored(mounted[i]), Restored(mounted[j]))

=============================================================================
