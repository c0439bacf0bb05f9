------------------------------ MODULE MCRegistry ------------------------------
(***************************************************************************)
(* Instances of Registry for TLC.                                          *)
(***************************************************************************)
EXTENDS Registry, TLC

\* "/api", "/api/", "/api//", "/api/v1", "/api//v1", "/api " and "/api /".
CONSTANTS api, apiSlash, apiSlashes, apiSub, apiSlashSub, apiSpace, apiSpaceSlash

\* "8080", which is kept as app; "/x", which is kept as noHost; and these two,
\* "http://localhost:8080" and "http://".
CONSTANTS app, slash, noHost

\* All of them conflict with "/api", but "/api/v1" with no other: "/api/", which
\* "/api//" is kept as, is no prefix of it with a slash in between.
MCPath == {api, apiSlash, apiSlashes, apiSub, apiSlashSub}

MCNormalizePath ==
  [p \in MCPath |-> CASE p = apiSlash -> api [] p = apiSlashes -> apiSlash [] OTHER -> p]

MCOverlap ==
  {pq \in MCPath \X MCPath :
     \/ pq[1] = pq[2]
     \/ api \in {pq[1], pq[2]}
     \/ apiSlash \in {pq[1], pq[2]} /\ apiSub \notin {pq[1], pq[2]}}

\* "/api /" is kept as "/api ", which conflicts with no other path that is kept,
\* and converted again it is "/api".
MCSpacePath == {api, apiSlash, apiSlashes, apiSub, apiSpace, apiSpaceSlash}

MCSpaceNormalizePath ==
  [p \in MCSpacePath |->
     CASE p = apiSpaceSlash -> apiSpace
       [] p = apiSpace -> api
       [] OTHER -> MCNormalizePath[p]]

MCSpaceOverlap ==
  (MCOverlap \cap (MCSpacePath \X MCSpacePath))
    \cup ({apiSpace, apiSpaceSlash} \X {apiSpace, apiSpaceSlash})

\* One target, which is kept as it is; that one and one that Add refuses; or
\* those that a restore may not read.
MCTarget == {app}
MCParseTarget == [t \in MCTarget |-> app]

MCSomeTargets == {app, noHost}

MCTargets == {app, slash, noHost}
MCParseTargets == [t \in {app, slash} |-> IF t = slash THEN noHost ELSE app]

\* Fewer paths, which convert to themselves, for the runs that need more of
\* something else: three, of which one conflicts with the others, and two that
\* do not conflict.
MCThreePaths == {api, apiSub, apiSlashSub}
MCThreeNormalizePath == [p \in MCThreePaths |-> p]
MCThreeOverlap == MCOverlap \cap (MCThreePaths \X MCThreePaths)

MCTwoPaths == {apiSub, apiSlashSub}
MCTwoNormalizePath == [p \in MCTwoPaths |-> p]
MCTwoOverlap == MCOverlap \cap (MCTwoPaths \X MCTwoPaths)

MCFunnelFaults == {"start", "stop"}
MCFileFaults == {"open", "write", "remove"}
MCNoFaults == {}
MCStartFaults == {"start"}

MCAllOps == {"add", "delete", "restore", "dismiss"}
MCAddDismiss == {"add", "dismiss"}
MCAddRestore == {"add", "restore"}
MCAdd == {"add"}

\* Handlers and route ids are interchangeable.
MCSymmetry == Permutations(Handler) \cup Permutations(RouteId)
=============================================================================
