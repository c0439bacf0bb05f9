------------------------------ MODULE RouteTable ------------------------------
(***************************************************************************)
(* What the registry promises to the goroutines that read it (Match, List, *)
(* Get): a table of routes that changes by one whole route at a time, in   *)
(* which an id names one route for as long as the process lives and no two *)
(* mount paths conflict.  The table does not survive the process.          *)
(***************************************************************************)
CONSTANTS RouteId, Path, Target, Overlap

VARIABLE table

Route == [id : RouteId, path : Path, target : Target]

Init == table = {}

\* A route is published: its id is new, its path conflicts with none.
Publish ==
  \E rt \in Route :
    /\ \A old \in table : old.id # rt.id /\ <<rt.path, old.path>> \notin Overlap
    /\ table' = table \cup {rt}

\* A route is withdrawn.
Withdraw == \E rt \in table : table' = table \ {rt}

\* The process ends.
Forget == table' = {}

Next == Publish \/ Withdraw \/ Forget

Spec == Init /\ [][Next]_table
=============================================================================
