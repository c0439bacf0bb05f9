------------------------------ MODULE RequestLog ------------------------------
(***************************************************************************)
(* What the request store promises: a log of the newest MaxEntries         *)
(* requests since it was last cleared, under ids that grow by one and are  *)
(* never used again, in which an amendment changes the record it names and *)
(* one that names a record no longer kept changes nothing.                 *)
(***************************************************************************)
EXTENDS Naturals

CONSTANTS MaxEntries, Tag, Body, Proxy, NoBody, NoProxy

VARIABLES log,   \* the records kept, by id
          last   \* the id of the newest record ever made

Init == log = [id \in {} |-> NoBody] /\ last = 0

Record(tag) ==
  LET id == last + 1
      kept == {i \in DOMAIN log : i + MaxEntries > id}
      new == [tag |-> tag, body |-> NoBody, proxy |-> NoProxy]
  IN  /\ last' = id
      /\ log' = [i \in kept \cup {id} |-> IF i = id THEN new ELSE log[i]]

Amend(id) ==
  /\ \/ \E b \in Body : log' = [log EXCEPT ![id].body = b]
     \/ \E p \in Proxy : log' = [log EXCEPT ![id].proxy = p]
  /\ UNCHANGED last

Clear == log' = [id \in {} |-> NoBody] /\ UNCHANGED last

Next == \/ \E tag \in Tag : Record(tag)
        \/ \E id \in DOMAIN log : Amend(id)
        \/ Clear

Spec == Init /\ [][Next]_<<log, last>>
=============================================================================
