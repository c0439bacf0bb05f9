-------------------------------- MODULE Targets --------------------------------
(***************************************************************************)
(* The upstream targets users type (internal/config/target.go), on strings *)
(* as in Routing.  Registry.Add keeps FormatTarget(ParseTarget(typed)) and *)
(* the checkpoint file keeps that, so that a restore parses it again.      *)
(*                                                                         *)
(* "http://" is one symbol and stands for either scheme, "localhost" is    *)
(* one symbol, "8" stands for a digit, "a" for a letter, and "/" for what  *)
(* ends the authority of a URL: a path, a query or a fragment.             *)
(***************************************************************************)
EXTENDS Routing

CONSTANTS
  TargetChar,  \* what users type in a target, besides the scheme
  MaxTarget    \* bound: its length

VARIABLES
  typed,   \* the target of the route that was added last, as the user typed it
  target   \* and as the registry and the file keep it

Has(s, c) == \E i \in DOMAIN s : s[i] = c
Without(s, chars) == \A i \in DOMAIN s : s[i] \notin chars

\* strconv.Atoi accepts it (there are no signs).
IsNumber(s) == s # <<>> /\ \A i \in DOMAIN s : s[i] = "8"

\* The positions of the last c and of the first; 0 when there is none.
LastOf(s, c) == IF Has(s, c) THEN CHOOSE i \in DOMAIN s :
                  s[i] = c /\ \A j \in DOMAIN s : s[j] = c => j <= i ELSE 0
FirstOf(s, c) == IF Has(s, c) THEN CHOOSE i \in DOMAIN s :
                   s[i] = c /\ \A j \in DOMAIN s : s[j] = c => i <= j ELSE 0

Before(s, i) == SubSeq(s, 1, i - 1)
After(s, i) == SubSeq(s, i + 1, Len(s))

-----------------------------------------------------------------------------
(***************************************************************************)
(* What the code uses of net, net/netip and net/url.                       *)
(***************************************************************************)
Error == [ok |-> FALSE]

\* An IPv6 address of fewer than eight groups.
IsIPv6(s) ==
  LET double == {i \in 1..(Len(s) - 1) : s[i] = ":" /\ s[i + 1] = ":"}
  IN  /\ s # <<>> /\ \A i \in DOMAIN s : s[i] \in {"a", "8", ":"}
      /\ Cardinality(double) = 1
      /\ s[1] = ":" => 1 \in double
      /\ Last(s) = ":" => Len(s) - 1 \in double

ValidOptionalPort(s) ==
  s = <<>> \/ (Head(s) = ":" /\ \A i \in 2..Len(s) : s[i] = "8")

\* What url.Parse accepts between "http://" and the path.
ValidHost(s) ==
  /\ Without(s, {" "})
  /\ IF Has(s, "[")
       THEN /\ Has(s, "]") /\ s[1] = "["
            /\ IsIPv6(SubSeq(s, 2, LastOf(s, "]") - 1))
            /\ ValidOptionalPort(After(s, LastOf(s, "]")))
       ELSE Has(s, ":") => ValidOptionalPort(SubSeq(s, LastOf(s, ":"), Len(s)))

\* url.Parse of "http://" and s: the host, as URL.Hostname and URL.Port split it.
UrlParse(s) ==
  LET authority == IF Has(s, "/") THEN Before(s, FirstOf(s, "/")) ELSE s
      colon == LastOf(authority, ":")
      split == colon # 0 /\ ValidOptionalPort(SubSeq(authority, colon, Len(authority)))
      name == IF split THEN Before(authority, colon) ELSE authority
      quoted == name # <<>> /\ Head(name) = "[" /\ Last(name) = "]"
  IN  IF ~ValidHost(authority) THEN Error
      ELSE [ok |-> TRUE, host |-> authority,
            hostname |-> IF quoted THEN SubSeq(name, 2, Len(name) - 1) ELSE name,
            port |-> IF split THEN After(authority, colon) ELSE <<>>]

SplitHostPort(s) ==
  LET colon == LastOf(s, ":")
      close == FirstOf(s, "]")
      quoted == colon # 0 /\ s[1] = "["
      host == IF quoted THEN SubSeq(s, 2, close - 1) ELSE Before(s, colon)
  IN  IF \/ colon = 0
         \/ quoted /\ colon # close + 1
         \/ ~quoted /\ Has(host, ":")
         \/ Has(Tail(s), "[") \/ (~quoted /\ Has(s, "["))
         \/ Has(After(s, IF quoted THEN close ELSE 0), "]")
        THEN Error
        ELSE [ok |-> TRUE, host |-> host, port |-> After(s, colon)]

JoinHostPort(host, port) ==
  (IF Has(host, ":") THEN <<"[">> \o host \o <<"]">> ELSE host) \o <<":">> \o port

-----------------------------------------------------------------------------
\* A port alone is one of this machine.
\* (Faulty variant: it is taken for a host.)
LocalHost(port) == UrlParse(port)

Local(port) == UrlParse(<<"localhost", ":">> \o port)

\* A target with a scheme must have a host.
WithHost(url) == IF url.ok /\ url.host = <<>> THEN Error ELSE url

ParseTarget(raw) ==
  LET s == TrimSpace(raw)
      pair == SplitHostPort(s)
  IN  IF s = <<>> THEN Error
      ELSE IF Head(s) = "http://" THEN WithHost(UrlParse(Tail(s)))
      ELSE IF Head(s) = ":" THEN IF IsNumber(Tail(s)) THEN Local(Tail(s)) ELSE Error
      ELSE IF IsNumber(s) THEN Local(s)
      ELSE IF pair.ok THEN IF IsNumber(pair.port)
                             THEN UrlParse(JoinHostPort(pair.host, pair.port))
                             ELSE Error
      ELSE UrlParse(s)

\* (Faulty variant: the port is left out.)
FormatHost(url) == <<"http://">> \o url.hostname

FormatTarget(url) ==
  <<"http://">> \o (IF url.port = <<>> THEN url.hostname
                                       ELSE JoinHostPort(url.hostname, url.port))

-----------------------------------------------------------------------------
(***************************************************************************)
(* What users type: anything short, with a scheme or without, and the      *)
(* forms an IPv6 address may have.  A path and a target never meet, so     *)
(* that only one of the two varies at a time: targets are tried with the   *)
(* path "/" in an empty table, and the other paths with the target "8".    *)
(***************************************************************************)
Address == <<"[", ":", ":", "8", "]">>

\* The formats README lists, and what it says they are kept as.  A URL may
\* have a path.
Documented ==
  LET ports == {<<pre \o port, <<"localhost", ":">> \o port>> :
                   pre \in {<<>>, <<":">>}, port \in {<<"8">>, <<"8", "8">>}}
      hosts == {host \o port : host \in {<<"localhost">>, <<"a">>, <<"8", "a">>},
                               port \in {<<>>, <<":", "8">>, <<":", "8", "8">>}}
      urls == {<<<<"http://">> \o host \o path, host>> :
                 host \in hosts, path \in {<<>>, <<"/">>, <<"/", "a", ":">>}}
  IN  ports \cup urls \cup {<<host, host>> : host \in hosts}

Typed ==
  LET short == UNION {[1..n -> TargetChar] : n \in 0..MaxTarget}
      bare == short \cup {Address, Address \o <<":">>, Address \o <<":", "8">>}
  IN  bare \cup {<<"http://">> \o s : s \in bare} \cup {d[1] : d \in Documented}

Forms == IF mounted = <<>> THEN ({Root} \X Typed) \cup (Strings \X {<<"8">>})
                          ELSE Strings \X {<<"8">>}

Kept(s) == FormatTarget(ParseTarget(s))

\* Registry.Add refuses what it cannot parse.
AddRoute(raw, s) ==
  /\ ParseTarget(s).ok
  /\ Add(raw)
  /\ typed' = s /\ target' = Kept(s)

Forget == typed' = <<>> /\ target' = <<>>

DeleteRoute(i) ==
  /\ Delete(i)
  /\ IF mounted' = <<>> THEN Forget ELSE UNCHANGED <<typed, target>>

\* A crash, and a restore of the checkpoint: RestoreFromCheckpoint, and Add
\* for each of its routes, all of which or none are there at the end.
Restore ==
  LET again == [i \in DOMAIN mounted |-> Restored(mounted[i])]
      accepted == /\ ParseTarget(target).ok /\ ParseTarget(Kept(target)).ok
                  /\ \A i, j \in DOMAIN again : i # j => ~PathsOverlap(again[i], again[j])
  IN  /\ mounted # <<>>
      /\ IF accepted
           THEN mounted' = again /\ target' = Kept(Kept(target)) /\ UNCHANGED typed
           ELSE mounted' = <<>> /\ Forget

RouteInit == Init /\ typed = <<>> /\ target = <<>>

RouteNext ==
  \/ \E form \in Forms : AddRoute(form[1], form[2])
  \/ \E i \in DOMAIN mounted : DeleteRoute(i)
  \/ Restore

RouteSpec == RouteInit /\ [][RouteNext]_<<mounted, typed, target>>

-----------------------------------------------------------------------------
\* Origins that come back from FormatTarget: a name or a missing host with a
\* port, and an IPv6 address that has a port as well.
Returns(url) ==
  IF Has(url.hostname, ":") THEN IsIPv6(url.hostname) /\ url.port # <<>>
                            ELSE url.hostname # <<>> \/ url.port # <<>>

\* What Add keeps of a target, and saves, a restore reads as the same origin,
\* after any number of restores and whatever way the target was typed (Add,
\* RestoreFromCheckpoint).
TargetsReturn ==
  LET url == ParseTarget(typed)
      again == ParseTarget(target)
  IN  mounted # <<>> /\ Returns(url) =>
        again.ok /\ again.hostname = url.hostname /\ again.port = url.port

\* The formats README lists are accepted and kept as it says, with blanks or
\* without, and stay so when they are restored (ParseTarget, FormatTarget).
DocumentedTargets ==
  \A d \in Documented :
    /\ ParseTarget(d[1]).ok
    /\ TrimSpace(typed) = d[1] => target = <<"http://">> \o d[2]

(***************************************************************************)
(* What the documents say and the code does not do.                        *)
(***************************************************************************)

\* docs/plan-routes.md: Recover loads the routes of the checkpoint.  It can
\* only when it can read the target that Add accepted and kept.
TargetsRestorable == mounted # <<>> => ParseTarget(target).ok

=============================================================================
