------------------------------- MODULE MCStore -------------------------------
(***************************************************************************)
(* An instance of Store for TLC.                                           *)
(***************************************************************************)
EXTENDS Store

CONSTANTS none, text, pending, done, routeA, routeB

MCBody == {none, text}
MCProxy == {pending, done}
MCTag == {routeA, routeB}
=============================================================================
