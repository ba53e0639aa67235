------------------------------ MODULE MCServer ------------------------------
(***************************************************************************)
(* A small instance of Server for TLC: two methods, so that one can be     *)
(* handled while the other fails, each of a service that may be registered *)
(* or not, and two threads that race to shut down.                         *)
(***************************************************************************)
EXTENDS Server, TLC

CONSTANTS m1, m2, s1, s2

\* A service for each method.
OneEach == m1 :> s1 @@ m2 :> s2
OfFirst == m1 :> s1
=============================================================================
