---------------------------- MODULE MCServiceStub ----------------------------
(***************************************************************************)
(* A small instance of ServiceStub for TLC: two threads, so that one can   *)
(* shut down or block while the other is in Run(), and enough requests     *)
(* that a callback makes a further one.                                    *)
(***************************************************************************)
EXTENDS ServiceStub
=============================================================================
