--------------------------- MODULE MCServerWriter ---------------------------
(***************************************************************************)
(* Instances of ServerWriter for TLC: t1 is a handler that Server::Run()   *)
(* called, on its only thread, and t2 is a thread of the user; or both are *)
(* threads of the user, and p is in Server::Run().                         *)
(***************************************************************************)
EXTENDS ServerWriter
=============================================================================
