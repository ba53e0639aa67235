----------------------- MODULE MCClientStreamingRpc ------------------------
(***************************************************************************)
(* A small instance of ClientStreamingRpc for TLC: the reader's thread and *)
(* two watchers, so that three replies can race.                           *)
(***************************************************************************)
EXTENDS ClientStreamingRpc
=============================================================================
