----------------------- MODULE MCClientAsyncReader -------------------------
(***************************************************************************)
(* A small instance of ClientAsyncReader for TLC: two different messages,  *)
(* so that reordering shows, and one error the server may end with.        *)
(***************************************************************************)
EXTENDS ClientAsyncReader
=============================================================================
