------------------------ MODULE MCClientAsyncWriter ------------------------
(***************************************************************************)
(* A small instance of ClientAsyncWriter for TLC: two messages, so that    *)
(* reordering shows; two callbacks, so that a second Close() shows.        *)
(***************************************************************************)
EXTENDS ClientAsyncWriter
=============================================================================
