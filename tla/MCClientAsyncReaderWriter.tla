--------------------- MODULE MCClientAsyncReaderWriter ---------------------
(***************************************************************************)
(* ClientAsyncReaderWriter for TLC: what the user's callbacks call.        *)
(***************************************************************************)
EXTENDS ClientAsyncReaderWriter

\* A callback may use the whole interface, or nothing of it.
AllCalls == Calls
NoCalls == {}
=============================================================================
