----------------------- MODULE MCClientSyncReaderWriter -----------------------
(***************************************************************************)
(* A small instance of ClientSyncReaderWriter for TLC: t1 writes and       *)
(* reads, t2 only reads, on copies of one object.                          *)
(***************************************************************************)
EXTENDS ClientSyncReaderWriter
=============================================================================
