----------------------------- MODULE MCLogStream -----------------------------
(***************************************************************************)
(* LogStream with two threads, one client and queues of two lines.         *)
(***************************************************************************)
EXTENDS LogStream
=============================================================================
