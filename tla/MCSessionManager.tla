--------------------------- MODULE MCSessionManager ---------------------------
(***************************************************************************)
(* SessionManager with a few connections, one more than slots.             *)
(***************************************************************************)
EXTENDS SessionManager
=============================================================================
