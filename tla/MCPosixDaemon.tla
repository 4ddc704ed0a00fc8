--------------------------- MODULE MCPosixDaemon ---------------------------
(***************************************************************************)
(* Model checking PosixDaemon: the sessions are interchangeable.           *)
(***************************************************************************)
EXTENDS PosixDaemon, TLC

Sessions == Permutations(Session)
=============================================================================
