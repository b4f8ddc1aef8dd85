----------------------- MODULE MCEventLoopThreadPool -----------------------
(* EventLoopThreadPool for TLC. *)
EXTENDS EventLoopThreadPool
=============================================================================
