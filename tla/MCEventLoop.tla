---------------------------- MODULE MCEventLoop ----------------------------
(***************************************************************************)
(* Model checking of the event loops: the values a configuration file      *)
(* cannot write down.                                                      *)
(***************************************************************************)
EXTENDS EventLoop

\* run_now(-1) waits as long as it takes, run_now(0) does not wait.
WaitOrNot == {-1, 0}
=============================================================================
