----------------------------- MODULE MCLaterFd -----------------------------
(***************************************************************************)
(* The timeouts of the waits in the runs of LaterFd: a negative one, which *)
(* stands for one second, and one that never comes.                        *)
(***************************************************************************)
EXTENDS LaterFd

DefaultOrNever == {-1, 9}
=============================================================================
