---------------------------- MODULE MCThreadPool ----------------------------
(* ThreadPool with two or three workers and a few tasks.                   *)
EXTENDS ThreadPool
=============================================================================
