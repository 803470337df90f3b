---------------------------- MODULE MCTuiSession ----------------------------
(* The instances of TuiSession that TLC checks: a run with two inputs queued
   behind it, and two requests of tools that run in parallel. *)
EXTENDS TuiSession
=============================================================================
