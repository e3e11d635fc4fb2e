-------------------------- MODULE MCRunLifecycle --------------------------
(* Small instances of RunLifecycle for TLC.  Runs share nothing but the     *)
(* mutex, so one run shows every interleaving of a run's own actors; two    *)
(* would only multiply the states.                                          *)
EXTENDS RunLifecycle

CONSTANT r1
=============================================================================
