-------------------------- MODULE MCAdapterManager --------------------------
(* One adapter; a cfg gives the processes and their callers.               *)
EXTENDS AdapterManager
=============================================================================
