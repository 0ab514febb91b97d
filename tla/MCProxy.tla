------------------------------ MODULE MCProxy ------------------------------
(* An instance of RunEventProxy for TLC: a run of the watcher lane with two *)
(* events, and one of the assignment lane with one.                         *)
EXTENDS RunEventProxy

MCEvents == [r \in Run |-> IF r \in Dispatched THEN 1 ELSE 2]
=============================================================================
