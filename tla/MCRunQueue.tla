----------------------------- MODULE MCRunQueue -----------------------------
(* Instances of RunQueue for TLC: five runs, four of them on one key. *)
EXTENDS RunQueue

MCRun == 1 .. 5
MCQueueKey == {"dev", "triage"}
MCKeyOf == [r \in MCRun |-> IF r = 3 THEN "triage" ELSE "dev"]
=============================================================================
