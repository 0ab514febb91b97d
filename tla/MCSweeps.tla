------------------------------- MODULE MCSweeps -------------------------------
(* Two run names of one ticket; the runner Job and an adapter of the first. *)
EXTENDS RetentionSweeps
MCTicket == [n \in Name |-> "T"]
MCRunOf == [o \in Obj |-> "a"]
\* The families age in one instance, orphans are made and reaped in the other.
MCScenes == {[runs |-> 2, time |-> 2, objs |-> {}, faults |-> 0],
             [runs |-> 2, time |-> 0, objs |-> Obj, faults |-> 1]}
=============================================================================
