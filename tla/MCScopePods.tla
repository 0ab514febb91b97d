---------------------------- MODULE MCScopePods ----------------------------
(* Instances of ScopePods for TLC: two scopes of one environment and one    *)
(* without an environment.                                                  *)
EXTENDS ScopePods

MCEnvOf == [s \in Scope |-> IF s = "c" THEN NoEnv ELSE "e"]
OwnDefs == [s \in Scope |-> s]
WholeGraph == [e \in Env |-> {"a", "b"}]
=============================================================================
