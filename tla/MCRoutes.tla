------------------------------- MODULE MCRoutes -------------------------------
(* Two projects, four tags -- one names a config, one a workflow -- and rules *)
(* of every kind: tag-less, tagged, with a configRef that may dangle.         *)
EXTENDS RouteTable, TLC
MCConfigs == ("v1" :> [tags |-> {"rel"}, match |-> "any"]) @@ ("v2" :> [tags |-> {"rel"}, match |-> "all"])
             @@ ("v3" :> [tags |-> {"dev", "urgent"}, match |-> "all"])
R(p, s, t, m, w, c) == [project |-> p, states |-> s, tags |-> t, match |-> m, workflow |-> w, config |-> c]
MCRules == {R("p", {"todo"}, {}, "all", "dev", ""), R("p", {"todo"}, {"urgent"}, "any", "triage", ""),
            R("q", {"todo", "doing"}, {}, "any", "dev", "v1")}
=============================================================================
