---------------------------- MODULE MCReconciler ----------------------------
(* Instances of CriteriaRunReconciler for TLC.                             *)
EXTENDS CriteriaRunReconciler

InOrder == [r \in Run |-> r]
Shown(born, unfit, allowed, behind, failing, again) ==
  [runs |-> born, refused |-> unfit, features |-> allowed, lag |-> behind, faults |-> failing, restarts |-> again]

\* Runs 1 and 2 meet at the queue key, runs 1 and 3 at the ticket.
KeyOfTwo == [r \in Run |-> IF r = 3 THEN "triage" ELSE "dev"]
TicketOfTwo == [r \in Run |-> IF r = 2 THEN 2 ELSE 1]
SafetyScenes ==
  {Shown({1}, {}, {"castle", "archive", "perScope", "stall", "drift", "crash", "delete"}, 1, 1, 1),
   Shown({1}, {}, {"castle", "archive", "stall", "pause", "delete"}, 1, 1, 1),
   Shown({1}, {}, {"castle", "archive", "crash", "podLag"}, 1, 1, 1),
   Shown({1, 2}, {}, {"delete", "force"}, 1, 0, 0),
   Shown({1, 3}, {}, {"delete"}, 2, 0, 1)}

\* One run whose engine may hang.
OneKeyOnly == [r \in Run |-> "dev"]
WedgeScenes ==
  {Shown({1}, {}, {"castle", "archive", "perScope", "crash", "delete", "pause", "stall"}, 1, 1, 0),
   Shown({1}, {}, {"castle", "archive", "stall", "podLag"}, 1, 0, 0)}

\* Three runs that share key and ticket, the first of them refused.
OneTicket == [r \in Run |-> 1]
ContentionScene == {Shown({1, 2, 3}, {1}, {}, 1, 0, 0)}

=============================================================================
