------------------------------ MODULE MCWatcher ------------------------------
(* Instances of KanboardWatcher for TLC.                                   *)
EXTENDS KanboardWatcher

Shown(allowed, most, moved, failing, again) ==
  [features |-> allowed, runs |-> most, moves |-> moved, faults |-> failing, restarts |-> again]

\* Hasty people; late verdicts and retention, with a failed call or a restart;
\* lost news in the castle lane; a calm world.
MCScenes ==
  {Shown({"hasty"}, 2, 2, 1, 0),
   Shown({"lateVerdict", "retention"}, 2, 1, 1, 0),
   Shown({"lateVerdict", "retention"}, 1, 1, 0, 1),
   Shown({"abandon", "lostAck"}, 2, 0, 1, 1),
   Shown({}, 3, 2, 0, 0)}
=============================================================================
