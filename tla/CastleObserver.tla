--------------------------- MODULE CastleObserver ---------------------------
(***************************************************************************)
(* The operator's castle client (internal/castle/castle.go): each reconcile*)
(* pass drains the run's event log from the last cursor, page by page,     *)
(* folds the events into maps that live as long as the process, reads the  *)
(* run record, and hands the controller an observation it acts on: which   *)
(* adapter scopes are wanted, the verdict, the newest step progress.       *)
(* Drains run under the client's mutex, one event at a time; the engine    *)
(* appends meanwhile, and the process may go away.                         *)
(***************************************************************************)
EXTENDS Naturals, Sequences

CONSTANTS
  Scope,        \* adapter scope instances of the run
  PageSize,     \* defaultPageSize
  MaxPages,     \* maxEventPages: the page budget of one drain
  MaxLog,       \* bound on the events of the run
  MaxFaults,    \* bound on failed calls to castle
  MaxRestarts   \* bound on operator restarts

ASSUME ObserverAssumption ==
  /\ PageSize \in Nat \ {0} /\ MaxPages \in Nat \ {0}
  /\ MaxLog \in Nat /\ MaxFaults \in Nat /\ MaxRestarts \in Nat

VARIABLES
  log,        \* castle's events of the run; the place is the seq and the time
  record,     \* the status of castle's run record
  kept,       \* what the client retains for the run
  drain,      \* the observation in progress
  obs,        \* what the last pass observed, until the next one begins
  faults, restarts

castleVars == <<log, record>>
budgets == <<faults, restarts>>
vars == <<castleVars, kept, drain, obs, budgets>>

Kind == {"wanted", "released", "outcome", "chatter", "completed", "failed"}
Verdict == {"none", "completed", "failed", "recordSucceeded", "recordFailed"}
NoAdapter == "none"

Fresh == [cursor |-> 0, lifecycle |-> <<>>, scopes |-> [s \in Scope |-> NoAdapter],
          terminal |-> "none", progress |-> 0, steps |-> <<>>]
Idle == [pc |-> "idle", since |-> 0, upto |-> 0, page |-> 0, terminal |-> "none",
         progress |-> 0, owed |-> 0]
NoObservation == [known |-> FALSE, upto |-> 0, owed |-> 0, active |-> {}, terminal |-> "none",
                  progress |-> 0, steps |-> <<>>]

Fault == faults < MaxFaults /\ faults' = faults + 1 /\ UNCHANGED restarts
NoFault == UNCHANGED budgets

-----------------------------------------------------------------------------
(* One event. *)
IsTerminal(k) == k \in {"completed", "failed"}

\* Step progress; lifecycle chatter and terminals do not count.
IsProgress(k) == k = "outcome"

\* A provision names the adapter, its release the engine's shim of it.
Adapter == {"provisioned", "shim"}
LifecycleEvent(env) ==
  [event |-> env.kind, scope |-> env.scope,
   adapter |-> IF env.kind = "wanted" THEN "provisioned" ELSE "shim"]

ResolveReleaseAdapter(scopes, ev) ==
  IF ev.event = "released" /\ scopes[ev.scope] # NoAdapter
  THEN [ev EXCEPT !.adapter = scopes[ev.scope]] ELSE ev

\* What the maps keep of the event with seq n.
Fold(k, n) ==
  LET env == log[n]
      ev == ResolveReleaseAdapter(k.scopes, LifecycleEvent(env))
  IN CASE IsTerminal(env.kind) -> [k EXCEPT !.terminal = env.kind]
       [] env.kind = "outcome" -> [k EXCEPT !.steps = Append(@, n)]
       [] env.kind = "wanted" -> [k EXCEPT !.lifecycle = Append(@, ev),
                                           !.scopes[env.scope] = ev.adapter]
       [] env.kind = "released" -> [k EXCEPT !.lifecycle = Append(@, ev)]
       [] OTHER -> k

\* events.ActiveProvisions: wanted and not released later under the same key.
ScopeKey(ev) == <<ev.adapter, ev.scope>>
ReleasedAfter(history, i) ==
  \E j \in DOMAIN history : /\ j > i /\ history[j].event = "released"
                            /\ ScopeKey(history[j]) = ScopeKey(history[i])
ActiveProvisions(history) ==
  {ScopeKey(history[i]) : i \in {n \in DOMAIN history : history[n].event = "wanted"
                                                      /\ ~ReleasedAfter(history, n)}}

-----------------------------------------------------------------------------
(* Observe. *)
StartDrain ==
  /\ drain.pc = "idle"
  /\ drain' = [pc |-> "page", since |-> kept.cursor, upto |-> kept.cursor, page |-> 0,
               terminal |-> kept.terminal, progress |-> kept.progress, owed |-> Len(log)]
  /\ obs' = NoObservation
  /\ UNCHANGED <<castleVars, kept, budgets>>

\* A page is what castle has after the cursor, up to the page size; a short
\* one is the last, and so is the one that exhausts the budget.
PageEnd == IF drain.since + PageSize < Len(log) THEN drain.since + PageSize ELSE Len(log)
IsLastPage == PageEnd < drain.since + PageSize \/ drain.page + 1 = MaxPages

FetchPage ==
  /\ drain.pc = "page" /\ NoFault
  /\ drain' = [drain EXCEPT !.pc = IF IsLastPage THEN "tail" ELSE "fold",
                            !.upto = PageEnd, !.page = @ + 1]
  /\ UNCHANGED <<castleVars, kept, obs>>

Folding == drain.pc \in {"fold", "tail"}

\* The body of the drain's loop over a page.
FoldEvent ==
  LET n == drain.since + 1
  IN /\ Folding /\ drain.since < drain.upto
     /\ kept' = Fold(kept, n)
     /\ drain' = [drain EXCEPT !.since = n,
                  !.progress = IF IsProgress(log[n].kind) /\ n > @ THEN n ELSE @,
                  !.terminal = IF IsTerminal(log[n].kind) THEN log[n].kind ELSE @]
     /\ UNCHANGED <<castleVars, obs, budgets>>

NextPage ==
  /\ drain.pc = "fold" /\ drain.since = drain.upto
  /\ drain' = [drain EXCEPT !.pc = "page"]
  /\ UNCHANGED <<castleVars, kept, obs, budgets>>

ForgetCursor(k, since, progress) ==       \* mutant: every drain starts over
  [k EXCEPT !.progress = progress]
CloseDrain(k, since, progress) ==
  [k EXCEPT !.cursor = since, !.progress = progress]

EndDrain ==
  /\ drain.pc = "tail" /\ drain.since = drain.upto
  /\ kept' = CloseDrain(kept, drain.since, drain.progress)
  /\ drain' = [drain EXCEPT !.pc = "record"]
  /\ UNCHANGED <<castleVars, obs, budgets>>

\* A failed page ends the pass with an error: the cursor and the progress stay
\* behind, the events folded from earlier pages do not go away.
PageFails ==
  /\ drain.pc = "page" /\ Fault
  /\ drain' = Idle
  /\ UNCHANGED <<castleVars, kept, obs>>

RecordVerdict ==
  CASE record = "succeeded" -> "recordSucceeded"
    [] record \in {"failed", "cancelled"} -> "recordFailed"
    [] OTHER -> "none"

RecordFirst(terminal) ==                  \* mutant: the record wins over the envelope
  IF RecordVerdict # "none" THEN RecordVerdict ELSE terminal
Enriched(terminal) == IF terminal # "none" THEN terminal ELSE RecordVerdict

\* GetRun, and what the controller takes from the observation; the record's
\* failure is an error unless the envelope told the verdict.
ReadRecord ==
  /\ drain.pc = "record" /\ drain' = Idle
  /\ \E read \in BOOLEAN :
       /\ IF read THEN NoFault ELSE Fault
       /\ IF ~read /\ drain.terminal = "none"
          THEN UNCHANGED obs
          ELSE /\ obs' = [known |-> TRUE, upto |-> drain.since, owed |-> drain.owed,
                          active |-> ActiveProvisions(kept.lifecycle),
                          terminal |-> IF read THEN Enriched(drain.terminal) ELSE drain.terminal,
                          progress |-> drain.progress, steps |-> kept.steps]
  /\ UNCHANGED <<castleVars, kept>>

\* A new operator process has no maps.
RestartOperator ==
  /\ restarts < MaxRestarts /\ restarts' = restarts + 1
  /\ kept' = Fresh /\ drain' = Idle /\ obs' = NoObservation
  /\ UNCHANGED <<castleVars, faults>>

-----------------------------------------------------------------------------
(* The engine and castle. *)
Logged(k, s) == \E i \in DOMAIN log : log[i].kind = k /\ log[i].scope = s
Ended == \E i \in DOMAIN log : IsTerminal(log[i].kind)

\* A scope instance is provisioned once and released once.
Emit ==
  /\ Len(log) < MaxLog /\ ~Ended /\ record = "running"
  /\ \E k \in Kind, s \in Scope :
       /\ k = "wanted" => ~Logged("wanted", s)
       /\ k = "released" => Logged("wanted", s) /\ ~Logged("released", s)
       /\ k \notin {"wanted", "released"} => s = CHOOSE t \in Scope : TRUE
       /\ log' = Append(log, [kind |-> k, scope |-> s])
  /\ UNCHANGED <<record, kept, drain, obs, budgets>>

\* Castle closes the record after the terminal event, or without one.
CloseRecord ==
  /\ record = "running"
  /\ record' = IF ~Ended THEN "cancelled"
               ELSE IF log[Len(log)].kind = "completed" THEN "succeeded" ELSE "failed"
  /\ UNCHANGED <<log, kept, drain, obs, budgets>>

-----------------------------------------------------------------------------
Init ==
  /\ log = <<>> /\ record = "running"
  /\ kept = Fresh /\ drain = Idle /\ obs = NoObservation
  /\ faults = 0 /\ restarts = 0

Observe ==
  StartDrain \/ FetchPage \/ FoldEvent \/ NextPage \/ EndDrain \/ PageFails \/ ReadRecord

Next == Observe \/ RestartOperator \/ Emit \/ CloseRecord

Spec == Init /\ [][Next]_vars

\* The run is polled for ever, a pass goes on, and calls fail finitely often.
FairSpec == Spec /\ WF_vars(Observe)

-----------------------------------------------------------------------------
Prefix == 1 .. obs.upto
SmallerOf(a, b) == IF a < b THEN a ELSE b

(* Every variable keeps its type; the cursor never passes the log.          *)
TypeOK ==
  /\ \A i \in DOMAIN log : log[i].kind \in Kind /\ log[i].scope \in Scope
  /\ record \in {"running", "succeeded", "failed", "cancelled"}
  /\ kept.cursor \in 0 .. Len(log) /\ kept.terminal \in Verdict
  /\ drain.since \in 0 .. Len(log) /\ obs.terminal \in Verdict

(* CRI-132, KB-24: an observation is the replay of the log up to its cursor *)
(* however many pages, failed passes and restarts led to it: the active     *)
(* scopes, the newest progress, and every step outcome.                     *)
ObservedIsReplay ==
  obs.known =>
    /\ obs.active = {<<"provisioned", s>> : s \in
                       {s \in Scope : /\ \E i \in Prefix : log[i] = [kind |-> "wanted", scope |-> s]
                                      /\ \A i \in Prefix : log[i] # [kind |-> "released", scope |-> s]}}
    /\ \A i \in Prefix : log[i].kind = "outcome" =>
         i <= obs.progress /\ \E n \in DOMAIN obs.steps : obs.steps[n] = i
    /\ obs.progress # 0 => obs.progress \in Prefix /\ IsProgress(log[obs.progress].kind)

(* castle.go:153: the steps of an observation are in stream order.  They    *)
(* are while no call fails; the events of the pages before a failed one are *)
(* folded again, and the record's steps then tell them twice.               *)
StepsInStreamOrder == \A m, n \in DOMAIN obs.steps : m < n => obs.steps[m] < obs.steps[n]

(* An observation covers what castle had when the drain began, or, after a  *)
(* restart with a longer backlog, the whole page budget of it.              *)
ObservationIsComplete == obs.known => obs.upto >= SmallerOf(obs.owed, MaxPages * PageSize)

(* The envelope is the only source of the final state: a verdict taken from *)
(* the record means the drained history has no terminal event.              *)
EnvelopeVerdictWins ==
  obs.terminal \in {"recordSucceeded", "recordFailed"} =>
    \A i \in Prefix : ~IsTerminal(log[i].kind)

(* The controller's view catches up with the log, whatever the backlog, a   *)
(* failed page or a restart.                                                *)
ObserverCatchesUp == <>[](kept.cursor = Len(log))

(* The types and what an observation owes the log it was made from.         *)
Inv ==
  /\ TypeOK /\ ObservedIsReplay /\ ObservationIsComplete /\ EnvelopeVerdictWins
  /\ faults = 0 => StepsInStreamOrder
=============================================================================
