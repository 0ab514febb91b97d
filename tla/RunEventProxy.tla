---------------------------- MODULE RunEventProxy ----------------------------
(***************************************************************************)
(* The run-event proxy of internal/proxy/proxy.go: the operator answers    *)
(* the engines of its run pods in castle's place.  An engine registers     *)
(* with the enrollment token of its CriteriaRun, opens a proxy run, and    *)
(* streams events; each stream has a handler that resolves the castle run  *)
(* of the CriteriaRun, forwards the events onto it and acknowledges them.  *)
(* The proxy's tables live in the operator's memory, the tokens and the    *)
(* stamped castle run id in annotations.  The mutexes guard the tables     *)
(* only: handlers interleave between any two calls.                        *)
(***************************************************************************)
EXTENDS Naturals, Sequences, FiniteSets

CONSTANTS
  Run,          \* CriteriaRuns
  Dispatched,   \* those the assignment lane created, carrying a castle run id
  Streams,      \* handlers the server runs at one time
  Events,       \* Events[r]: how many events an engine of r sends
  MaxEntries,   \* bound on proxy runs, a new one per engine start
  MaxFaults,    \* bound on failed calls and broken connections
  MaxRestarts   \* bound on operator restarts

ASSUME ProxyAssumption ==
  /\ Dispatched \subseteq Run /\ IsFiniteSet(Dispatched) /\ 0 \notin Streams
  /\ Events \in [Run -> Nat] /\ MaxEntries \in Nat /\ MaxFaults \in Nat /\ MaxRestarts \in Nat

VARIABLES
  token,     \* token[r]: the enrollment token is stamped on the CriteriaRun
  stamp,     \* stamp[r]: the castle run id stamped on it, 0 without one
  enrolled,  \* the proxy's memo of enrolled CriteriaRuns
  entries,   \* the proxy runs minted so far: owner, castle run once resolved
  live,      \* those the operator's memory still holds
  castle,    \* castle's runs: the CriteriaRun they were made for, their log
  pod,       \* pod[r]: the runner pod has been started
  engine,    \* engine[r]: its proxy run, the events acknowledged, its stream
  handler,   \* handler[s]: the stream handlers
  faults, restarts

annotations == <<token, stamp>>
tables == <<enrolled, entries, live>>
budgets == <<faults, restarts>>
vars == <<annotations, tables, castle, pod, engine, handler, budgets>>

NoStream == 0
Off == [pc |-> "off", entry |-> 0, env |-> <<0, 0>>, target |-> 0, run |-> 0, open |-> FALSE]
FreshEngine == [entry |-> 0, acked |-> 0, stream |-> NoStream]
OwnerOf(e) == entries[e].run

Fault == faults < MaxFaults /\ faults' = faults + 1 /\ UNCHANGED restarts
NoFault == UNCHANGED budgets

\* The castle runs the assignment lane made before it dispatched the run.
AssignmentRun(r) ==
  IF r \in Dispatched THEN CHOOSE c \in DOMAIN castle : castle[c].assigned /\ castle[c].run = r
  ELSE 0

-----------------------------------------------------------------------------
(* The controller's side. *)
EnrollFromMemo(r) ==                       \* mutant: remembered before it is stamped
  /\ ~pod[r]
  /\ enrolled' = enrolled \cup {r}
  /\ \/ r \notin enrolled /\ NoFault /\ token' = [token EXCEPT ![r] = TRUE] /\ pod' = [pod EXCEPT ![r] = TRUE]
     \/ r \in enrolled /\ NoFault /\ pod' = [pod EXCEPT ![r] = TRUE] /\ UNCHANGED token
     \/ r \notin enrolled /\ Fault /\ UNCHANGED <<token, pod>>
  /\ UNCHANGED <<stamp, entries, live, castle, engine, handler>>

\* Every pass before the pod exists: the memo, else the annotation, else a new
\* token stamped; the pod is rendered only when the token is known.
Enroll(r) ==
  /\ ~pod[r]
  /\ \/ /\ NoFault
        /\ token' = [token EXCEPT ![r] = TRUE]
        /\ enrolled' = enrolled \cup {r}
        /\ pod' = [pod EXCEPT ![r] = TRUE]
     \/ /\ r \notin enrolled /\ Fault
        /\ \/ UNCHANGED token
           \/ token' = [token EXCEPT ![r] = TRUE]     \* patched, the answer lost
        /\ UNCHANGED <<enrolled, pod>>
  /\ UNCHANGED <<stamp, entries, live, castle, engine, handler>>

-----------------------------------------------------------------------------
(* The engine's unary calls. *)
Known(r) == engine[r].entry \in live

\* Register and CreateRun: an identity bound to the CriteriaRun and a proxy
\* run of its own; a failed read of the CriteriaRun mints nothing.  An engine
\* starts when its pod does, and again when the proxy no longer knows it.
RegisterAndCreateRun(r) ==
  /\ pod[r] /\ ~Known(r) /\ Len(entries) < MaxEntries
  /\ \/ /\ token[r] /\ NoFault
        /\ entries' = Append(entries, [run |-> r, castle |-> 0])
        /\ live' = live \cup {Len(entries')}
        /\ engine' = [engine EXCEPT ![r] = [FreshEngine EXCEPT !.entry = Len(entries')]]
     \/ Fault /\ UNCHANGED <<entries, live, engine>>
  /\ UNCHANGED <<annotations, enrolled, castle, pod, handler>>

\* A container that died and was started again, its tables still known.
EngineRestarts(r) ==
  /\ Known(r) /\ Fault
  /\ engine' = [engine EXCEPT ![r] = FreshEngine]
  /\ handler' = [s \in Streams |->
       IF s = engine[r].stream THEN [handler[s] EXCEPT !.open = FALSE] ELSE handler[s]]
  /\ UNCHANGED <<annotations, tables, castle, pod>>

-----------------------------------------------------------------------------
(* SubmitEvents. *)
Step(s, h) == handler' = [handler EXCEPT ![s] = h]
End(s) == Step(s, Off)

\* authenticate: the handler belongs to the agent of the token it presents.
OpenStream(r, s) ==
  /\ Known(r) /\ engine[r].stream = NoStream /\ handler[s].pc = "off"
  /\ engine' = [engine EXCEPT ![r].stream = s]
  /\ Step(s, [Off EXCEPT !.pc = "receive", !.entry = engine[r].entry, !.open = TRUE])
  /\ UNCHANGED <<annotations, tables, castle, pod, budgets>>

\* The client hangs up, or the connection breaks: the engine opens another
\* stream, while the handler goes on to its next call at least.
Disconnect(r) ==
  /\ engine[r].stream # NoStream /\ Fault
  /\ handler' = [handler EXCEPT ![engine[r].stream].open = FALSE]
  /\ engine' = [engine EXCEPT ![r].stream = NoStream]
  /\ UNCHANGED <<annotations, tables, castle, pod>>

Hangup(s) == [r \in Run |-> IF engine[r].stream = s THEN [engine[r] EXCEPT !.stream = NoStream]
                            ELSE engine[r]]

\* Receive: the next unacknowledged event; an engine that resumed from an old
\* checkpoint names a proxy run that is not its own, which kills the stream.
OwnsRun(e, h) == h.entry = e

Receive(r, s) ==
  LET h == handler[s]
  IN /\ engine[r].stream = s /\ h.pc = "receive" /\ h.open /\ engine[r].acked < Events[r]
     /\ \E e \in live :
          /\ IF e = engine[r].entry THEN NoFault ELSE Fault
          /\ IF e \in live /\ OwnsRun(e, h)
             THEN /\ Step(s, [h EXCEPT !.env = <<h.entry, engine[r].acked + 1>>,
                                       !.target = e, !.run = entries[e].castle,
                                       !.pc = IF entries[e].castle # 0 THEN "forward" ELSE "read"])
                  /\ UNCHANGED engine
             ELSE End(s) /\ engine' = Hangup(s)
     /\ UNCHANGED <<annotations, tables, castle, pod>>

\* castleRunID, the read: the assignment's run, else the stamped one, else
\* one has to be made.
ReadAssignmentOnly(r) == AssignmentRun(r)  \* mutant: the proxy's stamp is not read
Recorded(r) == IF AssignmentRun(r) # 0 THEN AssignmentRun(r) ELSE stamp[r]

Cache(e, c) == entries' = [entries EXCEPT ![e].castle = c]

ReadRun(s) ==
  LET h == handler[s]
      c == Recorded(OwnerOf(h.target))
  IN /\ h.pc = "read"
     /\ \/ /\ NoFault /\ UNCHANGED engine
           /\ IF c # 0 THEN Cache(h.target, c) /\ Step(s, [h EXCEPT !.run = c, !.pc = "forward"])
                       ELSE Step(s, [h EXCEPT !.pc = "create"]) /\ UNCHANGED entries
        \/ Fault /\ End(s) /\ engine' = Hangup(s) /\ UNCHANGED entries
     /\ UNCHANGED <<annotations, enrolled, live, castle, pod>>

CreateCastleRun(s) ==
  LET h == handler[s]
      made == Append(castle, [run |-> OwnerOf(h.target), assigned |-> FALSE, log |-> <<>>])
  IN /\ h.pc = "create"
     /\ \/ /\ NoFault /\ castle' = made /\ UNCHANGED engine
           /\ Step(s, [h EXCEPT !.run = Len(made), !.pc = "stamp"])
        \/ /\ Fault /\ End(s) /\ engine' = Hangup(s)
           /\ castle' \in {castle, made}             \* made, the answer lost
     /\ UNCHANGED <<annotations, tables, pod>>

\* Best effort, then the entry's cache whatever became of the stamp.
StampRun(s) ==
  LET h == handler[s]
      r == OwnerOf(h.target)
  IN /\ h.pc = "stamp"
     /\ \/ NoFault /\ stamp' = [stamp EXCEPT ![r] = h.run]
        \/ ~h.open /\ NoFault /\ UNCHANGED stamp     \* the call dies with the stream
        \/ Fault /\ UNCHANGED stamp
     /\ Cache(h.target, h.run)
     /\ Step(s, [h EXCEPT !.pc = "forward"])
     /\ UNCHANGED <<token, enrolled, live, castle, pod, engine>>

Logged(h) == [castle EXCEPT ![h.run].log = Append(@, h.env)]

ForwardOrSkip(s) ==                        \* mutant: a failed forward is skipped
  LET h == handler[s]
  IN /\ h.pc = "forward"
     /\ \/ NoFault /\ castle' = Logged(h)
        \/ Fault /\ UNCHANGED castle
     /\ Step(s, [h EXCEPT !.pc = "ack"])
     /\ UNCHANGED <<annotations, tables, pod, engine>>

Forward(s) ==
  LET h == handler[s]
  IN /\ h.pc = "forward"
     /\ \/ NoFault /\ castle' = Logged(h) /\ Step(s, [h EXCEPT !.pc = "ack"]) /\ UNCHANGED engine
        \/ /\ Fault /\ castle' \in {castle, Logged(h)}
           /\ End(s) /\ engine' = Hangup(s)
     /\ UNCHANGED <<annotations, tables, pod>>

Ack(s) ==
  LET h == handler[s]
      r == OwnerOf(h.entry)
  IN /\ h.pc = "ack" /\ h.open /\ NoFault
     /\ engine' = [engine EXCEPT ![r].acked = h.env[2]]
     /\ Step(s, [h EXCEPT !.pc = "receive", !.run = 0])
     /\ UNCHANGED <<annotations, tables, castle, pod>>

\* A handler whose client is gone ends at its next call.
EndOrphan(s) ==
  /\ handler[s].pc # "off" /\ ~handler[s].open
  /\ End(s)
  /\ UNCHANGED <<annotations, tables, castle, pod, engine, budgets>>

\* The operator restarts: its tables and its handlers are gone, the engines'
\* connections break, and their tokens are no longer known.
RestartOperator ==
  /\ restarts < MaxRestarts /\ restarts' = restarts + 1
  /\ enrolled' = {} /\ live' = {}
  /\ handler' = [s \in Streams |-> Off]
  /\ engine' = [r \in Run |-> [engine[r] EXCEPT !.stream = NoStream]]
  /\ UNCHANGED <<annotations, entries, castle, pod, faults>>

-----------------------------------------------------------------------------
Init ==
  /\ token = [r \in Run |-> FALSE] /\ stamp = [r \in Run |-> 0]
  /\ enrolled = {} /\ entries = <<>> /\ live = {}
  /\ castle \in {c \in [1 .. Cardinality(Dispatched) -> [run : Dispatched, assigned : {TRUE}, log : {<<>>}]] :
                   \A i, j \in DOMAIN c : c[i].run = c[j].run => i = j}
  /\ pod = [r \in Run |-> FALSE]
  /\ engine = [r \in Run |-> FreshEngine]
  /\ handler = [s \in Streams |-> Off]
  /\ faults = 0 /\ restarts = 0

Engine(r) ==
  \/ RegisterAndCreateRun(r)
  \/ \E s \in Streams : OpenStream(r, s) \/ Receive(r, s)

Handle(s) ==
  ReadRun(s) \/ CreateCastleRun(s) \/ StampRun(s) \/ Forward(s) \/ Ack(s) \/ EndOrphan(s)

Next ==
  \/ \E r \in Run : Enroll(r) \/ Engine(r) \/ EngineRestarts(r) \/ Disconnect(r)
  \/ \E s \in Streams : Handle(s)
  \/ RestartOperator

Spec == Init /\ [][Next]_vars

\* The controller reconciles the run until its pod exists, engines and
\* handlers go on, and calls fail finitely often.
FairSpec ==
  /\ Spec
  /\ \A r \in Run : WF_vars(Enroll(r)) /\ WF_vars(Engine(r))
  /\ \A s \in Streams : WF_vars(Handle(s))

-----------------------------------------------------------------------------
\* First places of an engine's events in a log.
Holds(c, e, n) == \E i \in DOMAIN castle[c].log : castle[c].log[i] = <<e, n>>
RunsOf(r) == {c \in DOMAIN castle : castle[c].run = r}

(* Every identity, annotation and handler refers to something that exists.  *)
TypeOK ==
  /\ token \in [Run -> BOOLEAN] /\ stamp \in [Run -> 0 .. Len(castle)]
  /\ enrolled \subseteq Run /\ live \subseteq 1 .. Len(entries)
  /\ \A e \in DOMAIN entries : entries[e].run \in Run /\ entries[e].castle \in 0 .. Len(castle)
  /\ \A r \in Run : engine[r].entry \in 0 .. Len(entries) /\ engine[r].acked \in 0 .. Events[r]
  /\ \A s \in Streams : handler[s].run \in 0 .. Len(castle)
  /\ \A r \in Run : pod[r] => token[r]

(* KB-344: castle's transcript of a run holds events of that run's engines  *)
(* only, whatever a restarted engine remembers of its checkpoint.           *)
AttributedToOwner ==
  \A c \in DOMAIN castle : \A i \in DOMAIN castle[c].log :
    OwnerOf(castle[c].log[i][1]) = castle[c].run

(* Nothing drops silently: an event the engine saw acknowledged is in some  *)
(* transcript of its run, and so is every event before it.                  *)
AckedIsStored ==
  \A r \in Run : \A n \in 1 .. engine[r].acked :
    \E c \in RunsOf(r) : Holds(c, engine[r].entry, n)

(* While a run has one transcript, that transcript has the events of each   *)
(* engine without a gap, retransmissions by a second stream included.       *)
TranscriptHasNoGap ==
  \A r \in Run : Cardinality(RunsOf(r)) = 1 =>
    \A c \in RunsOf(r) : \A i \in DOMAIN castle[c].log :
      LET env == castle[c].log[i]
      IN env[2] > 1 => \E j \in 1 .. i - 1 : castle[c].log[j] = <<env[1], env[2] - 1>>

(* KB-344: as long as no call fails and no stream breaks, the events of a   *)
(* CriteriaRun are in one transcript, whenever the operator restarts and    *)
(* its tables are lost: the stamp leads every later engine run back to it.  *)
RestartDoesNotFork ==
  faults = 0 =>
    \A r \in Run : Cardinality({c \in RunsOf(r) : castle[c].log # <<>>}) <= 1

(* An engine whose pod is up gets all of its events acknowledged in the     *)
(* end, across a lost call, a broken stream and a restart of the operator.  *)
EngineIsHeard == \A r \in Run : <>(engine[r].acked = Events[r])

(* The types and what holds of the transcripts at every moment.             *)
Inv == TypeOK /\ AttributedToOwner /\ AckedIsStored /\ TranscriptHasNoGap
=============================================================================
