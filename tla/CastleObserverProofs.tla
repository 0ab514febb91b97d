------------------------ MODULE CastleObserverProofs ------------------------
(***************************************************************************)
(* Proofs about CastleObserver, for every number of scopes, every length   *)
(* of the log, every page size and page budget, and any number of failed   *)
(* calls and restarts: an observation is the replay of the log it covers.  *)
(*                                                                         *)
(* A failed page leaves the cursor behind the events that were folded, so  *)
(* the next drain folds some of them again: what the client keeps is not   *)
(* the replay of any prefix of the log meanwhile.  ReplayOf says what it   *)
(* is: true up to the place p of the drain, with nothing in it from beyond *)
(* a horizon h that the drain reaches before it observes anything.         *)
(***************************************************************************)
EXTENDS CastleObserver, SequenceTheorems, TLAPS

EventRecord == [kind : Kind, scope : Scope]
LifecycleRecord == [event : {"wanted", "released"}, scope : Scope, adapter : Adapter]
Envelope == {"none", "completed", "failed"}
KeptRecord == [cursor : Nat, lifecycle : Seq(LifecycleRecord), scopes : [Scope -> {NoAdapter, "provisioned"}],
               terminal : Envelope, progress : Nat, steps : Seq(Nat)]
DrainRecord == [pc : {"idle", "page", "fold", "tail", "record"}, since : Nat, upto : Nat, page : Nat,
                terminal : Envelope, progress : Nat, owed : Nat]
Status == {"running", "succeeded", "failed", "cancelled"}

ObserverType ==
  /\ log \in Seq(EventRecord) /\ record \in Status
  /\ kept \in KeptRecord /\ drain \in DrainRecord

\* A scope is wanted once and released once, after it was wanted.
LogInv ==
  /\ \A i, j \in DOMAIN log : log[i] = log[j] /\ log[i].kind \in {"wanted", "released"} => i = j
  /\ \A j \in DOMAIN log : log[j].kind = "released" =>
       \E i \in DOMAIN log : i < j /\ log[i].kind = "wanted" /\ log[i].scope = log[j].scope

-----------------------------------------------------------------------------
(* The last lifecycle event kept of a scope. *)
LastIs(history, s, event) ==
  \E n \in DOMAIN history :
    /\ history[n].event = event /\ history[n].scope = s
    /\ \A m \in DOMAIN history : m > n /\ history[m].scope = s => history[m].event = event

Sourced(l, k, h) ==
  \A n \in DOMAIN k.lifecycle :
    /\ k.lifecycle[n].adapter = "provisioned"
    /\ \E i \in DOMAIN l : /\ i <= h /\ l[i].kind = k.lifecycle[n].event
                           /\ l[i].scope = k.lifecycle[n].scope
ScopesKnown(l, k, p) ==
  \A i \in 1 .. p : l[i].kind = "wanted" => k.scopes[l[i].scope] = "provisioned"
ReleasesKept(l, k, p) ==
  \A i \in 1 .. p : l[i].kind = "released" => LastIs(k.lifecycle, l[i].scope, "released")
ReleasedWithin(l, s, a, b) == \E r \in DOMAIN l : a < r /\ r <= b /\ l[r].kind = "released" /\ l[r].scope = s
WantsKept(l, k, p, h) ==
  \A i \in 1 .. p : l[i].kind = "wanted" =>
    \/ ReleasedWithin(l, l[i].scope, 0, p)
    \/ LastIs(k.lifecycle, l[i].scope, "wanted")
    \/ ReleasedWithin(l, l[i].scope, p, h)
StepsKept(l, k, p) ==
  \A i \in 1 .. p : l[i].kind = "outcome" => \E n \in DOMAIN k.steps : k.steps[n] = i
TerminalKept(l, terminal, p) == \A i \in 1 .. p : IsTerminal(l[i].kind) => terminal # "none"

ReplayOf(l, k, p, h) ==
  /\ Sourced(l, k, h) /\ ScopesKnown(l, k, p) /\ ReleasesKept(l, k, p)
  /\ WantsKept(l, k, p, h) /\ StepsKept(l, k, p) /\ TerminalKept(l, k.terminal, p)

\* The newest step progress of the first p events.
ProgressOf(l, t, p) ==
  /\ \A i \in 1 .. p : l[i].kind = "outcome" => i <= t
  /\ t # 0 => t \in 1 .. p /\ IsProgress(l[t].kind)

-----------------------------------------------------------------------------
(* Where a drain is, and what it reaches before it observes. *)
Budget == MaxPages * PageSize
Place == IF drain.pc = "idle" THEN kept.cursor ELSE drain.since
Horizon == CASE drain.pc = "tail" -> drain.upto
             [] drain.pc = "record" -> kept.cursor
             [] OTHER -> kept.cursor + Budget

DrainInv ==
  /\ kept.cursor <= Place /\ Place <= Len(log) /\ Place <= Horizon
  /\ IF drain.pc = "idle" THEN drain.since = 0 ELSE drain.owed <= Len(log)
  /\ drain.pc = "page" => drain.page < MaxPages /\ drain.since = kept.cursor + drain.page * PageSize
  /\ drain.pc \in {"fold", "tail"} =>
       /\ drain.since <= drain.upto /\ drain.upto <= Len(log) /\ drain.upto <= kept.cursor + Budget
  /\ drain.pc = "fold" => drain.page < MaxPages /\ drain.upto = kept.cursor + drain.page * PageSize
  /\ drain.pc = "tail" => SmallerOf(drain.owed, Budget) <= drain.upto
  /\ drain.pc = "record" => drain.since = kept.cursor /\ SmallerOf(drain.owed, Budget) <= drain.since

KeptInv ==
  /\ ReplayOf(log, kept, Place, Horizon)
  /\ ProgressOf(log, kept.progress, kept.cursor)
  /\ drain.pc # "idle" => ProgressOf(log, drain.progress, drain.since)
                          /\ TerminalKept(log, drain.terminal, drain.since)

\* What the last pass observed.
ObsInv ==
  /\ obs.upto \in Nat /\ obs.upto <= Len(log) /\ obs.terminal \in Verdict
  /\ ObservedIsReplay /\ ObservationIsComplete /\ EnvelopeVerdictWins

IInv == ObserverType /\ LogInv /\ DrainInv /\ KeptInv /\ ObsInv

-----------------------------------------------------------------------------
(* The replay relation, when the log, the place or the horizon moves. *)

\* A drain that starts again from an earlier place, and a horizon moved where
\* the log has nothing in between.
LEMMA ReplayMoves ==
  ASSUME NEW l \in Seq(EventRecord), NEW k \in KeptRecord,
         NEW p \in Nat, NEW h \in Nat, NEW c \in Nat, NEW g \in Nat,
         ReplayOf(l, k, p, h), c <= p, p <= h, p <= Len(l),
         \A i \in DOMAIN l : i <= h => i <= g
  PROVE  ReplayOf(l, k, c, g)
<1>1. DOMAIN l = 1 .. Len(l) /\ Len(l) \in Nat
  OBVIOUS
<1>2. Sourced(l, k, g)
  BY DEF ReplayOf, Sourced
<1>3. ScopesKnown(l, k, c)
  BY DEF ReplayOf, ScopesKnown
<1>4. ReleasesKept(l, k, c)
  BY DEF ReplayOf, ReleasesKept
<1>5. StepsKept(l, k, c)
  BY DEF ReplayOf, StepsKept
<1>6. TerminalKept(l, k.terminal, c)
  BY DEF ReplayOf, TerminalKept
<1>7. WantsKept(l, k, c, g)
  <2> SUFFICES ASSUME NEW i \in 1 .. c, l[i].kind = "wanted"
               PROVE  \/ ReleasedWithin(l, l[i].scope, 0, c)
                      \/ LastIs(k.lifecycle, l[i].scope, "wanted")
                      \/ ReleasedWithin(l, l[i].scope, c, g)
    BY DEF WantsKept
  <2>1. \/ ReleasedWithin(l, l[i].scope, 0, p)
        \/ LastIs(k.lifecycle, l[i].scope, "wanted")
        \/ ReleasedWithin(l, l[i].scope, p, h)
    BY DEF ReplayOf, WantsKept
  <2> QED BY <2>1, <1>1 DEF ReleasedWithin
<1> QED BY <1>2, <1>3, <1>4, <1>5, <1>6, <1>7 DEF ReplayOf

\* Castle appends: what is kept stays the replay of the events before.
LEMMA ReplayGrows ==
  ASSUME NEW l \in Seq(EventRecord), NEW e \in EventRecord, NEW k \in KeptRecord,
         NEW p \in Nat, NEW h \in Nat, ReplayOf(l, k, p, h), p <= Len(l)
  PROVE  ReplayOf(Append(l, e), k, p, h)
<1> DEFINE m == Append(l, e)
<1>1. /\ DOMAIN l = 1 .. Len(l) /\ DOMAIN m = 1 .. Len(l) + 1 /\ Len(l) \in Nat
      /\ \A i \in 1 .. Len(l) : m[i] = l[i]
  OBVIOUS
<1> HIDE DEF m
<1>2. Sourced(m, k, h)
  BY <1>1 DEF ReplayOf, Sourced
<1>3. ScopesKnown(m, k, p)
  BY <1>1 DEF ReplayOf, ScopesKnown
<1>4. ReleasesKept(m, k, p)
  BY <1>1 DEF ReplayOf, ReleasesKept
<1>5. StepsKept(m, k, p)
  BY <1>1 DEF ReplayOf, StepsKept
<1>6. TerminalKept(m, k.terminal, p)
  BY <1>1 DEF ReplayOf, TerminalKept
<1>7. WantsKept(m, k, p, h)
  <2> SUFFICES ASSUME NEW i \in 1 .. p, m[i].kind = "wanted"
               PROVE  \/ ReleasedWithin(m, m[i].scope, 0, p)
                      \/ LastIs(k.lifecycle, m[i].scope, "wanted")
                      \/ ReleasedWithin(m, m[i].scope, p, h)
    BY DEF WantsKept
  <2>0. m[i] = l[i]
    BY <1>1
  <2>1. \/ ReleasedWithin(l, l[i].scope, 0, p)
        \/ LastIs(k.lifecycle, l[i].scope, "wanted")
        \/ ReleasedWithin(l, l[i].scope, p, h)
    BY <2>0 DEF ReplayOf, WantsKept
  <2> QED BY <2>0, <2>1, <1>1 DEF ReleasedWithin
<1>8. ReplayOf(m, k, p, h)
  BY <1>2, <1>3, <1>4, <1>5, <1>6, <1>7 DEF ReplayOf
<1> QED BY <1>8 DEF m

LEMMA ProgressGrows ==
  ASSUME NEW l \in Seq(EventRecord), NEW e \in EventRecord, NEW t \in Nat,
         NEW p \in Nat, ProgressOf(l, t, p), p <= Len(l)
  PROVE  ProgressOf(Append(l, e), t, p)
BY DEF ProgressOf

\* The cursor and the newest progress are not part of the replay.
LEMMA ReplayIgnoresCursor ==
  ASSUME NEW l, NEW k, NEW m, NEW p, NEW h, ReplayOf(l, k, p, h),
         m.lifecycle = k.lifecycle, m.scopes = k.scopes, m.terminal = k.terminal,
         m.steps = k.steps
  PROVE  ReplayOf(l, m, p, h)
BY DEF ReplayOf, Sourced, ScopesKnown, ReleasesKept, WantsKept, StepsKept, TerminalKept

-----------------------------------------------------------------------------
(* The last lifecycle event of a scope, when one is kept. *)
LEMMA LastIsAppended ==
  ASSUME NEW history \in Seq(LifecycleRecord), NEW ev \in LifecycleRecord
  PROVE  LastIs(Append(history, ev), ev.scope, ev.event)
<1>1. DOMAIN Append(history, ev) = 1 .. Len(history) + 1 /\ Len(history) \in Nat
      /\ Append(history, ev)[Len(history) + 1] = ev
  OBVIOUS
<1> QED BY <1>1 DEF LastIs

LEMMA LastIsKept ==
  ASSUME NEW history \in Seq(LifecycleRecord), NEW ev \in LifecycleRecord,
         NEW s, NEW event, LastIs(history, s, event),
         ev.scope # s \/ ev.event = event
  PROVE  LastIs(Append(history, ev), s, event)
<1> DEFINE longer == Append(history, ev)
<1>1. /\ DOMAIN longer = 1 .. Len(history) + 1 /\ Len(history) \in Nat
      /\ DOMAIN history = 1 .. Len(history)
      /\ \A n \in 1 .. Len(history) : longer[n] = history[n]
      /\ longer[Len(history) + 1] = ev
  OBVIOUS
<1> HIDE DEF longer
<1>2. LastIs(longer, s, event)
  BY <1>1 DEF LastIs
<1> QED BY <1>2 DEF longer

-----------------------------------------------------------------------------
(* One event more is folded. *)

\* What is to be shown of it, one kind of event at a time.
Folds(k, n, h) == Fold(k, n) \in KeptRecord /\ Fold(k, n).cursor = k.cursor
                  /\ Fold(k, n).progress = k.progress /\ ReplayOf(log, Fold(k, n), n, h)

\* Within the events folded so far, what holds of an event there is known; the
\* others are before it.
LEMMA FoldTerminal ==
  ASSUME ObserverType, NEW k \in KeptRecord, NEW p \in Nat, NEW h \in Nat,
         ReplayOf(log, k, p, h), p + 1 <= h, p + 1 <= Len(log),
         IsTerminal(log[p + 1].kind)
  PROVE  Folds(k, p + 1, h)
<1> DEFINE n == p + 1
           m == [k EXCEPT !.terminal = log[n].kind]
<1>1. /\ log \in Seq(EventRecord) /\ DOMAIN log = 1 .. Len(log) /\ n \in DOMAIN log
      /\ \A i \in 1 .. n : i # n => i \in 1 .. p
  BY DEF ObserverType
<1>2. log[n].kind \in {"completed", "failed"}
  BY DEF IsTerminal
<1>3. Fold(k, n) = m
  BY DEF Fold, IsTerminal
<1>4. /\ m \in KeptRecord /\ m.cursor = k.cursor /\ m.progress = k.progress
      /\ m.lifecycle = k.lifecycle /\ m.scopes = k.scopes /\ m.steps = k.steps
      /\ m.terminal # "none"
  BY <1>2 DEF KeptRecord, Envelope
<1> HIDE DEF m
<1>5. Sourced(log, m, h)
  BY <1>4 DEF ReplayOf, Sourced
<1>6. ScopesKnown(log, m, n)
  BY <1>1, <1>2, <1>4 DEF ReplayOf, ScopesKnown
<1>7. ReleasesKept(log, m, n)
  BY <1>1, <1>2, <1>4 DEF ReplayOf, ReleasesKept
<1>8. WantsKept(log, m, n, h)
  <2> SUFFICES ASSUME NEW i \in 1 .. n, log[i].kind = "wanted"
               PROVE  \/ ReleasedWithin(log, log[i].scope, 0, n)
                      \/ LastIs(m.lifecycle, log[i].scope, "wanted")
                      \/ ReleasedWithin(log, log[i].scope, n, h)
    BY DEF WantsKept
  <2>1. i \in 1 .. p
    BY <1>1, <1>2
  <2>2. \/ ReleasedWithin(log, log[i].scope, 0, p)
        \/ LastIs(m.lifecycle, log[i].scope, "wanted")
        \/ ReleasedWithin(log, log[i].scope, p, h)
    BY <1>4, <2>1 DEF ReplayOf, WantsKept
  <2> QED BY <1>1, <1>2, <2>2 DEF ReleasedWithin
<1>9. StepsKept(log, m, n)
  BY <1>1, <1>2, <1>4 DEF ReplayOf, StepsKept
<1>10. TerminalKept(log, m.terminal, n)
  BY <1>4 DEF TerminalKept
<1>11. ReplayOf(log, m, n, h)
  BY <1>5, <1>6, <1>7, <1>8, <1>9, <1>10 DEF ReplayOf
<1> QED BY <1>3, <1>4, <1>11 DEF Folds

\* Chatter changes nothing, an outcome the steps alone.
LEMMA FoldQuiet ==
  ASSUME ObserverType, NEW k \in KeptRecord, NEW p \in Nat, NEW h \in Nat,
         ReplayOf(log, k, p, h), p + 1 <= h, p + 1 <= Len(log),
         log[p + 1].kind \in {"outcome", "chatter"}
  PROVE  Folds(k, p + 1, h)
<1> DEFINE n == p + 1
           m == IF log[n].kind = "outcome" THEN [k EXCEPT !.steps = Append(@, n)] ELSE k
<1>1. /\ log \in Seq(EventRecord) /\ DOMAIN log = 1 .. Len(log) /\ n \in DOMAIN log
      /\ \A i \in 1 .. n : i # n => i \in 1 .. p
  BY DEF ObserverType
<1>2. Fold(k, n) = m
  BY DEF Fold, IsTerminal
<1>3. /\ k.steps \in Seq(Nat) /\ DOMAIN k.steps = 1 .. Len(k.steps) /\ Len(k.steps) \in Nat
      /\ Append(k.steps, n) \in Seq(Nat)
      /\ DOMAIN Append(k.steps, n) = 1 .. Len(k.steps) + 1
      /\ \A j \in 1 .. Len(k.steps) : Append(k.steps, n)[j] = k.steps[j]
      /\ Append(k.steps, n)[Len(k.steps) + 1] = n
  BY DEF KeptRecord
<1>4. /\ m \in KeptRecord /\ m.cursor = k.cursor /\ m.progress = k.progress
      /\ m.lifecycle = k.lifecycle /\ m.scopes = k.scopes /\ m.terminal = k.terminal
      /\ m.steps = IF log[n].kind = "outcome" THEN Append(k.steps, n) ELSE k.steps
  BY <1>3 DEF KeptRecord
<1> HIDE DEF m
<1>5. Sourced(log, m, h)
  BY <1>4 DEF ReplayOf, Sourced
<1>6. ScopesKnown(log, m, n)
  BY <1>1, <1>4 DEF ReplayOf, ScopesKnown
<1>7. ReleasesKept(log, m, n)
  BY <1>1, <1>4 DEF ReplayOf, ReleasesKept
<1>8. WantsKept(log, m, n, h)
  <2> SUFFICES ASSUME NEW i \in 1 .. n, log[i].kind = "wanted"
               PROVE  \/ ReleasedWithin(log, log[i].scope, 0, n)
                      \/ LastIs(m.lifecycle, log[i].scope, "wanted")
                      \/ ReleasedWithin(log, log[i].scope, n, h)
    BY DEF WantsKept
  <2>1. i \in 1 .. p
    BY <1>1
  <2>2. \/ ReleasedWithin(log, log[i].scope, 0, p)
        \/ LastIs(m.lifecycle, log[i].scope, "wanted")
        \/ ReleasedWithin(log, log[i].scope, p, h)
    BY <1>4, <2>1 DEF ReplayOf, WantsKept
  <2> QED BY <1>1, <2>2 DEF ReleasedWithin
<1>9. StepsKept(log, m, n)
  <2> SUFFICES ASSUME NEW i \in 1 .. n, log[i].kind = "outcome"
               PROVE  \E j \in DOMAIN m.steps : m.steps[j] = i
    BY DEF StepsKept
  <2>1. CASE i = n
    BY <2>1, <1>3, <1>4
  <2>2. CASE i # n
    <3>1. PICK j \in DOMAIN k.steps : k.steps[j] = i
      BY <2>2, <1>1 DEF ReplayOf, StepsKept
    <3> QED BY <3>1, <1>3, <1>4
  <2> QED BY <2>1, <2>2
<1>10. TerminalKept(log, m.terminal, n)
  BY <1>1, <1>4 DEF ReplayOf, TerminalKept, IsTerminal
<1>11. ReplayOf(log, m, n, h)
  BY <1>5, <1>6, <1>7, <1>8, <1>9, <1>10 DEF ReplayOf
<1> QED BY <1>2, <1>4, <1>11 DEF Folds

\* What is kept of a lifecycle event: it is the newest, and carries the adapter.
LEMMA FoldLifecycleSourced ==
  ASSUME NEW l \in Seq(EventRecord), NEW k \in KeptRecord, NEW h \in Nat,
         NEW m \in KeptRecord, NEW ev \in LifecycleRecord, NEW n \in DOMAIN l,
         Sourced(l, k, h), n <= h, m.lifecycle = Append(k.lifecycle, ev),
         ev.adapter = "provisioned", l[n].kind = ev.event, l[n].scope = ev.scope
  PROVE  Sourced(l, m, h)
<1>1. /\ k.lifecycle \in Seq(LifecycleRecord) /\ Len(k.lifecycle) \in Nat
      /\ DOMAIN k.lifecycle = 1 .. Len(k.lifecycle)
  BY DEF KeptRecord
<1>2. /\ DOMAIN m.lifecycle = 1 .. Len(k.lifecycle) + 1
      /\ \A j \in 1 .. Len(k.lifecycle) : m.lifecycle[j] = k.lifecycle[j]
      /\ m.lifecycle[Len(k.lifecycle) + 1] = ev
  BY <1>1
<1> SUFFICES ASSUME NEW j \in DOMAIN m.lifecycle
             PROVE  /\ m.lifecycle[j].adapter = "provisioned"
                    /\ \E i \in DOMAIN l : /\ i <= h /\ l[i].kind = m.lifecycle[j].event
                                           /\ l[i].scope = m.lifecycle[j].scope
  BY DEF Sourced
<1>3. CASE j = Len(k.lifecycle) + 1
  BY <1>2, <1>3
<1>4. CASE j # Len(k.lifecycle) + 1
  BY <1>1, <1>2, <1>4 DEF Sourced
<1> QED BY <1>3, <1>4

LEMMA FoldWanted ==
  ASSUME ObserverType, LogInv, NEW k \in KeptRecord, NEW p \in Nat, NEW h \in Nat,
         ReplayOf(log, k, p, h), p + 1 <= h, p + 1 <= Len(log),
         log[p + 1].kind = "wanted"
  PROVE  Folds(k, p + 1, h)
<1> DEFINE n == p + 1
           s == log[n].scope
           ev == [event |-> "wanted", scope |-> s, adapter |-> "provisioned"]
           m == [k EXCEPT !.lifecycle = Append(@, ev), !.scopes[s] = "provisioned"]
<1>1. /\ log \in Seq(EventRecord) /\ DOMAIN log = 1 .. Len(log) /\ n \in DOMAIN log
      /\ \A i \in 1 .. n : i # n => i \in 1 .. p
      /\ \A i \in 1 .. p : i \in DOMAIN log
      /\ Len(log) \in Nat
  BY DEF ObserverType
<1>2. s \in Scope /\ ev \in LifecycleRecord
  <2>1. log[n] \in EventRecord
    BY <1>1
  <2>2. s \in Scope
    BY <2>1 DEF EventRecord
  <2> QED BY <2>2 DEF LifecycleRecord, Adapter
<1>3. LifecycleEvent(log[n]) = ev /\ ResolveReleaseAdapter(k.scopes, ev) = ev
  BY DEF LifecycleEvent, ResolveReleaseAdapter
<1>4. Fold(k, n) = m
  <2>1. ~IsTerminal(log[n].kind) /\ log[n].kind # "outcome"
    BY DEF IsTerminal
  <2>2. Fold(k, n) = [k EXCEPT !.lifecycle = Append(@, ev), !.scopes[s] = ev.adapter]
    BY <1>3, <2>1, Zenon DEF Fold
  <2>3. ev.adapter = "provisioned"
    OBVIOUS
  <2> QED BY <2>2, <2>3
<1>5. /\ k.lifecycle \in Seq(LifecycleRecord) /\ Append(k.lifecycle, ev) \in Seq(LifecycleRecord)
      /\ k.scopes \in [Scope -> {NoAdapter, "provisioned"}]
      /\ [k.scopes EXCEPT ![s] = "provisioned"] \in [Scope -> {NoAdapter, "provisioned"}]
  BY <1>2 DEF KeptRecord
<1>6. /\ m \in KeptRecord /\ m.cursor = k.cursor /\ m.progress = k.progress
      /\ m.lifecycle = Append(k.lifecycle, ev)
      /\ m.scopes = [k.scopes EXCEPT ![s] = "provisioned"]
      /\ m.steps = k.steps /\ m.terminal = k.terminal
  BY <1>5 DEF KeptRecord
<1>7. ev.event = "wanted" /\ ev.scope = s /\ ev.adapter = "provisioned"
  OBVIOUS
<1> HIDE DEF m, ev
<1>8. \A i \in 1 .. p : log[i].kind = "wanted" => log[i].scope # s
  <2> SUFFICES ASSUME NEW i \in 1 .. p, log[i].kind = "wanted", log[i].scope = s PROVE FALSE
    OBVIOUS
  <2>1. log[i] \in EventRecord /\ log[n] \in EventRecord
    BY <1>1
  <2>2. log[i] = log[n]
    BY <2>1 DEF EventRecord
  <2> QED BY <1>1, <2>2 DEF LogInv
<1>9. \A i \in 1 .. p : log[i].kind = "released" => log[i].scope # s
  <2> SUFFICES ASSUME NEW i \in 1 .. p, log[i].kind = "released", log[i].scope = s PROVE FALSE
    OBVIOUS
  <2>1. PICK j \in DOMAIN log : j < i /\ log[j].kind = "wanted" /\ log[j].scope = s
    BY <1>1 DEF LogInv
  <2> QED BY <2>1, <1>1, <1>8
<1>10. Sourced(log, m, h)
  BY <1>1, <1>2, <1>6, <1>7, FoldLifecycleSourced DEF ReplayOf
<1>11. ScopesKnown(log, m, n)
  <2> SUFFICES ASSUME NEW i \in 1 .. n, log[i].kind = "wanted"
               PROVE  m.scopes[log[i].scope] = "provisioned"
    BY DEF ScopesKnown
  <2>1. log[i].scope \in Scope
    <3>1. log[i] \in EventRecord
      BY <1>1
    <3> QED BY <3>1 DEF EventRecord
  <2>2. CASE i = n
    BY <2>2, <2>1, <1>5, <1>6
  <2>3. CASE i # n
    <3>1. k.scopes[log[i].scope] = "provisioned"
      BY <2>3, <1>1 DEF ReplayOf, ScopesKnown
    <3> QED BY <3>1, <2>1, <1>5, <1>6
  <2> QED BY <2>2, <2>3
<1>12. ReleasesKept(log, m, n)
  <2> SUFFICES ASSUME NEW i \in 1 .. n, log[i].kind = "released"
               PROVE  LastIs(m.lifecycle, log[i].scope, "released")
    BY DEF ReleasesKept
  <2>1. i \in 1 .. p
    BY <1>1
  <2>2. LastIs(k.lifecycle, log[i].scope, "released")
    BY <2>1 DEF ReplayOf, ReleasesKept
  <2> QED BY <1>2, <1>5, <1>6, <1>7, <1>9, <2>1, <2>2, LastIsKept
<1>13. WantsKept(log, m, n, h)
  <2> SUFFICES ASSUME NEW i \in 1 .. n, log[i].kind = "wanted"
               PROVE  \/ ReleasedWithin(log, log[i].scope, 0, n)
                      \/ LastIs(m.lifecycle, log[i].scope, "wanted")
                      \/ ReleasedWithin(log, log[i].scope, n, h)
    BY DEF WantsKept
  <2>1. CASE i = n
    BY <2>1, <1>2, <1>5, <1>6, <1>7, LastIsAppended
  <2>2. CASE i # n
    <3>1. i \in 1 .. p /\ log[i].scope # s
      BY <2>2, <1>1, <1>8
    <3>2. \/ ReleasedWithin(log, log[i].scope, 0, p)
          \/ LastIs(k.lifecycle, log[i].scope, "wanted")
          \/ ReleasedWithin(log, log[i].scope, p, h)
      BY <3>1 DEF ReplayOf, WantsKept
    <3>3. LastIs(k.lifecycle, log[i].scope, "wanted")
            => LastIs(m.lifecycle, log[i].scope, "wanted")
      BY <3>1, <1>2, <1>5, <1>6, <1>7, LastIsKept
    <3> QED BY <3>2, <3>3, <1>1 DEF ReleasedWithin
  <2> QED BY <2>1, <2>2
<1>14. StepsKept(log, m, n)
  BY <1>1, <1>6 DEF ReplayOf, StepsKept
<1>15. TerminalKept(log, m.terminal, n)
  BY <1>1, <1>6 DEF ReplayOf, TerminalKept, IsTerminal
<1>16. ReplayOf(log, m, n, h)
  BY <1>10, <1>11, <1>12, <1>13, <1>14, <1>15 DEF ReplayOf
<1> QED BY <1>4, <1>6, <1>16 DEF Folds

LEMMA FoldReleased ==
  ASSUME ObserverType, LogInv, NEW k \in KeptRecord, NEW p \in Nat, NEW h \in Nat,
         ReplayOf(log, k, p, h), p + 1 <= h, p + 1 <= Len(log),
         log[p + 1].kind = "released"
  PROVE  Folds(k, p + 1, h)
<1> DEFINE n == p + 1
           s == log[n].scope
           ev == [event |-> "released", scope |-> s, adapter |-> "provisioned"]
           m == [k EXCEPT !.lifecycle = Append(@, ev)]
<1>1. /\ log \in Seq(EventRecord) /\ DOMAIN log = 1 .. Len(log) /\ n \in DOMAIN log
      /\ \A i \in 1 .. n : i # n => i \in 1 .. p
      /\ \A i \in 1 .. p : i \in DOMAIN log
      /\ Len(log) \in Nat
  BY DEF ObserverType
<1>2. s \in Scope /\ ev \in LifecycleRecord
  <2>1. log[n] \in EventRecord
    BY <1>1
  <2>2. s \in Scope
    BY <2>1 DEF EventRecord
  <2> QED BY <2>2 DEF LifecycleRecord, Adapter
<1>3. k.scopes[s] = "provisioned"
  <2>1. PICK j \in DOMAIN log : j < n /\ log[j].kind = "wanted" /\ log[j].scope = s
    BY <1>1 DEF LogInv
  <2>2. j \in 1 .. p
    BY <2>1, <1>1
  <2> QED BY <2>1, <2>2 DEF ReplayOf, ScopesKnown
<1>4. ResolveReleaseAdapter(k.scopes, LifecycleEvent(log[n])) = ev
  <2>1. LifecycleEvent(log[n]) = [event |-> "released", scope |-> s, adapter |-> "shim"]
    BY DEF LifecycleEvent
  <2> QED BY <1>3, <2>1 DEF ResolveReleaseAdapter, NoAdapter
<1>5. Fold(k, n) = m
  BY <1>4 DEF Fold, IsTerminal
<1>6. k.lifecycle \in Seq(LifecycleRecord) /\ Append(k.lifecycle, ev) \in Seq(LifecycleRecord)
  BY <1>2 DEF KeptRecord
<1>7. /\ m \in KeptRecord /\ m.cursor = k.cursor /\ m.progress = k.progress
      /\ m.lifecycle = Append(k.lifecycle, ev) /\ m.scopes = k.scopes
      /\ m.steps = k.steps /\ m.terminal = k.terminal
  BY <1>6 DEF KeptRecord
<1>8. ev.event = "released" /\ ev.scope = s /\ ev.adapter = "provisioned"
  OBVIOUS
<1> HIDE DEF m, ev
<1>9. Sourced(log, m, h)
  BY <1>1, <1>2, <1>7, <1>8, FoldLifecycleSourced DEF ReplayOf
<1>10. ScopesKnown(log, m, n)
  BY <1>1, <1>7 DEF ReplayOf, ScopesKnown
<1>11. ReleasesKept(log, m, n)
  <2> SUFFICES ASSUME NEW i \in 1 .. n, log[i].kind = "released"
               PROVE  LastIs(m.lifecycle, log[i].scope, "released")
    BY DEF ReleasesKept
  <2>1. CASE i = n
    BY <2>1, <1>2, <1>6, <1>7, <1>8, LastIsAppended
  <2>2. CASE i # n
    <3>1. LastIs(k.lifecycle, log[i].scope, "released")
      BY <2>2, <1>1 DEF ReplayOf, ReleasesKept
    <3> QED BY <1>2, <1>6, <1>7, <1>8, <3>1, LastIsKept
  <2> QED BY <2>1, <2>2
<1>12. WantsKept(log, m, n, h)
  <2> SUFFICES ASSUME NEW i \in 1 .. n, log[i].kind = "wanted"
               PROVE  \/ ReleasedWithin(log, log[i].scope, 0, n)
                      \/ LastIs(m.lifecycle, log[i].scope, "wanted")
                      \/ ReleasedWithin(log, log[i].scope, n, h)
    BY DEF WantsKept
  <2>1. CASE log[i].scope = s
    BY <2>1, <1>1 DEF ReleasedWithin
  <2>2. CASE log[i].scope # s
    <3>1. i \in 1 .. p
      BY <1>1
    <3>2. \/ ReleasedWithin(log, log[i].scope, 0, p)
          \/ LastIs(k.lifecycle, log[i].scope, "wanted")
          \/ ReleasedWithin(log, log[i].scope, p, h)
      BY <3>1 DEF ReplayOf, WantsKept
    <3>3. LastIs(k.lifecycle, log[i].scope, "wanted")
            => LastIs(m.lifecycle, log[i].scope, "wanted")
      BY <2>2, <1>2, <1>6, <1>7, <1>8, LastIsKept
    <3> QED BY <2>2, <3>2, <3>3, <1>1 DEF ReleasedWithin
  <2> QED BY <2>1, <2>2
<1>13. StepsKept(log, m, n)
  BY <1>1, <1>7 DEF ReplayOf, StepsKept
<1>14. TerminalKept(log, m.terminal, n)
  BY <1>1, <1>7 DEF ReplayOf, TerminalKept, IsTerminal
<1>15. ReplayOf(log, m, n, h)
  BY <1>9, <1>10, <1>11, <1>12, <1>13, <1>14 DEF ReplayOf
<1> QED BY <1>5, <1>7, <1>15 DEF Folds

LEMMA FoldReplays ==
  ASSUME ObserverType, LogInv, NEW k \in KeptRecord, NEW p \in Nat, NEW h \in Nat,
         ReplayOf(log, k, p, h), p + 1 <= h, p + 1 <= Len(log)
  PROVE  Folds(k, p + 1, h)
<1>1. log[p + 1].kind \in Kind
  <2>1. log[p + 1] \in EventRecord
    BY DEF ObserverType
  <2> QED BY <2>1 DEF EventRecord
<1> QED BY <1>1, FoldTerminal, FoldQuiet, FoldWanted, FoldReleased DEF Kind, IsTerminal

-----------------------------------------------------------------------------
(* A page after another stays within the budget of a drain. *)
LEMMA BudgetIsNat == Budget \in Nat
BY ObserverAssumption DEF Budget

LEMMA PageWithinBudget ==
  ASSUME NEW n \in Nat, n < MaxPages
  PROVE  /\ n * PageSize \in Nat /\ (n + 1) * PageSize = n * PageSize + PageSize
         /\ (n + 1) * PageSize <= Budget
         /\ n + 1 = MaxPages => (n + 1) * PageSize = Budget
<1>1. /\ PageSize \in Nat /\ MaxPages \in Nat /\ MaxPages - (n + 1) \in Nat
      /\ MaxPages = (n + 1) + (MaxPages - (n + 1))
  BY ObserverAssumption
<1>2. \A d \in Nat : d * PageSize \in Nat /\ ((n + 1) + d) * PageSize = (n + 1) * PageSize + d * PageSize
  BY <1>1
<1>3. /\ (MaxPages - (n + 1)) * PageSize \in Nat
      /\ Budget = (n + 1) * PageSize + (MaxPages - (n + 1)) * PageSize
  BY <1>1, <1>2 DEF Budget
<1>4. n * PageSize \in Nat /\ (n + 1) * PageSize = n * PageSize + PageSize
  BY <1>1
<1>5. (n + 1) * PageSize \in Nat
  BY <1>1
<1>6. (n + 1) * PageSize <= Budget
  BY <1>3, <1>5
<1> QED BY <1>1, <1>4, <1>6 DEF Budget

\* What DrainInv and the types say of places and horizons.
LEMMA PlacesAreNumbers ==
  ASSUME ObserverType, DrainInv
  PROVE  /\ Place \in Nat /\ Horizon \in Nat /\ Len(log) \in Nat /\ Budget \in Nat
         /\ kept.cursor \in Nat /\ kept.progress \in Nat
         /\ drain.since \in Nat /\ drain.upto \in Nat /\ drain.page \in Nat
         /\ drain.progress \in Nat /\ drain.owed \in Nat
         /\ drain.terminal \in Envelope /\ kept.terminal \in Envelope
         /\ drain.pc \in {"idle", "page", "fold", "tail", "record"}
         /\ DOMAIN log = 1 .. Len(log)
BY BudgetIsNat DEF ObserverType, DrainInv, KeptRecord, DrainRecord, Place, Horizon

-----------------------------------------------------------------------------
(* The actions. *)

LEMMA InitIsGood == Init => IInv
<1> SUFFICES ASSUME Init PROVE IInv
  OBVIOUS
<1>1. log = <<>> /\ log \in Seq(EventRecord) /\ Len(log) = 0 /\ DOMAIN log = {}
      /\ record \in Status
  BY DEF Init, Status
<1>2. /\ kept \in KeptRecord /\ kept.cursor = 0 /\ kept.progress = 0 /\ kept.lifecycle = <<>>
      /\ kept.terminal = "none"
  BY DEF Init, Fresh, KeptRecord, Envelope, NoAdapter
<1>3. drain \in DrainRecord /\ drain.pc = "idle" /\ drain.since = 0
  BY DEF Init, Idle, DrainRecord, Envelope
<1>4. obs.upto = 0 /\ obs.terminal = "none" /\ ~obs.known
  BY DEF Init, NoObservation
<1>5. Budget \in Nat
  BY BudgetIsNat
<1>6. ObserverType
  BY <1>1, <1>2, <1>3 DEF ObserverType
<1>7. LogInv
  BY <1>1 DEF LogInv
<1>8. Place = 0 /\ Horizon = Budget
  BY <1>2, <1>3, <1>5 DEF Place, Horizon
<1>9. DrainInv
  BY <1>1, <1>2, <1>3, <1>5, <1>8 DEF DrainInv
<1>10. KeptInv
  BY <1>1, <1>2, <1>3, <1>8 DEF KeptInv, ReplayOf, Sourced, ScopesKnown, ReleasesKept,
     WantsKept, StepsKept, TerminalKept, ProgressOf
<1>11. ObsInv
  BY <1>1, <1>4 DEF ObsInv, ObservedIsReplay, ObservationIsComplete, EnvelopeVerdictWins, Verdict
<1> QED BY <1>6, <1>7, <1>9, <1>10, <1>11 DEF IInv

\* The observation and the log stand while the drain goes on.
LEMMA ObsStands ==
  ASSUME ObsInv, UNCHANGED <<log, obs>>
  PROVE  ObsInv'
BY DEF ObsInv, ObservedIsReplay, ObservationIsComplete, EnvelopeVerdictWins, Prefix

LEMMA NoObsIsGood ==
  ASSUME ObserverType, UNCHANGED log, obs' = NoObservation
  PROVE  ObsInv'
<1>1. obs'.upto = 0 /\ obs'.terminal = "none" /\ ~obs'.known
  BY DEF NoObservation
<1>2. Len(log) \in Nat
  BY DEF ObserverType
<1> QED BY <1>1, <1>2 DEF ObsInv, ObservedIsReplay, ObservationIsComplete, EnvelopeVerdictWins, Verdict

LEMMA StartDrainKeeps ==
  ASSUME IInv, StartDrain
  PROVE  IInv'
<1>1. /\ Place \in Nat /\ Horizon \in Nat /\ Len(log) \in Nat /\ Budget \in Nat
      /\ kept.cursor \in Nat /\ kept.progress \in Nat /\ kept.terminal \in Envelope
  BY PlacesAreNumbers DEF IInv
<1>2. /\ drain' \in DrainRecord /\ drain'.pc = "page" /\ drain'.since = kept.cursor
      /\ drain'.page = 0 /\ drain'.terminal = kept.terminal /\ drain'.progress = kept.progress
      /\ drain'.owed = Len(log)
  BY <1>1 DEF StartDrain, DrainRecord
<1>3. drain.pc = "idle" /\ UNCHANGED <<log, record, kept>> /\ obs' = NoObservation
  BY DEF StartDrain, castleVars
<1>4. ObserverType'
  BY <1>2, <1>3 DEF IInv, ObserverType
<1>5. LogInv'
  BY <1>3 DEF IInv, LogInv
<1>6. /\ Place' = kept.cursor /\ Place = kept.cursor
      /\ Horizon' = kept.cursor + Budget /\ Horizon = kept.cursor + Budget
  BY <1>2, <1>3 DEF Place, Horizon, Budget
<1>7. DrainInv'
  <2>1. 0 < MaxPages /\ 0 * PageSize = 0
    BY ObserverAssumption
  <2>2. drain'.page < MaxPages /\ drain'.since = kept'.cursor + drain'.page * PageSize
    BY <2>1, <1>1, <1>2, <1>3
  <2> QED BY <2>2, <1>1, <1>2, <1>3, <1>6 DEF IInv, DrainInv
<1>8. KeptInv'
  BY <1>2, <1>3, <1>6 DEF IInv, KeptInv, ReplayOf
<1>9. ObsInv'
  BY <1>3, NoObsIsGood DEF IInv
<1> QED BY <1>4, <1>5, <1>7, <1>8, <1>9 DEF IInv

\* The last page ends at the end of the log, or where the budget does.
LEMMA LastPageIsHorizon ==
  ASSUME NEW c \in Nat, NEW budget \in Nat, NEW len \in Nat, NEW end \in Nat, NEW owed \in Nat,
         owed <= len, end <= len, end <= c + budget, end = len \/ end = c + budget
  PROVE  /\ \A i \in 1 .. len : i <= c + budget => i <= end
         /\ SmallerOf(owed, budget) <= end
BY DEF SmallerOf

LEMMA FetchPageKeeps ==
  ASSUME IInv, FetchPage
  PROVE  IInv'
<1>1. /\ Place \in Nat /\ Horizon \in Nat /\ Len(log) \in Nat /\ Budget \in Nat
      /\ kept.cursor \in Nat /\ drain.since \in Nat /\ drain.page \in Nat /\ drain.owed \in Nat
      /\ DOMAIN log = 1 .. Len(log) /\ PageSize \in Nat \ {0} /\ drain \in DrainRecord
  BY PlacesAreNumbers, ObserverAssumption DEF IInv, ObserverType
<1>2. /\ drain.pc = "page" /\ UNCHANGED <<log, record, kept, obs>>
  BY DEF FetchPage, castleVars
<1>3. PageEnd \in Nat /\ IsLastPage \in BOOLEAN
  BY <1>1 DEF PageEnd, IsLastPage
<1>4. /\ drain' \in DrainRecord
      /\ IsLastPage => drain'.pc = "tail"
      /\ ~IsLastPage => drain'.pc = "fold"
      /\ drain'.since = drain.since /\ drain'.upto = PageEnd /\ drain'.page = drain.page + 1
      /\ drain'.terminal = drain.terminal /\ drain'.progress = drain.progress
      /\ drain'.owed = drain.owed
  <2>1. drain.page + 1 \in Nat
    BY <1>1
  <2>2. CASE IsLastPage
    <3>1. drain' = [drain EXCEPT !.pc = "tail", !.upto = PageEnd, !.page = drain.page + 1]
      BY <2>2 DEF FetchPage
    <3> QED BY <3>1, <2>1, <2>2, <1>1, <1>3 DEF DrainRecord
  <2>3. CASE ~IsLastPage
    <3>1. drain' = [drain EXCEPT !.pc = "fold", !.upto = PageEnd, !.page = drain.page + 1]
      BY <2>3 DEF FetchPage
    <3> QED BY <3>1, <2>1, <2>3, <1>1, <1>3 DEF DrainRecord
  <2> QED BY <2>2, <2>3
<1>5. /\ drain.page < MaxPages /\ drain.since = kept.cursor + drain.page * PageSize
      /\ drain.since <= Len(log) /\ drain.owed <= Len(log) /\ kept.cursor <= drain.since
      /\ Place = drain.since /\ Horizon = kept.cursor + Budget
  BY <1>2 DEF IInv, DrainInv, Place, Horizon
<1>6. PICK a \in Nat, b \in Nat :
        /\ a = drain.page * PageSize /\ b = (drain.page + 1) * PageSize
        /\ b = a + PageSize /\ b <= Budget
        /\ drain.page + 1 = MaxPages => b = Budget
  <2>1. /\ drain.page * PageSize \in Nat
        /\ (drain.page + 1) * PageSize = drain.page * PageSize + PageSize
        /\ (drain.page + 1) * PageSize <= Budget
        /\ drain.page + 1 = MaxPages => (drain.page + 1) * PageSize = Budget
    BY <1>1, <1>5, PageWithinBudget
  <2>2. (drain.page + 1) * PageSize \in Nat
    BY <1>1, <2>1
  <2> QED BY <2>1, <2>2
<1>7. /\ drain.since = kept.cursor + a /\ drain.since + PageSize = kept.cursor + b
  <2>1. drain.since = kept.cursor + a
    BY <1>5, <1>6
  <2>2. b = a + PageSize
    BY <1>6
  <2> QED BY <2>1, <2>2, <1>1
<1>8. /\ drain.since <= PageEnd /\ PageEnd <= Len(log) /\ PageEnd <= kept.cursor + Budget
      /\ ~IsLastPage => PageEnd = kept.cursor + b /\ drain.page + 1 # MaxPages
      /\ IsLastPage => PageEnd = Len(log) \/ PageEnd = kept.cursor + Budget
  <2>1. b <= Budget /\ (drain.page + 1 = MaxPages => b = Budget)
    BY <1>6
  <2>2. drain.since <= Len(log)
    BY <1>5
  <2> DEFINE next == drain.since + PageSize
  <2>3. next \in Nat /\ next = kept.cursor + b /\ next <= kept.cursor + Budget
        /\ drain.since < next
    BY <2>1, <1>1, <1>7
  <2>4. /\ PageEnd = IF next < Len(log) THEN next ELSE Len(log)
        /\ IsLastPage <=> PageEnd < next \/ drain.page + 1 = MaxPages
    BY DEF PageEnd, IsLastPage
  <2> HIDE DEF next
  <2>5. CASE next < Len(log)
    <3>1. PageEnd = next
      BY <2>4, <2>5
    <3>2. ~(PageEnd < next)
      BY <2>3, <3>1
    <3> QED BY <2>1, <2>3, <2>4, <2>5, <3>1, <3>2, <1>1
  <2>6. CASE ~(next < Len(log))
    <3>1. PageEnd = Len(log)
      BY <2>4, <2>6
    <3>2. ~IsLastPage => PageEnd = next
      BY <2>3, <2>4, <2>6, <3>1, <1>1
    <3> QED BY <2>2, <2>3, <2>4, <2>6, <3>1, <3>2, <1>1
  <2> QED BY <2>5, <2>6
<1>9. ObserverType'
  BY <1>2, <1>4 DEF IInv, ObserverType
<1>10. LogInv'
  BY <1>2 DEF IInv, LogInv
<1>11. /\ Place' = drain.since
       /\ IsLastPage => Horizon' = PageEnd
       /\ ~IsLastPage => Horizon' = kept.cursor + Budget
  BY <1>2, <1>3, <1>4 DEF Place, Horizon, Budget
<1>12. /\ Horizon' \in Nat /\ drain.since <= Horizon'
       /\ \A i \in DOMAIN log : i <= Horizon => i <= Horizon'
  <2>1. CASE IsLastPage
    <3>1. Horizon' = PageEnd /\ Horizon = kept.cursor + Budget /\ drain.since <= PageEnd
      BY <2>1, <1>5, <1>8, <1>11
    <3>2. /\ PageEnd <= Len(log) /\ PageEnd <= kept.cursor + Budget /\ drain.owed <= Len(log)
          /\ PageEnd = Len(log) \/ PageEnd = kept.cursor + Budget
      BY <2>1, <1>5, <1>8
    <3>3. \A i \in 1 .. Len(log) : i <= kept.cursor + Budget => i <= PageEnd
      BY <3>2, <1>1, <1>3, LastPageIsHorizon
    <3> QED BY <3>1, <3>3, <1>1, <1>3, Zenon
  <2>2. CASE ~IsLastPage
    <3>1. Horizon' = Horizon
      BY <2>2, <1>5, <1>11
    <3>2. drain.since <= Horizon
      BY <1>5 DEF IInv, DrainInv
    <3> QED BY <3>1, <3>2, <1>1
  <2> QED BY <2>1, <2>2
<1>13. DrainInv'
  <2>1. /\ kept'.cursor <= Place' /\ Place' <= Len(log') /\ Place' <= Horizon'
        /\ drain'.owed <= Len(log')
        /\ drain'.since <= drain'.upto /\ drain'.upto <= Len(log')
        /\ drain'.upto <= kept'.cursor + Budget
    BY <1>2, <1>4, <1>5, <1>8, <1>11, <1>12
  <2>2. drain'.pc = "fold" => drain'.page < MaxPages
                              /\ drain'.upto = kept'.cursor + drain'.page * PageSize
    <3> SUFFICES ASSUME ~IsLastPage
                 PROVE  drain'.page < MaxPages /\ drain'.upto = kept'.cursor + drain'.page * PageSize
      BY <1>4
    <3>1. drain.page < MaxPages /\ drain.page + 1 # MaxPages /\ MaxPages \in Nat
      BY <1>5, <1>8, ObserverAssumption
    <3>2. drain.page + 1 < MaxPages
      BY <3>1, <1>1
    <3>3. kept.cursor + b = kept.cursor + (drain.page + 1) * PageSize
      BY <1>6
    <3> QED BY <3>2, <3>3, <1>2, <1>4, <1>8
  <2>3. drain'.pc = "tail" => SmallerOf(drain'.owed, Budget) <= drain'.upto
    <3> SUFFICES ASSUME IsLastPage PROVE SmallerOf(drain.owed, Budget) <= PageEnd
      BY <1>4
    <3>1. /\ PageEnd <= Len(log) /\ PageEnd <= kept.cursor + Budget /\ drain.owed <= Len(log)
          /\ PageEnd = Len(log) \/ PageEnd = kept.cursor + Budget
      BY <1>5, <1>8
    <3> QED BY <3>1, <1>1, <1>3, LastPageIsHorizon
  <2>4. drain'.pc \in {"fold", "tail"} /\ Budget' = Budget
    BY <1>3, <1>4 DEF Budget
  <2> QED BY <2>1, <2>2, <2>3, <2>4 DEF DrainInv
<1>15. KeptInv'
  <2>1. /\ log \in Seq(EventRecord) /\ kept \in KeptRecord
        /\ ReplayOf(log, kept, drain.since, Horizon)
        /\ drain.since <= Horizon /\ drain.since <= Len(log)
    BY <1>5 DEF IInv, ObserverType, KeptInv, DrainInv
  <2>2. ReplayOf(log, kept, drain.since, Horizon')
    <3> DEFINE h == Horizon'
    <3>1. h \in Nat /\ (\A i \in DOMAIN log : i <= Horizon => i <= h)
      BY <1>12
    <3> HIDE DEF h
    <3>2. drain.since \in Nat /\ Horizon \in Nat /\ drain.since <= drain.since
      BY <1>1
    <3>3. ReplayOf(log, kept, drain.since, h)
      BY <2>1, <3>1, <3>2, ReplayMoves
    <3> QED BY <3>3 DEF h
  <2>3. ReplayOf(log', kept', Place', Horizon')
    BY <2>2, <1>2, <1>11
  <2> QED BY <2>3, <1>2, <1>4 DEF IInv, KeptInv
<1>14. ObsInv'
  BY <1>2, ObsStands DEF IInv
<1> QED BY <1>9, <1>10, <1>13, <1>14, <1>15 DEF IInv

LEMMA FoldEventKeeps ==
  ASSUME IInv, FoldEvent
  PROVE  IInv'
<1> DEFINE n == drain.since + 1
           t == IF IsProgress(log[n].kind) /\ n > drain.progress THEN n ELSE drain.progress
           v == IF IsTerminal(log[n].kind) THEN log[n].kind ELSE drain.terminal
<1>1. /\ Len(log) \in Nat /\ Budget \in Nat /\ Horizon \in Nat
      /\ kept.cursor \in Nat /\ drain.since \in Nat /\ drain.upto \in Nat /\ drain.page \in Nat
      /\ drain.progress \in Nat /\ drain.owed \in Nat /\ drain.terminal \in Envelope
      /\ DOMAIN log = 1 .. Len(log) /\ drain \in DrainRecord
  BY PlacesAreNumbers DEF IInv, ObserverType
<1>2. /\ drain.pc \in {"fold", "tail"} /\ drain.since < drain.upto /\ kept' = Fold(kept, n)
      /\ UNCHANGED <<log, record, obs>>
      /\ drain' = [drain EXCEPT !.since = n, !.progress = t, !.terminal = v]
  BY DEF FoldEvent, Folding, castleVars
<1>3. n \in Nat /\ t \in Nat /\ v \in Envelope
  BY <1>1 DEF IsTerminal, Envelope
<1>4. /\ drain' \in DrainRecord /\ drain'.pc = drain.pc /\ drain'.since = n
      /\ drain'.upto = drain.upto /\ drain'.page = drain.page /\ drain'.owed = drain.owed
      /\ drain'.progress = t /\ drain'.terminal = v
  <2> HIDE DEF n, t, v
  <2> QED BY <1>1, <1>2, <1>3 DEF DrainRecord
<1>5. /\ Place = drain.since /\ drain.since <= drain.upto /\ drain.upto <= Len(log)
      /\ drain.upto <= kept.cursor + Budget /\ kept.cursor <= drain.since
      /\ drain.owed <= Len(log)
  BY <1>2 DEF IInv, DrainInv, Place
<1>6. n <= drain.upto /\ n <= Len(log) /\ kept.cursor <= n /\ drain.upto <= Horizon
  <2>1. n <= drain.upto /\ n <= Len(log) /\ kept.cursor <= n
    BY <1>1, <1>2, <1>5
  <2>2. Horizon = IF drain.pc = "tail" THEN drain.upto ELSE kept.cursor + Budget
    BY <1>2 DEF Horizon
  <2> QED BY <2>1, <2>2, <1>1, <1>5
<1>7. Folds(kept, n, Horizon)
  <2>1. kept \in KeptRecord /\ ReplayOf(log, kept, drain.since, Horizon)
    BY <1>5 DEF IInv, ObserverType, KeptInv
  <2>2. n <= Horizon
    BY <1>1, <1>6
  <2>3. ObserverType /\ LogInv
    BY DEF IInv
  <2> QED BY <2>1, <2>2, <2>3, <1>1, <1>6, FoldReplays
<1>8. /\ kept' \in KeptRecord /\ kept'.cursor = kept.cursor /\ kept'.progress = kept.progress
      /\ ReplayOf(log, kept', n, Horizon)
  BY <1>2, <1>7 DEF Folds
<1> HIDE DEF n, t, v
<1>9. ObserverType'
  BY <1>2, <1>4, <1>8 DEF IInv, ObserverType
<1>10. LogInv'
  BY <1>2 DEF IInv, LogInv
<1>11. Place' = n /\ Horizon' = Horizon
  BY <1>2, <1>4, <1>8 DEF Place, Horizon, Budget
<1>12. DrainInv'
  <2>1. n <= Horizon
    BY <1>1, <1>3, <1>6
  <2>2. drain.pc = "fold" => drain.page < MaxPages /\ drain.upto = kept.cursor + drain.page * PageSize
    BY DEF IInv, DrainInv
  <2>3. drain.pc = "tail" => SmallerOf(drain.owed, Budget) <= drain.upto
    BY DEF IInv, DrainInv
  <2> QED BY <2>1, <2>2, <2>3, <1>2, <1>4, <1>5, <1>6, <1>8, <1>11 DEF DrainInv, Budget
<1>13. ProgressOf(log, t, n)
  <2>1. ProgressOf(log, drain.progress, drain.since)
    BY <1>2 DEF IInv, KeptInv
  <2> QED BY <2>1, <1>1 DEF ProgressOf, IsProgress, n, t
<1>14. TerminalKept(log, v, n)
  <2>1. TerminalKept(log, drain.terminal, drain.since)
    BY <1>2 DEF IInv, KeptInv
  <2> QED BY <2>1, <1>1 DEF TerminalKept, IsTerminal, n, v
<1>15. KeptInv'
  <2>1. ProgressOf(log, kept.progress, kept.cursor)
    BY DEF IInv, KeptInv
  <2> QED BY <2>1, <1>2, <1>4, <1>8, <1>11, <1>13, <1>14 DEF KeptInv
<1>16. ObsInv'
  BY <1>2, ObsStands DEF IInv
<1> QED BY <1>9, <1>10, <1>12, <1>15, <1>16 DEF IInv

\* Steps that leave the log and what is kept of the events.
LEMMA KeptStands ==
  ASSUME IInv, UNCHANGED <<log, record, kept, obs>>, drain' \in DrainRecord, DrainInv',
         Place' = Place, Horizon' = Horizon,
         drain'.pc # "idle" => drain.pc # "idle" /\ drain'.progress = drain.progress
                               /\ drain'.terminal = drain.terminal /\ drain'.since = drain.since
  PROVE  IInv'
<1>1. ObserverType' /\ LogInv'
  BY DEF IInv, ObserverType, LogInv
<1>2. KeptInv'
  BY DEF IInv, KeptInv
<1>3. ObsInv'
  BY ObsStands DEF IInv
<1> QED BY <1>1, <1>2, <1>3 DEF IInv

LEMMA NextPageKeeps ==
  ASSUME IInv, NextPage
  PROVE  IInv'
<1>1. drain \in DrainRecord /\ drain.pc = "fold" /\ drain.since = drain.upto
      /\ drain' = [drain EXCEPT !.pc = "page"] /\ UNCHANGED <<log, record, kept, obs>>
  BY DEF NextPage, IInv, ObserverType, castleVars
<1>2. /\ drain' \in DrainRecord /\ drain'.pc = "page" /\ drain'.since = drain.since
      /\ drain'.page = drain.page /\ drain'.owed = drain.owed
      /\ drain'.progress = drain.progress /\ drain'.terminal = drain.terminal
  BY <1>1 DEF DrainRecord
<1>3. Place' = Place /\ Horizon' = Horizon
  BY <1>1, <1>2 DEF Place, Horizon, Budget
<1>4. DrainInv'
  BY <1>1, <1>2, <1>3 DEF IInv, DrainInv
<1> QED BY <1>1, <1>2, <1>3, <1>4, KeptStands

\* A failed page: the place goes back to the cursor, the horizon stands.
LEMMA PageFailsKeeps ==
  ASSUME IInv, PageFails
  PROVE  IInv'
<1>1. /\ Place \in Nat /\ Horizon \in Nat /\ Len(log) \in Nat /\ kept.cursor \in Nat
      /\ Budget \in Nat
  BY PlacesAreNumbers DEF IInv
<1>2. drain.pc = "page" /\ drain' = Idle /\ UNCHANGED <<log, record, kept, obs>>
  BY DEF PageFails, castleVars
<1>3. drain' \in DrainRecord /\ drain'.pc = "idle" /\ drain'.since = 0
  BY <1>2 DEF Idle, DrainRecord, Envelope
<1>4. Place' = kept.cursor /\ Horizon' = Horizon /\ Horizon = kept.cursor + Budget
  BY <1>2, <1>3 DEF Place, Horizon, Budget
<1>5. /\ kept.cursor <= Place /\ Place <= Len(log) /\ Place <= Horizon
      /\ ReplayOf(log, kept, Place, Horizon) /\ log \in Seq(EventRecord) /\ kept \in KeptRecord
  BY DEF IInv, DrainInv, KeptInv, ObserverType
<1>6. ReplayOf(log, kept, kept.cursor, Horizon)
  BY <1>1, <1>5, ReplayMoves
<1>7. ObserverType' /\ LogInv'
  BY <1>2, <1>3 DEF IInv, ObserverType, LogInv
<1>8. DrainInv'
  BY <1>1, <1>2, <1>3, <1>4, <1>5 DEF DrainInv
<1>9. KeptInv'
  BY <1>2, <1>3, <1>4, <1>6 DEF IInv, KeptInv
<1>10. ObsInv'
  BY <1>2, ObsStands DEF IInv
<1> QED BY <1>7, <1>8, <1>9, <1>10 DEF IInv

\* The end of a drain: the place is the horizon, and the cursor moves there.
LEMMA EndDrainKeeps ==
  ASSUME IInv, EndDrain
  PROVE  IInv'
<1>1. /\ drain.since \in Nat /\ drain.progress \in Nat /\ kept \in KeptRecord
      /\ drain \in DrainRecord /\ Len(log) \in Nat
  BY PlacesAreNumbers DEF IInv, ObserverType
<1>2. /\ drain.pc = "tail" /\ drain.since = drain.upto /\ UNCHANGED <<log, record, obs>>
      /\ kept' = [kept EXCEPT !.cursor = drain.since, !.progress = drain.progress]
      /\ drain' = [drain EXCEPT !.pc = "record"]
  BY DEF EndDrain, CloseDrain, castleVars
<1>3. /\ kept' \in KeptRecord /\ kept'.cursor = drain.since /\ kept'.progress = drain.progress
      /\ kept'.lifecycle = kept.lifecycle /\ kept'.scopes = kept.scopes
      /\ kept'.terminal = kept.terminal /\ kept'.steps = kept.steps
  BY <1>1, <1>2 DEF KeptRecord
<1>4. /\ drain' \in DrainRecord /\ drain'.pc = "record" /\ drain'.since = drain.since
      /\ drain'.owed = drain.owed /\ drain'.progress = drain.progress
      /\ drain'.terminal = drain.terminal
  BY <1>1, <1>2 DEF DrainRecord
<1>5. Place = drain.since /\ Horizon = drain.since /\ Place' = drain.since /\ Horizon' = drain.since
  BY <1>2, <1>3, <1>4 DEF Place, Horizon
<1>6. /\ ReplayOf(log, kept, drain.since, drain.since)
      /\ ProgressOf(log, drain.progress, drain.since) /\ TerminalKept(log, drain.terminal, drain.since)
  BY <1>2, <1>5 DEF IInv, KeptInv
<1>7. ReplayOf(log, kept', drain.since, drain.since)
  BY <1>3, <1>6, ReplayIgnoresCursor
<1>8. ObserverType' /\ LogInv'
  BY <1>2, <1>3, <1>4 DEF IInv, ObserverType, LogInv
<1>9. /\ drain.since <= Len(log) /\ drain.owed <= Len(log)
      /\ SmallerOf(drain.owed, Budget) <= drain.since
  BY <1>2 DEF IInv, DrainInv
<1>10. DrainInv'
  BY <1>1, <1>2, <1>3, <1>4, <1>5, <1>9 DEF DrainInv, Budget
<1>11. KeptInv'
  BY <1>2, <1>3, <1>4, <1>5, <1>6, <1>7 DEF KeptInv
<1>12. ObsInv'
  BY <1>2, ObsStands DEF IInv
<1> QED BY <1>8, <1>10, <1>11, <1>12 DEF IInv

\* A new process: nothing kept, and nothing behind the cursor.
LEMMA RestartOperatorKeeps ==
  ASSUME IInv, RestartOperator
  PROVE  IInv'
<1>1. /\ kept' = Fresh /\ drain' = Idle /\ obs' = NoObservation /\ UNCHANGED <<log, record>>
  BY DEF RestartOperator, castleVars
<1>2. /\ kept' \in KeptRecord /\ kept'.cursor = 0 /\ kept'.progress = 0 /\ kept'.lifecycle = <<>>
      /\ kept'.terminal = "none"
  BY <1>1 DEF Fresh, KeptRecord, Envelope, NoAdapter
<1>3. drain' \in DrainRecord /\ drain'.pc = "idle" /\ drain'.since = 0
  BY <1>1 DEF Idle, DrainRecord, Envelope
<1>4. Budget \in Nat /\ Len(log) \in Nat
  BY BudgetIsNat DEF IInv, ObserverType
<1>5. ObserverType' /\ LogInv'
  BY <1>1, <1>2, <1>3 DEF IInv, ObserverType, LogInv
<1>6. Place' = 0 /\ Horizon' = Budget
  BY <1>2, <1>3, <1>4 DEF Place, Horizon, Budget
<1>7. DrainInv'
  BY <1>1, <1>2, <1>3, <1>4, <1>6 DEF DrainInv
<1>8. KeptInv'
  BY <1>2, <1>3, <1>6 DEF KeptInv, ReplayOf, Sourced, ScopesKnown, ReleasesKept,
     WantsKept, StepsKept, TerminalKept, ProgressOf
<1>9. ObsInv'
  BY <1>1, NoObsIsGood DEF IInv
<1> QED BY <1>5, <1>7, <1>8, <1>9 DEF IInv

LEMMA CloseRecordKeeps ==
  ASSUME IInv, CloseRecord
  PROVE  IInv'
<1>1. UNCHANGED <<log, kept, drain, obs>> /\ record' \in Status
  BY DEF CloseRecord, Status
<1>2. ObserverType' /\ LogInv'
  BY <1>1 DEF IInv, ObserverType, LogInv
<1>3. Place' = Place /\ Horizon' = Horizon
  BY <1>1 DEF Place, Horizon, Budget
<1>4. DrainInv'
  BY <1>1, <1>3 DEF IInv, DrainInv, Budget
<1>5. KeptInv'
  BY <1>1, <1>3 DEF IInv, KeptInv
<1>6. ObsInv'
  BY <1>1, ObsStands DEF IInv
<1> QED BY <1>2, <1>4, <1>5, <1>6 DEF IInv

LEMMA EmitKeeps ==
  ASSUME IInv, Emit
  PROVE  IInv'
<1>1. PICK e \in EventRecord :
        /\ e.kind = "wanted" => ~Logged("wanted", e.scope)
        /\ e.kind = "released" => Logged("wanted", e.scope) /\ ~Logged("released", e.scope)
        /\ log' = Append(log, e)
  <2>1. PICK k \in Kind, s \in Scope :
          /\ k = "wanted" => ~Logged("wanted", s)
          /\ k = "released" => Logged("wanted", s) /\ ~Logged("released", s)
          /\ log' = Append(log, [kind |-> k, scope |-> s])
    BY DEF Emit
  <2>2. [kind |-> k, scope |-> s] \in EventRecord
    BY DEF EventRecord
  <2> QED BY <2>1, <2>2
<1>2. UNCHANGED <<record, kept, drain, obs>> /\ log \in Seq(EventRecord) /\ kept \in KeptRecord
  BY DEF Emit, IInv, ObserverType
<1>3. /\ log' \in Seq(EventRecord) /\ Len(log) \in Nat /\ Len(log') = Len(log) + 1
      /\ DOMAIN log = 1 .. Len(log) /\ DOMAIN log' = 1 .. Len(log) + 1
      /\ \A i \in 1 .. Len(log) : log'[i] = log[i]
      /\ log'[Len(log) + 1] = e
  BY <1>1, <1>2
<1>4. /\ Place \in Nat /\ Horizon \in Nat /\ kept.cursor \in Nat /\ kept.progress \in Nat
      /\ drain.since \in Nat /\ drain.upto \in Nat /\ drain.owed \in Nat /\ drain.progress \in Nat
      /\ Place' = Place /\ Horizon' = Horizon
      /\ kept.cursor <= Place /\ Place <= Len(log) /\ Place <= Horizon
      /\ drain.pc # "idle" => Place = drain.since
  BY <1>2, PlacesAreNumbers DEF IInv, Place, Horizon, Budget, DrainInv
<1>5. ObserverType'
  BY <1>2, <1>3 DEF IInv, ObserverType
<1>6. LogInv'
  <2>1. \A i, j \in DOMAIN log' :
          log'[i] = log'[j] /\ log'[i].kind \in {"wanted", "released"} => i = j
    <3>1. \A i \in DOMAIN log : log[i] = e => e.kind \notin {"wanted", "released"}
      BY <1>1 DEF Logged
    <3>2. \A i, j \in DOMAIN log :
            log[i] = log[j] /\ log[i].kind \in {"wanted", "released"} => i = j
      BY DEF IInv, LogInv
    <3> SUFFICES ASSUME NEW i \in DOMAIN log', NEW j \in DOMAIN log', log'[i] = log'[j],
                        log'[i].kind \in {"wanted", "released"}
                 PROVE  i = j
      OBVIOUS
    <3>3. CASE i \in DOMAIN log /\ j \in DOMAIN log
      BY <3>2, <3>3, <1>3
    <3>4. CASE i \notin DOMAIN log /\ j \in DOMAIN log
      BY <3>1, <3>4, <1>3
    <3>5. CASE i \in DOMAIN log /\ j \notin DOMAIN log
      BY <3>1, <3>5, <1>3
    <3>6. CASE i \notin DOMAIN log /\ j \notin DOMAIN log
      BY <3>6, <1>3
    <3> QED BY <3>3, <3>4, <3>5, <3>6
  <2>2. \A j \in DOMAIN log' : log'[j].kind = "released" =>
          \E i \in DOMAIN log' : i < j /\ log'[i].kind = "wanted" /\ log'[i].scope = log'[j].scope
    <3> SUFFICES ASSUME NEW j \in DOMAIN log', log'[j].kind = "released"
                 PROVE  \E i \in DOMAIN log' :
                          i < j /\ log'[i].kind = "wanted" /\ log'[i].scope = log'[j].scope
      OBVIOUS
    <3>1. CASE j \in DOMAIN log
      <4>1. PICK i \in DOMAIN log : i < j /\ log[i].kind = "wanted" /\ log[i].scope = log[j].scope
        BY <3>1, <1>3 DEF IInv, LogInv
      <4> QED BY <4>1, <3>1, <1>3
    <3>2. CASE j \notin DOMAIN log
      <4>1. j = Len(log) + 1 /\ log'[j] = e
        BY <3>2, <1>3
      <4>2. PICK i \in DOMAIN log : log[i].kind = "wanted" /\ log[i].scope = e.scope
        BY <4>1, <1>1 DEF Logged
      <4> QED BY <4>1, <4>2, <1>3
    <3> QED BY <3>1, <3>2
  <2> QED BY <2>1, <2>2 DEF LogInv
<1>7. DrainInv'
  BY <1>2, <1>3, <1>4 DEF IInv, DrainInv, Budget
<1>8. KeptInv'
  <2>1. /\ ReplayOf(log, kept, Place, Horizon) /\ ProgressOf(log, kept.progress, kept.cursor)
        /\ drain.pc # "idle" => ProgressOf(log, drain.progress, drain.since)
                                /\ TerminalKept(log, drain.terminal, drain.since)
    BY DEF IInv, KeptInv
  <2>2. ReplayOf(log', kept, Place, Horizon)
    BY <2>1, <1>1, <1>2, <1>4, ReplayGrows
  <2>3. ProgressOf(log', kept.progress, kept.cursor)
    <3>1. kept.cursor <= Len(log)
      BY <1>3, <1>4
    <3> QED BY <2>1, <3>1, <1>1, <1>2, <1>4, ProgressGrows
  <2>4. ASSUME drain.pc # "idle" PROVE ProgressOf(log', drain.progress, drain.since)
    <3>1. drain.since <= Len(log)
      BY <2>4, <1>4
    <3> QED BY <2>1, <2>4, <3>1, <1>1, <1>2, <1>4, ProgressGrows
  <2>5. ASSUME drain.pc # "idle" PROVE TerminalKept(log', drain.terminal, drain.since)
    <3>1. drain.since <= Len(log) /\ TerminalKept(log, drain.terminal, drain.since)
      BY <2>1, <2>5, <1>4
    <3> QED BY <3>1, <1>3, <1>4 DEF TerminalKept
  <2> QED BY <2>2, <2>3, <2>4, <2>5, <1>2, <1>4 DEF KeptInv
<1>9. ObsInv'
  <2>1. obs.upto \in Nat /\ obs.upto <= Len(log) /\ obs.terminal \in Verdict
    BY DEF IInv, ObsInv
  <2>2. Prefix' = Prefix /\ \A i \in Prefix : log'[i] = log[i]
    BY <2>1, <1>2, <1>3 DEF Prefix
  <2>3. ObservedIsReplay'
    <3>1. ASSUME obs.known PROVE ObservedIsReplay'
      <4>1. ObservedIsReplay
        BY DEF IInv, ObsInv
      <4>2. {s \in Scope : /\ \E i \in Prefix : log'[i] = [kind |-> "wanted", scope |-> s]
                           /\ \A i \in Prefix : log'[i] # [kind |-> "released", scope |-> s]}
            = {s \in Scope : /\ \E i \in Prefix : log[i] = [kind |-> "wanted", scope |-> s]
                             /\ \A i \in Prefix : log[i] # [kind |-> "released", scope |-> s]}
        BY <2>2
      <4> QED BY <4>1, <4>2, <3>1, <2>2, <1>2 DEF ObservedIsReplay
    <3> QED BY <3>1, <1>2 DEF ObservedIsReplay
  <2>4. ObservationIsComplete'
    BY <1>2 DEF IInv, ObsInv, ObservationIsComplete
  <2>5. EnvelopeVerdictWins'
    BY <2>2, <1>2 DEF IInv, ObsInv, EnvelopeVerdictWins
  <2>6. obs'.upto <= Len(log')
    BY <2>1, <1>2, <1>3
  <2> QED BY <2>1, <2>3, <2>4, <2>5, <2>6, <1>2 DEF ObsInv
<1> QED BY <1>5, <1>6, <1>7, <1>8, <1>9 DEF IInv

-----------------------------------------------------------------------------
(* The observation.  At the end of a drain the place is the horizon, and   *)
(* what is kept of the scopes is their state in the log.                   *)
LEMMA ActiveIsReplay ==
  ASSUME ObserverType, NEW p \in Nat, p <= Len(log), ReplayOf(log, kept, p, p)
  PROVE  ActiveProvisions(kept.lifecycle)
           = {<<"provisioned", s>> : s \in
                {s \in Scope : /\ \E i \in 1 .. p : log[i] = [kind |-> "wanted", scope |-> s]
                               /\ \A i \in 1 .. p : log[i] # [kind |-> "released", scope |-> s]}}
<1> DEFINE history == kept.lifecycle
           Open(s) == /\ \E i \in 1 .. p : log[i] = [kind |-> "wanted", scope |-> s]
                      /\ \A i \in 1 .. p : log[i] # [kind |-> "released", scope |-> s]
<1>1. /\ history \in Seq(LifecycleRecord) /\ DOMAIN history = 1 .. Len(history)
      /\ Len(history) \in Nat
      /\ log \in Seq(EventRecord) /\ DOMAIN log = 1 .. Len(log) /\ Len(log) \in Nat
      /\ \A i \in 1 .. p : i \in DOMAIN log
  BY DEF ObserverType, KeptRecord
<1>2. \A n \in DOMAIN history : history[n] \in LifecycleRecord
  BY <1>1
<1>3. \A n \in DOMAIN history : history[n].adapter = "provisioned"
  BY DEF ReplayOf, Sourced
<1>4. \A i \in DOMAIN log : log[i] \in EventRecord
  BY <1>1
<1>5. \A i \in DOMAIN log, k \in Kind, s \in Scope :
        log[i] = [kind |-> k, scope |-> s] <=> log[i].kind = k /\ log[i].scope = s
  BY <1>4 DEF EventRecord
<1> HIDE DEF history
<1>6. \A n \in DOMAIN history : history[n].event = "wanted" /\ ~ReleasedAfter(history, n)
                                => history[n].scope \in Scope /\ Open(history[n].scope)
  <2> SUFFICES ASSUME NEW n \in DOMAIN history, history[n].event = "wanted",
                      ~ReleasedAfter(history, n)
               PROVE  history[n].scope \in Scope /\ Open(history[n].scope)
    OBVIOUS
  <2> DEFINE s == history[n].scope
  <2>1. s \in Scope
    BY <1>2 DEF LifecycleRecord
  <2>2. PICK i \in DOMAIN log : i <= p /\ log[i].kind = "wanted" /\ log[i].scope = s
    BY DEF ReplayOf, Sourced, history
  <2>3. i \in 1 .. p /\ log[i] = [kind |-> "wanted", scope |-> s]
    BY <2>1, <2>2, <1>1, <1>5 DEF Kind
  <2>4. ASSUME NEW j \in 1 .. p, log[j] = [kind |-> "released", scope |-> s] PROVE FALSE
    <3>1. log[j].kind = "released" /\ log[j].scope = s
      BY <2>4
    <3>2. LastIs(history, s, "released")
      BY <3>1 DEF ReplayOf, ReleasesKept, history
    <3>3. PICK m \in DOMAIN history :
            /\ history[m].event = "released" /\ history[m].scope = s
            /\ \A x \in DOMAIN history : x > m /\ history[x].scope = s => history[x].event = "released"
      BY <3>2 DEF LastIs
    <3>4. m > n
      BY <3>3, <1>1
    <3>5. ScopeKey(history[m]) = ScopeKey(history[n])
      BY <3>3, <1>3 DEF ScopeKey, history
    <3> QED BY <3>3, <3>4, <3>5 DEF ReleasedAfter
  <2> QED BY <2>1, <2>3, <2>4
<1>7. \A s \in Scope : Open(s) => \E n \in DOMAIN history :
        history[n].event = "wanted" /\ history[n].scope = s /\ ~ReleasedAfter(history, n)
  <2> SUFFICES ASSUME NEW s \in Scope, Open(s)
               PROVE  \E n \in DOMAIN history :
                        history[n].event = "wanted" /\ history[n].scope = s /\ ~ReleasedAfter(history, n)
    OBVIOUS
  <2>1. PICK i \in 1 .. p : log[i].kind = "wanted" /\ log[i].scope = s
    OBVIOUS
  <2>2. ~ReleasedWithin(log, s, 0, p) /\ ~ReleasedWithin(log, s, p, p)
    BY <1>1, <1>5 DEF ReleasedWithin, Kind
  <2>3. LastIs(history, s, "wanted")
    BY <2>1, <2>2 DEF ReplayOf, WantsKept, history
  <2>4. PICK n \in DOMAIN history :
          /\ history[n].event = "wanted" /\ history[n].scope = s
          /\ \A x \in DOMAIN history : x > n /\ history[x].scope = s => history[x].event = "wanted"
    BY <2>3 DEF LastIs
  <2>5. ~ReleasedAfter(history, n)
    BY <2>4 DEF ReleasedAfter, ScopeKey
  <2> QED BY <2>4, <2>5
<1>8. \A n \in DOMAIN history : ScopeKey(history[n]) = <<"provisioned", history[n].scope>>
  BY <1>3 DEF ScopeKey, history
<1>9. ActiveProvisions(history) = {<<"provisioned", s>> : s \in {s \in Scope : Open(s)}}
  <2> HIDE DEF Open
  <2>1. ActiveProvisions(history) \subseteq {<<"provisioned", s>> : s \in {s \in Scope : Open(s)}}
    BY <1>6, <1>8 DEF ActiveProvisions
  <2>2. {<<"provisioned", s>> : s \in {s \in Scope : Open(s)}} \subseteq ActiveProvisions(history)
    BY <1>7, <1>8 DEF ActiveProvisions
  <2> QED BY <2>1, <2>2
<1> QED BY <1>9 DEF history

\* The pass hands over what it has: all of it is the replay up to the place.
LEMMA ReadRecordObserves ==
  ASSUME IInv, ReadRecord
  PROVE  ObsInv'
<1> DEFINE p == drain.since
<1>1. /\ p \in Nat /\ Len(log) \in Nat /\ drain.terminal \in Envelope /\ drain.owed \in Nat
      /\ DOMAIN log = 1 .. Len(log)
  BY PlacesAreNumbers DEF IInv
<1>2. drain.pc = "record" /\ UNCHANGED <<log, record, kept>>
  BY DEF ReadRecord, castleVars
<1>3. /\ p <= Len(log) /\ p = kept.cursor /\ SmallerOf(drain.owed, Budget) <= p
      /\ Place = p /\ Horizon = p
  BY <1>2 DEF IInv, DrainInv, Place, Horizon
<1>4. /\ ReplayOf(log, kept, p, p) /\ ProgressOf(log, drain.progress, p)
      /\ TerminalKept(log, drain.terminal, p)
  BY <1>2, <1>3 DEF IInv, KeptInv
<1>5. CASE UNCHANGED obs
  BY <1>2, <1>5, ObsStands DEF IInv
<1>6. CASE \E read \in BOOLEAN :
             obs' = [known |-> TRUE, upto |-> drain.since, owed |-> drain.owed,
                     active |-> ActiveProvisions(kept.lifecycle),
                     terminal |-> IF read THEN Enriched(drain.terminal) ELSE drain.terminal,
                     progress |-> drain.progress, steps |-> kept.steps]
  <2>1. PICK read \in BOOLEAN :
          obs' = [known |-> TRUE, upto |-> drain.since, owed |-> drain.owed,
                  active |-> ActiveProvisions(kept.lifecycle),
                  terminal |-> IF read THEN Enriched(drain.terminal) ELSE drain.terminal,
                  progress |-> drain.progress, steps |-> kept.steps]
    BY <1>6
  <2> DEFINE verdict == IF read THEN Enriched(drain.terminal) ELSE drain.terminal
  <2>2. /\ verdict \in Verdict
        /\ verdict \in {"recordSucceeded", "recordFailed"} => drain.terminal = "none"
    BY <1>1 DEF Enriched, RecordVerdict, Verdict, Envelope
  <2>3. /\ obs'.upto = p /\ obs'.owed = drain.owed /\ obs'.terminal = verdict
        /\ obs'.active = ActiveProvisions(kept.lifecycle)
        /\ obs'.progress = drain.progress /\ obs'.steps = kept.steps
    BY <2>1
  <2> HIDE DEF verdict
  <2>4. Prefix' = 1 .. p
    BY <2>3 DEF Prefix
  <2>5. ObservedIsReplay'
    <3>1. (obs.active)' = {<<"provisioned", s>> : s \in
             {s \in Scope : /\ \E i \in 1 .. p : log[i] = [kind |-> "wanted", scope |-> s]
                            /\ \A i \in 1 .. p : log[i] # [kind |-> "released", scope |-> s]}}
      <4>1. ObserverType
        BY DEF IInv
      <4> QED BY <4>1, <2>3, <1>1, <1>3, <1>4, ActiveIsReplay
    <3>2. \A i \in 1 .. p : log[i].kind = "outcome" =>
            i <= drain.progress /\ \E n \in DOMAIN kept.steps : kept.steps[n] = i
      BY <1>4 DEF ProgressOf, ReplayOf, StepsKept
    <3>3. drain.progress # 0 => drain.progress \in 1 .. p /\ IsProgress(log[drain.progress].kind)
      BY <1>4 DEF ProgressOf
    <3> QED BY <3>1, <3>2, <3>3, <2>3, <2>4, <1>2 DEF ObservedIsReplay
  <2>6. ObservationIsComplete'
    BY <1>1, <1>3, <2>3 DEF ObservationIsComplete, Budget, SmallerOf
  <2>7. EnvelopeVerdictWins'
    BY <1>2, <1>4, <2>2, <2>3, <2>4 DEF EnvelopeVerdictWins, TerminalKept
  <2>8. (obs.upto)' \in Nat /\ (obs.upto)' <= Len(log') /\ (obs.terminal)' \in Verdict
    BY <1>1, <1>2, <1>3, <2>2, <2>3
  <2> QED BY <2>5, <2>6, <2>7, <2>8 DEF ObsInv
<1> QED BY <1>5, <1>6 DEF ReadRecord

LEMMA ReadRecordKeeps ==
  ASSUME IInv, ReadRecord
  PROVE  IInv'
<1>1. drain.pc = "record" /\ drain' = Idle /\ UNCHANGED <<log, record, kept>>
  BY DEF ReadRecord, castleVars
<1>2. drain' \in DrainRecord /\ drain'.pc = "idle" /\ drain'.since = 0
  BY <1>1 DEF Idle, DrainRecord, Envelope
<1>3. /\ kept.cursor \in Nat /\ Budget \in Nat /\ Len(log) \in Nat
      /\ log \in Seq(EventRecord) /\ kept \in KeptRecord /\ DOMAIN log = 1 .. Len(log)
  BY PlacesAreNumbers DEF IInv, ObserverType
<1>4. /\ Place = kept.cursor /\ Horizon = kept.cursor /\ kept.cursor <= Len(log)
      /\ Place' = kept.cursor /\ Horizon' = kept.cursor + Budget
  BY <1>1, <1>2 DEF IInv, DrainInv, Place, Horizon, Budget
<1>5. ReplayOf(log, kept, kept.cursor, kept.cursor + Budget)
  <2>1. ReplayOf(log, kept, kept.cursor, kept.cursor)
    BY <1>4 DEF IInv, KeptInv
  <2> DEFINE g == kept.cursor + Budget
  <2>2. g \in Nat /\ kept.cursor <= kept.cursor /\ \A i \in DOMAIN log : i <= kept.cursor => i <= g
    BY <1>3
  <2> HIDE DEF g
  <2>3. ReplayOf(log, kept, kept.cursor, g)
    BY <2>1, <2>2, <1>3, <1>4, ReplayMoves
  <2> QED BY <2>3 DEF g
<1>6. ObserverType' /\ LogInv'
  BY <1>1, <1>2 DEF IInv, ObserverType, LogInv
<1>7. DrainInv'
  BY <1>1, <1>2, <1>3, <1>4 DEF DrainInv
<1>8. KeptInv'
  BY <1>1, <1>2, <1>4, <1>5 DEF IInv, KeptInv
<1> QED BY <1>6, <1>7, <1>8, ReadRecordObserves DEF IInv

-----------------------------------------------------------------------------
LEMMA StepsKeep ==
  ASSUME IInv, [Next]_vars
  PROVE  IInv'
<1>1. CASE UNCHANGED vars
  <2>1. UNCHANGED <<log, record, kept, drain, obs>>
    BY <1>1 DEF vars, castleVars
  <2>2. ObserverType' /\ LogInv'
    BY <2>1 DEF IInv, ObserverType, LogInv
  <2>3. Place' = Place /\ Horizon' = Horizon
    BY <2>1 DEF Place, Horizon, Budget
  <2>4. DrainInv'
    BY <2>1, <2>3 DEF IInv, DrainInv, Budget
  <2>5. KeptInv'
    BY <2>1, <2>3 DEF IInv, KeptInv
  <2>6. ObsInv'
    BY <2>1, ObsStands DEF IInv
  <2> QED BY <2>2, <2>4, <2>5, <2>6 DEF IInv
<1>2. CASE Observe
  BY <1>2, StartDrainKeeps, FetchPageKeeps, FoldEventKeeps, NextPageKeeps, EndDrainKeeps,
     PageFailsKeeps, ReadRecordKeeps DEF Observe
<1> QED BY <1>1, <1>2, RestartOperatorKeeps, EmitKeeps, CloseRecordKeeps DEF Next

-----------------------------------------------------------------------------
(* The steps.  Only a failed page makes the client fold an event again, so *)
(* without one the steps kept are in the order of the log, none from       *)
(* beyond the place of the drain.                                          *)
InOrder(steps) == \A m, n \in DOMAIN steps : m < n => steps[m] < steps[n]
StepsInv ==
  /\ faults \in Nat
  /\ faults = 0 => /\ InOrder(kept.steps) /\ \A n \in DOMAIN kept.steps : kept.steps[n] <= Place
                   /\ InOrder(obs.steps)

LEMMA InOrderAppended ==
  ASSUME NEW steps \in Seq(Nat), InOrder(steps), NEW p \in Nat, NEW e \in Nat, p < e,
         \A n \in DOMAIN steps : steps[n] <= p
  PROVE  /\ InOrder(Append(steps, e))
         /\ \A n \in DOMAIN Append(steps, e) : Append(steps, e)[n] <= e
<1> DEFINE longer == Append(steps, e)
<1>1. /\ DOMAIN longer = 1 .. Len(steps) + 1 /\ DOMAIN steps = 1 .. Len(steps)
      /\ Len(steps) \in Nat /\ longer[Len(steps) + 1] = e
      /\ \A n \in 1 .. Len(steps) : longer[n] = steps[n] /\ steps[n] \in Nat
  OBVIOUS
<1> HIDE DEF longer
<1>2. \A n \in DOMAIN longer : longer[n] <= e
  BY <1>1
<1>3. InOrder(longer)
  BY <1>1 DEF InOrder
<1> QED BY <1>2, <1>3 DEF longer

\* The steps stand while the place does not go back.
LEMMA StepsStand ==
  ASSUME IInv, IInv', StepsInv, faults' \in Nat, faults' = 0 => faults = 0,
         faults' = 0 => /\ (kept.steps)' = kept.steps /\ Place <= Place'
                        /\ (obs.steps)' \in {obs.steps, kept.steps, <<>>}
  PROVE  StepsInv'
<1> SUFFICES ASSUME faults' = 0
             PROVE  /\ InOrder(kept.steps)' /\ (\A n \in DOMAIN kept.steps : kept.steps[n] <= Place)'
                    /\ InOrder(obs.steps)'
  BY DEF StepsInv
<1>1. /\ InOrder(kept.steps) /\ InOrder(obs.steps)
      /\ \A n \in DOMAIN kept.steps : kept.steps[n] <= Place
  BY DEF StepsInv
<1>2. InOrder(<<>>)
  BY DEF InOrder
<1>3. InOrder((kept.steps)') /\ InOrder((obs.steps)')
  BY <1>1, <1>2
<1>4. Place \in Nat /\ Place' \in Nat /\ Place <= Place' /\ (kept.steps)' = kept.steps
  BY DEF IInv, ObserverType, KeptRecord, DrainRecord, Place
<1>5. \A n \in DOMAIN kept.steps : kept.steps[n] \in Nat
  BY DEF IInv, ObserverType, KeptRecord
<1>6. (\A n \in DOMAIN kept.steps : kept.steps[n] <= Place)'
  BY <1>1, <1>4, <1>5
<1> QED BY <1>3, <1>6 DEF InOrder

LEMMA StepsStayInOrder ==
  ASSUME IInv, IInv', StepsInv, [Next]_vars
  PROVE  StepsInv'
<1>0. faults \in Nat /\ Place \in Nat /\ Place' \in Nat /\ kept.cursor \in Nat /\ drain.since \in Nat
  <2>1. faults \in Nat /\ Place \in Nat /\ kept.cursor \in Nat /\ drain.since \in Nat
    BY PlacesAreNumbers DEF IInv, StepsInv
  <2>2. Place' \in Nat
    BY DEF IInv, ObserverType, KeptRecord, DrainRecord, Place
  <2> QED BY <2>1, <2>2
<1>1. ASSUME UNCHANGED <<kept, drain, obs, faults>> PROVE StepsInv'
  <2>1. Place' = Place
    BY <1>1 DEF Place
  <2> QED BY <1>0, <1>1, <2>1, StepsStand
<1>2. CASE StartDrain
  <2>1. Place' = Place /\ UNCHANGED <<kept, faults>> /\ (obs.steps)' = <<>>
    BY <1>2 DEF StartDrain, Place, budgets, NoObservation
  <2> QED BY <1>0, <2>1, StepsStand
<1>3. CASE FetchPage
  <2>1. drain.pc = "page" /\ drain'.pc # "idle" /\ drain'.since = drain.since
    <3>1. drain \in DrainRecord /\ IsLastPage \in BOOLEAN
      BY DEF IInv, ObserverType, IsLastPage
    <3>2. CASE IsLastPage
      BY <1>3, <3>1, <3>2 DEF FetchPage, DrainRecord
    <3>3. CASE ~IsLastPage
      BY <1>3, <3>1, <3>3 DEF FetchPage, DrainRecord
    <3> QED BY <3>2, <3>3
  <2>2. Place' = Place /\ UNCHANGED <<kept, obs, faults>>
    BY <1>3, <2>1 DEF FetchPage, Place, NoFault, budgets
  <2> QED BY <1>0, <2>2, StepsStand
<1>4. CASE FoldEvent
  <2> DEFINE n == drain.since + 1
  <2>1. /\ drain.pc # "idle" /\ drain'.pc # "idle" /\ drain'.since = n
        /\ kept' = Fold(kept, n) /\ UNCHANGED <<obs, faults>>
    <3>1. drain \in DrainRecord
      BY DEF IInv, ObserverType
    <3> QED BY <1>4, <3>1 DEF FoldEvent, Folding, DrainRecord, budgets
  <2>2. Place = drain.since /\ Place' = n
    BY <2>1 DEF Place
  <2>3. kept \in KeptRecord /\ kept.steps \in Seq(Nat)
    BY DEF IInv, ObserverType, KeptRecord
  <2>4. (kept.steps)' \in {kept.steps, Append(kept.steps, n)}
    <3>1. Fold(kept, n).steps \in {kept.steps, Append(kept.steps, n)}
      BY <2>3 DEF Fold, KeptRecord
    <3> QED BY <2>1, <3>1
  <2>5. CASE (kept.steps)' = kept.steps
    BY <1>0, <2>1, <2>2, <2>5, StepsStand
  <2>6. CASE (kept.steps)' = Append(kept.steps, n)
    <3> SUFFICES ASSUME faults = 0
                 PROVE  /\ InOrder(kept.steps)' /\ (\A m \in DOMAIN kept.steps : kept.steps[m] <= Place)'
                        /\ InOrder(obs.steps)'
      BY <1>0, <2>1 DEF StepsInv
    <3>1. /\ InOrder(kept.steps) /\ InOrder(obs.steps)
          /\ \A m \in DOMAIN kept.steps : kept.steps[m] <= drain.since
      BY <2>2 DEF StepsInv
    <3>2. n \in Nat /\ drain.since < n
      BY <1>0
    <3> HIDE DEF n
    <3>3. /\ InOrder(Append(kept.steps, n))
          /\ \A m \in DOMAIN Append(kept.steps, n) : Append(kept.steps, n)[m] <= n
      BY <1>0, <2>3, <3>1, <3>2, InOrderAppended
    <3> QED BY <2>1, <2>2, <2>6, <3>1, <3>3 DEF InOrder
  <2> QED BY <2>4, <2>5, <2>6
<1>5. CASE NextPage
  <2>1. drain.pc # "idle" /\ drain'.pc # "idle" /\ drain'.since = drain.since
    <3>1. drain \in DrainRecord
      BY DEF IInv, ObserverType
    <3> QED BY <1>5, <3>1 DEF NextPage, DrainRecord
  <2>2. Place' = Place /\ UNCHANGED <<kept, obs, faults>>
    BY <1>5, <2>1 DEF NextPage, Place, budgets
  <2> QED BY <1>0, <2>2, StepsStand
<1>6. CASE EndDrain
  <2>1. drain.pc # "idle" /\ drain'.pc # "idle" /\ drain'.since = drain.since
        /\ UNCHANGED <<obs, faults>> /\ (kept.steps)' = kept.steps
    <3>1. drain \in DrainRecord /\ kept \in KeptRecord
      BY DEF IInv, ObserverType
    <3> QED BY <1>6, <3>1 DEF EndDrain, CloseDrain, DrainRecord, KeptRecord, budgets
  <2>2. Place' = Place
    BY <2>1 DEF Place
  <2> QED BY <1>0, <2>1, <2>2, StepsStand
<1>7. CASE PageFails
  <2>1. faults' = faults + 1
    BY <1>7 DEF PageFails, Fault
  <2> QED BY <1>0, <2>1 DEF StepsInv
<1>8. CASE ReadRecord
  <2>1. /\ drain.pc = "record" /\ drain'.pc = "idle" /\ UNCHANGED kept
        /\ faults' \in {faults, faults + 1}
        /\ (obs.steps)' \in {obs.steps, kept.steps}
    BY <1>8 DEF ReadRecord, Idle, Fault, NoFault, budgets
  <2>2. Place = drain.since /\ Place' = kept.cursor /\ drain.since = kept.cursor
    BY <2>1 DEF Place, IInv, DrainInv
  <2>3. faults' \in Nat /\ (faults' = 0 => faults = 0)
    BY <1>0, <2>1
  <2> QED BY <1>0, <2>1, <2>2, <2>3, StepsStand
<1>9. CASE RestartOperator
  <2>1. (kept.steps)' = <<>> /\ (obs.steps)' = <<>> /\ UNCHANGED faults
    BY <1>9 DEF RestartOperator, Fresh, NoObservation
  <2> QED BY <1>0, <2>1 DEF StepsInv, InOrder
<1>10. CASE Emit \/ CloseRecord
  BY <1>1, <1>10 DEF Emit, CloseRecord, budgets
<1>11. CASE UNCHANGED vars
  BY <1>1, <1>11 DEF vars, castleVars, budgets
<1> QED BY <1>2, <1>3, <1>4, <1>5, <1>6, <1>7, <1>8, <1>9, <1>10, <1>11 DEF Next, Observe

LEMMA InitStepsInOrder == Init => StepsInv
BY DEF Init, StepsInv, Fresh, NoObservation, InOrder

-----------------------------------------------------------------------------
LEMMA GoodIsInv == IInv /\ StepsInv => Inv
<1> SUFFICES ASSUME IInv, StepsInv PROVE Inv
  OBVIOUS
<1>1. /\ Len(log) \in Nat /\ kept.cursor \in Nat /\ drain.since \in Nat
      /\ kept.terminal \in Envelope /\ DOMAIN log = 1 .. Len(log)
      /\ log \in Seq(EventRecord)
  BY PlacesAreNumbers DEF IInv, ObserverType
<1>2. \A i \in DOMAIN log : log[i].kind \in Kind /\ log[i].scope \in Scope
  <2>1. \A i \in DOMAIN log : log[i] \in EventRecord
    BY <1>1
  <2> QED BY <2>1 DEF EventRecord
<1>3. kept.cursor <= Len(log) /\ drain.since <= Len(log)
  <2>1. /\ kept.cursor <= Place /\ Place <= Len(log)
        /\ IF drain.pc = "idle" THEN drain.since = 0 ELSE Place = drain.since
    BY DEF IInv, DrainInv, Place
  <2>2. Place \in Nat
    BY PlacesAreNumbers DEF IInv
  <2> QED BY <2>1, <2>2, <1>1
<1>4. kept.terminal \in Verdict /\ record \in {"running", "succeeded", "failed", "cancelled"}
  BY <1>1 DEF IInv, ObserverType, Status, Envelope, Verdict
<1>5. TypeOK
  BY <1>1, <1>2, <1>3, <1>4 DEF TypeOK, IInv, ObsInv
<1>6. faults = 0 => StepsInStreamOrder
  BY DEF StepsInv, InOrder, StepsInStreamOrder
<1> QED BY <1>5, <1>6 DEF Inv, IInv, ObsInv

(* CRI-132, KB-24: whatever pages, failed passes, restarts and events in   *)
(* between led to it, what Observe hands the controller is the replay of   *)
(* the events it covers: the adapter scopes to keep, the newest progress   *)
(* and every step outcome; it covers what castle had when the drain began  *)
(* or the whole page budget; a verdict from the run record means that no   *)
(* event of that history is terminal; and until a call fails the steps are *)
(* in stream order, each once.                                             *)
THEOREM ObservationsAreReplays == Spec => []Inv
<1>1. Init => IInv /\ StepsInv
  BY InitIsGood, InitStepsInOrder
<1>2. IInv /\ StepsInv /\ [Next]_vars => IInv' /\ StepsInv'
  BY StepsKeep, StepsStayInOrder
<1> QED BY <1>1, <1>2, GoodIsInv, PTL DEF Spec
=============================================================================
