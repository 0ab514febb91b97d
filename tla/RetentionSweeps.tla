---------------------------- MODULE RetentionSweeps ----------------------------
(***************************************************************************)
(* The two sweep loops that delete from the cluster on the operator's own  *)
(* initiative: the retention of CriteriaRuns with its orphan verify        *)
(* (crretention.go) and the adapter sweep (adaptersweep.go), beside the    *)
(* one-shot archive backfill (backfill_archive.go).  Each works from a     *)
(* list it made earlier, reads again before some of its deletes, and       *)
(* deletes by name; the reconciler, users and the garbage collector work   *)
(* between any two of its calls.  Both use an uncached client.             *)
(***************************************************************************)
EXTENDS Naturals, Sequences, FiniteSets

CONSTANTS
  Name,        \* names of CriteriaRuns; deleted runs leave theirs free
  Ticket,      \* Ticket[n]: the ticket family of a run named n
  Obj,         \* child objects, named after the run they are made for
  RunOf,       \* RunOf[o]: that run's name, also the run label of the object
  Adapter,     \* the objects of the adapter role; the others are runner Jobs
  KeepLast,    \* the newest ended runs of a family the retention spares
  MidPass,     \* a name is used again between a list and the deletes it led to
  Scenes       \* the bounds of each instance: runs, times, children, faults

ASSUME SweepsAssumption ==
  /\ Ticket \in [Name -> STRING] /\ RunOf \in [Obj -> Name] /\ Adapter \subseteq Obj
  /\ KeepLast \in Nat /\ MidPass \in BOOLEAN
  /\ \A s \in Scenes : {s.runs, s.time, s.faults} \subseteq Nat /\ s.objs \subseteq Obj

VARIABLES
  run,      \* every CriteriaRun there ever was; the position is its UID
  obj,      \* obj[o]: the UID in its ownerReference, Unowned, or Absent
  cutoff,   \* terminal times up to this one are past the retention window
  keeper,   \* the retention pass: what it listed and has left to do
  reaper,   \* the adapter pass
  faults,
  scene     \* the bounds chosen at the start

vars == <<run, obj, cutoff, keeper, reaper, faults, scene>>

Absent == 0 - 1
Unowned == 0
Uid == DOMAIN run
Uids == UNION {1..s.runs : s \in Scenes}
Here(u) == run[u].life # "gone"
Terminal(u) == run[u].phase = "terminal"
\* What a Get by name finds, 0 for NotFound.
Named(n) == IF \E u \in Uid : Here(u) /\ run[u].name = n
            THEN CHOOSE u \in Uid : Here(u) /\ run[u].name = n ELSE 0
KeeperIdle == [pc |-> "idle", snapshot |-> {}, parked |-> {}, doomed |-> {}, listed |-> << >>, todo |-> {}, orphan |-> {}]
ReaperIdle == [pc |-> "idle", listed |-> << >>, todo |-> {}, verdict |-> << >>]

Fault == faults < scene.faults /\ faults' = faults + 1 /\ UNCHANGED scene
NoFault == UNCHANGED <<faults, scene>>
Sweepers == <<keeper, reaper>>

-----------------------------------------------------------------------------
(* The rest of the cluster. *)
SetRun(u, r) == run' = [run EXCEPT ![u] = r] /\ UNCHANGED <<obj, cutoff, Sweepers, faults, scene>>

Times == IF scene.time = 0 THEN {} ELSE 0..scene.time
Busy == keeper.pc # "idle" \/ reaper.pc # "idle"
NameFree(o) == /\ o \in scene.objs /\ obj[o] = Absent
               /\ MidPass \/ o \notin DOMAIN keeper.listed \cup DOMAIN reaper.listed

CreateRun(n) ==
  /\ Len(run) < scene.runs /\ Named(n) = 0
  /\ MidPass \/ ~Busy \/ \A u \in Uid : run[u].name # n
  /\ run' = Append(run, [name |-> n, phase |-> "active", at |-> 0, archive |-> "none",
                         parked |-> FALSE, life |-> "here", by |-> "none"])
  /\ UNCHANGED <<obj, cutoff, Sweepers, faults, scene>>

\* The reconciler and the pods of a run; an object of that name must be gone.
CreateChild(o) ==
  LET u == Named(RunOf[o])
  IN /\ NameFree(o) /\ u # 0 /\ run[u].phase = "active" /\ run[u].life = "here"
     /\ obj' = [obj EXCEPT ![o] = u]
     /\ UNCHANGED <<run, cutoff, Sweepers, faults, scene>>

\* An adapter somebody launches by hand: labelled, without an ownerReference.
LaunchByHand(o) ==
  /\ o \in Adapter /\ NameFree(o)
  /\ obj' = [obj EXCEPT ![o] = Unowned]
  /\ UNCHANGED <<run, cutoff, Sweepers, faults, scene>>

\* The phase turns terminal.  stampTerminalAt pins the time in that write:
\* castle's, which may lie in the past, or the clock's; a run that ended
\* under an operator without stamps has none.  A verdict that is there already
\* may park it.
Terminate(u) ==
  /\ run[u].phase = "active" /\ Here(u)
  /\ \E t \in Times, p \in BOOLEAN :
       SetRun(u, [run[u] EXCEPT !.phase = "terminal", !.at = t, !.parked = p])

\* The next reconcile of such a run, castle's record telling the true time.
StampLate(u) ==
  /\ Terminal(u) /\ Here(u) /\ run[u].at = 0
  /\ \E t \in Times \ {0} : SetRun(u, [run[u] EXCEPT !.at = t])

\* A verdict that castle delivers to a run whose Job ended it: a later pass of
\* the terminal branch stamps finalState, archived or not.
StampVerdict(u) ==
  /\ Terminal(u) /\ run[u].life = "here" /\ ~run[u].parked
  /\ SetRun(u, [run[u] EXCEPT !.parked = TRUE])

\* The archive gate of the reconciler's terminal pass, and of the backfill,
\* which takes the runs without an archive id: pending is one of them.
Archive(u) ==
  /\ Terminal(u) /\ Here(u) /\ run[u].archive # "stored"
  /\ SetRun(u, [run[u] EXCEPT !.archive = "stored"])
ArchiveFails(u) ==
  /\ Terminal(u) /\ Here(u) /\ run[u].archive = "none"
  /\ SetRun(u, [run[u] EXCEPT !.archive = "pending"])

DeleteByHand(u) ==
  /\ run[u].life = "here"
  /\ \E l \in {"deleting", "gone"} :      \* gone: forced, the finalizer skipped
       SetRun(u, [run[u] EXCEPT !.life = l, !.by = "user"])

\* The finalizer deletes the runner Job and lets the run go.
Finalize(u) ==
  /\ run[u].life = "deleting"
  /\ run' = [run EXCEPT ![u].life = "gone"]
  /\ obj' = [o \in Obj |-> IF o \notin Adapter /\ RunOf[o] = run[u].name THEN Absent ELSE obj[o]]
  /\ UNCHANGED <<cutoff, Sweepers, faults, scene>>

\* Kubernetes' garbage collector, whenever it comes round to it.
Collect(o) ==
  /\ obj[o] \in Uid /\ ~Here(obj[o])
  /\ obj' = [obj EXCEPT ![o] = Absent]
  /\ UNCHANGED <<run, cutoff, Sweepers, faults, scene>>

TimePasses ==
  /\ cutoff < scene.time /\ cutoff' = cutoff + 1
  /\ UNCHANGED <<run, obj, Sweepers, faults, scene>>

-----------------------------------------------------------------------------
(* The retention of CriteriaRuns. *)
Keep(k) == keeper' = k /\ UNCHANGED reaper

\* The order within a family: newest first, unstamped last, then by age and name.
Above(v, u) == \/ run[v].at > run[u].at
               \/ run[v].at = run[u].at /\ v > u
Kept(u) == Cardinality({v \in Uid : Here(v) /\ Terminal(v) /\ Above(v, u)
                                    /\ Ticket[run[v].name] = Ticket[run[u].name]}) < KeepLast

OldEnough(u) == run[u].at # 0 /\ run[u].at <= cutoff
EndedAndOld(u) == Terminal(u) /\ OldEnough(u) /\ ~Kept(u)   \* mutant: archive and parking ignored
Disposable(u) ==
  /\ Terminal(u) /\ ~run[u].parked /\ run[u].archive = "stored"
  /\ OldEnough(u) /\ ~Kept(u) /\ run[u].life # "deleting"

\* One list, every decision from it; a failed list ends the pass.  What it
\* showed as parked is remembered for ParkedIsKept alone.
ListRuns ==
  /\ keeper.pc = "idle"
  /\ LET live == {u \in Uid : Here(u)}
     IN Keep([KeeperIdle EXCEPT !.pc = "delete", !.snapshot = live,
                                !.parked = {u \in live : run[u].parked},
                                !.doomed = {u \in live : Disposable(u)}])
  /\ NoFault /\ UNCHANGED <<run, obj, cutoff>>

\* Delete by name, without a precondition on the UID.
DeleteRun(u) ==
  /\ keeper.pc = "delete" /\ u \in keeper.doomed
  /\ Keep([keeper EXCEPT !.doomed = @ \ {u}])
  /\ \/ /\ NoFault
        /\ LET v == Named(run[u].name)
           IN run' = IF v # 0 /\ run[v].life = "here"
                     THEN [run EXCEPT ![v].life = "deleting", ![v].by = "sweep"] ELSE run
     \/ Fault /\ UNCHANGED run
  /\ UNCHANGED <<obj, cutoff>>

\* The orphan verify lists the Jobs when the runs are done, then the Pods.
ListChildren ==
  LET kind == IF keeper.pc = "delete" THEN "jobs" ELSE "pods"
      seen == {o \in Obj : obj[o] \in Uid /\ (kind = "pods" <=> o \in Adapter)}
  IN /\ \/ keeper.pc = "delete" /\ keeper.doomed = {}
        \/ keeper.pc = "jobs" /\ keeper.todo = {} /\ keeper.orphan = {}
     /\ \/ NoFault /\ Keep([keeper EXCEPT !.pc = kind, !.parked = {}, !.todo = seen,
                                            !.listed = [o \in seen |-> obj[o]]])
        \/ Fault /\ Keep(KeeperIdle)
     /\ UNCHANGED <<run, obj, cutoff>>

\* Reads the owner by name: alive under the listed UID, a reused name, or
\* gone; one this very pass has listed gets the grace of another pass.
BySnapshot(o) == keeper.listed[o] \notin keeper.snapshot            \* mutant: the owner is not read
ByName(o) == /\ Named(RunOf[o]) = 0                                 \* mutant: the UID is not compared
             /\ keeper.listed[o] \notin keeper.snapshot
Orphan(o) == IF Named(RunOf[o]) # 0 THEN Named(RunOf[o]) # keeper.listed[o]
             ELSE keeper.listed[o] \notin keeper.snapshot

OrphanVerify(o) ==
  /\ keeper.pc \in {"jobs", "pods"} /\ o \in keeper.todo /\ keeper.orphan = {}
  /\ \/ NoFault /\ Keep([keeper EXCEPT !.todo = @ \ {o}, !.orphan = IF Orphan(o) THEN {o} ELSE {}])
     \/ Fault /\ Keep([keeper EXCEPT !.todo = @ \ {o}])             \* unreadable: kept
  /\ UNCHANGED <<run, obj, cutoff>>

DeleteOrphan(o) ==
  /\ o \in keeper.orphan
  /\ Keep([keeper EXCEPT !.orphan = {}])
  /\ \/ NoFault /\ obj' = [obj EXCEPT ![o] = Absent]
     \/ Fault /\ UNCHANGED obj
  /\ UNCHANGED <<run, cutoff>>

KeeperDone ==
  /\ keeper.pc = "pods" /\ keeper.todo = {} /\ keeper.orphan = {}
  /\ Keep(KeeperIdle) /\ NoFault /\ UNCHANGED <<run, obj, cutoff>>

-----------------------------------------------------------------------------
(* The adapter sweep. *)
Reap(r) == reaper' = r /\ UNCHANGED keeper

ListAdapters ==
  /\ reaper.pc = "idle"
  /\ LET seen == {o \in Adapter : obj[o] # Absent}
     IN /\ seen # {}                   \* an empty list ends the pass
        /\ Reap([ReaperIdle EXCEPT !.pc = "sweep", !.todo = seen, !.listed = [o \in seen |-> obj[o]]])
  /\ NoFault /\ UNCHANGED <<run, obj, cutoff>>

\* sweepObject reads the owner, or the run of the label: an owner gone or
\* reborn under the name condemns, a label alone only ever adopts.
Verdict(o) == LET u == Named(RunOf[o])
              IN IF reaper.listed[o] = Unowned THEN IF u # 0 THEN "adopt" ELSE "keep"
                 ELSE IF u = reaper.listed[o] THEN "keep" ELSE "delete"

SweepObject(o) ==
  /\ reaper.pc = "sweep" /\ o \in reaper.todo /\ reaper.verdict = << >>
  /\ \/ NoFault /\ Reap([reaper EXCEPT !.todo = @ \ {o},
                          !.verdict = IF Verdict(o) = "keep" THEN << >>
                                      ELSE <<o, Verdict(o), Named(RunOf[o])>>])
     \/ Fault /\ Reap([reaper EXCEPT !.todo = @ \ {o}])
  /\ UNCHANGED <<run, obj, cutoff>>

DeleteAdapterObject ==
  /\ reaper.verdict # << >> /\ reaper.verdict[2] = "delete"
  /\ Reap([reaper EXCEPT !.verdict = << >>])
  /\ \/ NoFault /\ obj' = [obj EXCEPT ![reaper.verdict[1]] = Absent]
     \/ Fault /\ UNCHANGED obj
  /\ UNCHANGED <<run, cutoff>>

\* An Update: it fails on an object that changed since it was listed.
AdoptObject ==
  /\ reaper.verdict # << >> /\ reaper.verdict[2] = "adopt"
  /\ Reap([reaper EXCEPT !.verdict = << >>])
  /\ \/ /\ NoFault
        /\ obj' = IF obj[reaper.verdict[1]] = Unowned
                  THEN [obj EXCEPT ![reaper.verdict[1]] = reaper.verdict[3]] ELSE obj
     \/ Fault /\ UNCHANGED obj
  /\ UNCHANGED <<run, cutoff>>

ReaperDone ==
  /\ reaper.pc = "sweep" /\ reaper.todo = {} /\ reaper.verdict = << >>
  /\ Reap(ReaperIdle) /\ NoFault /\ UNCHANGED <<run, obj, cutoff>>

-----------------------------------------------------------------------------
Init ==
  /\ run = << >> /\ obj = [o \in Obj |-> Absent] /\ cutoff = 0
  /\ keeper = KeeperIdle /\ reaper = ReaperIdle /\ faults = 0
  /\ scene \in Scenes

RetentionPass ==
  \/ ListRuns \/ (\E u \in Uid : DeleteRun(u)) \/ ListChildren
  \/ (\E o \in Obj : OrphanVerify(o) \/ DeleteOrphan(o)) \/ KeeperDone
AdapterPass ==
  \/ ListAdapters \/ (\E o \in Obj : SweepObject(o))
  \/ DeleteAdapterObject \/ AdoptObject \/ ReaperDone

Next ==
  \/ \E n \in Name : CreateRun(n)
  \/ \E o \in Obj : CreateChild(o) \/ LaunchByHand(o) \/ Collect(o)
  \/ \E u \in Uid : \/ Terminate(u) \/ StampLate(u) \/ StampVerdict(u) \/ Archive(u)
                    \/ ArchiveFails(u) \/ DeleteByHand(u) \/ Finalize(u)
  \/ TimePasses \/ RetentionPass \/ AdapterPass

Spec == Init /\ [][Next]_vars

\* The loops tick, the reconciler runs the finalizer; nothing else must happen,
\* the garbage collector least of all.
FairSpec ==
  /\ Spec /\ WF_vars(RetentionPass) /\ WF_vars(AdapterPass)
  /\ \A u \in Uids : WF_vars(u \in Uid /\ Finalize(u))

-----------------------------------------------------------------------------
TypeOK ==
  /\ scene \in Scenes
  /\ Len(run) <= scene.runs /\ cutoff \in 0..scene.time /\ faults \in 0..scene.faults
  /\ \A u \in Uid : /\ run[u].name \in Name /\ run[u].phase \in {"active", "terminal"}
                    /\ run[u].at \in 0..scene.time /\ run[u].archive \in {"none", "pending", "stored"}
                    /\ run[u].life \in {"here", "deleting", "gone"} /\ run[u].by \in {"none", "user", "sweep"}
                    /\ (run[u].by = "none") <=> (run[u].life = "here")
  /\ obj \in [Obj -> Uid \cup {Unowned, Absent}]
  /\ keeper.doomed \cup keeper.parked \subseteq keeper.snapshot /\ keeper.todo \subseteq Obj
  /\ reaper.todo \subseteq Adapter
  /\ reaper.verdict # << >> => reaper.verdict[2] = "delete" \/ reaper.verdict[3] \in Uid

\* A record the retention destroyed is in castle's archive, its run had ended
\* and was past the window (crretention.go's fail-safe skips).
SweptIsExpendable ==
  \A u \in Uid : run[u].by = "sweep" =>
    Terminal(u) /\ run[u].archive = "stored" /\ OldEnough(u)

\* A run that the list of the pass shows parked for a human is not destroyed
\* by that pass, under no name.  One that is parked behind the list is: the
\* delete carries no precondition (crretention.go:241, 277).
ParkedIsKept ==
  [][\A u \in Uid : run[u].by # "sweep" /\ run'[u].by = "sweep" => u \notin keeper.parked]_vars

\* Whatever else is deleted, stamped late or parked meanwhile, the retention
\* takes a run only when KeepLast of its ticket's runs that ended no earlier
\* are spared by it (the keep-last window of sweep).
NewestAreSpared ==
  \A u \in Uid : run[u].by = "sweep" =>
    Cardinality({v \in Uid : /\ Ticket[run[v].name] = Ticket[run[u].name] /\ v # u
                             /\ run[v].at >= run[u].at /\ run[v].by # "sweep"}) >= KeepLast

\* A sweep deletes an object only when the run that owns it is gone: not one
\* admitted since the lists were made, not one launched by hand (orphanVerify,
\* sweepOwnedObject, adoptByRunLabel).
OnlyOrphansAreReaped ==
  [][keeper' # keeper \/ reaper' # reaper =>
       \A o \in Obj : obj[o] # Absent /\ obj'[o] = Absent => obj[o] \in Uid /\ ~Here(obj[o])]_vars

\* The promise of the orphan verify: a child whose run is gone is reaped, even
\* if the finalizer was skipped and the garbage collector never comes.
OrphansAreReaped ==
  \A o \in Obj : \A u \in Uids :
    (obj[o] = u /\ ~Here(u)) ~> (obj[o] # u)

\* A run past its window, archived, not parked and not among the newest of its
\* ticket does not stay in the cluster.
ExpiredRunsGo ==
  \A u \in Uids :
    []<>~(u \in Uid /\ run[u].life = "here" /\ Terminal(u) /\ ~run[u].parked
          /\ run[u].archive = "stored" /\ OldEnough(u)
          /\ Cardinality({v \in Uid : /\ Ticket[run[v].name] = Ticket[run[u].name]
                                      /\ run[v].life = "here" /\ run[v].at > run[u].at}) >= KeepLast)

(* The types and the fail-safes of the retention.                           *)
Inv == TypeOK /\ SweptIsExpendable /\ NewestAreSpared

(* What the sweeps owe the cluster: neither leaves behind what it may take. *)
SweepsFinish == OrphansAreReaped /\ ExpiredRunsGo
=============================================================================
