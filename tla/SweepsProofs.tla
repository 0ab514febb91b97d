----------------------------- MODULE SweepsProofs -----------------------------
(***************************************************************************)
(* Proofs about RetentionSweeps, for every number of runs, names, tickets, *)
(* child objects and faults, as long as no name is used again between a    *)
(* list and the deletes it led to: the retention takes nothing but runs    *)
(* that are expendable when it deletes them and spares the newest of every *)
(* ticket, and the sweeps take no child of a run that exists.              *)
(***************************************************************************)
EXTENDS RetentionSweeps, SequenceTheorems, FiniteSetTheorems, WellFoundedInduction, TLAPS

RunRecord ==
  [name : Name, phase : {"active", "terminal"}, at : Nat, archive : {"none", "pending", "stored"},
   parked : BOOLEAN, life : {"here", "deleting", "gone"}, by : {"none", "user", "sweep"}]

\* What a run must be for the retention to take it; it stays so.
Expendable(u) == Terminal(u) /\ run[u].archive = "stored" /\ OldEnough(u)

\* Runs are numbered as they come, and no two at a time have one name.
RunsOK ==
  /\ run \in Seq(RunRecord) /\ cutoff \in Nat /\ scene \in Scenes
  /\ \A u, v \in Uid : Here(u) /\ Here(v) /\ run[u].name = run[v].name => u = v

\* An object belongs to a run of the name it is made for.
ObjsOK ==
  /\ obj \in [Obj -> Nat \cup {Unowned, Absent}]
  /\ \A o \in Obj : obj[o] # Unowned /\ obj[o] # Absent => obj[o] \in Uid /\ run[obj[o]].name = RunOf[o]

\* A list of children of existing or past runs, no object of which is another
\* one by now.
ListOK(listed) ==
  \A o \in DOMAIN listed :
    /\ o \in Obj
    /\ listed[o] # Unowned =>
         /\ listed[o] \in Uid /\ run[listed[o]].name = RunOf[o]
         /\ obj[o] = listed[o] \/ obj[o] = Absent

KeeperType ==
  /\ keeper = [pc |-> keeper.pc, snapshot |-> keeper.snapshot, parked |-> keeper.parked,
               doomed |-> keeper.doomed, listed |-> keeper.listed, todo |-> keeper.todo,
               orphan |-> keeper.orphan]
  /\ keeper.todo \subseteq DOMAIN keeper.listed /\ keeper.orphan \subseteq DOMAIN keeper.listed
  /\ keeper.pc = "delete" => keeper.orphan = {}
KeeperOK ==
  /\ KeeperType /\ ListOK(keeper.listed)
  /\ \A u \in keeper.doomed :
       /\ keeper.pc = "delete" /\ u \in Uid /\ Expendable(u) /\ u \notin keeper.parked
       /\ \A v \in Uid : Here(v) /\ run[v].name = run[u].name => v = u
  /\ \A o \in DOMAIN keeper.listed : keeper.listed[o] # Unowned
  /\ \A o \in keeper.orphan : ~Here(keeper.listed[o])

ReaperType ==
  /\ reaper = [pc |-> reaper.pc, listed |-> reaper.listed, todo |-> reaper.todo, verdict |-> reaper.verdict]
  /\ reaper.todo \subseteq DOMAIN reaper.listed
ReaperOK ==
  /\ ReaperType /\ ListOK(reaper.listed)
  /\ reaper.verdict # << >> =>
       /\ reaper.verdict[1] \in DOMAIN reaper.listed
       /\ reaper.verdict[2] = "delete" =>
            reaper.listed[reaper.verdict[1]] # Unowned /\ ~Here(reaper.listed[reaper.verdict[1]])
       /\ reaper.verdict[2] = "adopt" =>
            reaper.verdict[3] \in Uid /\ run[reaper.verdict[3]].name = RunOf[reaper.verdict[1]]

IInv == RunsOK /\ ObjsOK /\ KeeperOK /\ ReaperOK /\ SweptIsExpendable

-----------------------------------------------------------------------------
(* What a Get by name finds.                                               *)
LEMMA NamedFinds ==
  ASSUME RunsOK, NEW n
  PROVE  /\ Named(n) # 0 => Named(n) \in Uid /\ Here(Named(n)) /\ run[Named(n)].name = n
         /\ \A u \in Uid : Here(u) /\ run[u].name = n => Named(n) = u
<1>1. 0 \notin Uid
  BY DEF RunsOK, Uid
<1>2. CASE \E u \in Uid : Here(u) /\ run[u].name = n
  BY <1>1, <1>2 DEF Named, RunsOK
<1>3. CASE ~ \E u \in Uid : Here(u) /\ run[u].name = n
  BY <1>3 DEF Named
<1> QED BY <1>2, <1>3

\* How the runs change under everybody: an ended run keeps what the retention
\* looks at, and what is gone stays gone.
RunsMove ==
  /\ run' \in Seq(RunRecord) /\ cutoff' \in Nat /\ cutoff <= cutoff'
  /\ \A u \in Uid :
       /\ u \in Uid' /\ run'[u].name = run[u].name
       /\ ~Here(u) => ~Here(u)'
       /\ Terminal(u) =>
            Terminal(u)' /\ (run[u].at # 0 => run'[u].at = run[u].at)
       /\ run[u].archive = "stored" => run'[u].archive = "stored"

LEMMA ExpendableStays ==
  ASSUME RunsOK, RunsMove, NEW u \in Uid, Expendable(u)
  PROVE  Expendable(u)'
<1>0. run[u] \in RunRecord
  BY DEF RunsOK, Uid
<1>1. run[u].at \in Nat /\ run'[u].at = run[u].at /\ run[u].at <= cutoff'
  BY <1>0 DEF RunsOK, RunsMove, Expendable, OldEnough, RunRecord
<1> QED BY <1>1 DEF RunsMove, Expendable, OldEnough, Terminal

\* A list stays good while the runs move and its objects only go.
LEMMA ListStays ==
  ASSUME NEW listed, ListOK(listed), RunsMove,
         \A o \in DOMAIN listed : listed[o] # Unowned => obj'[o] = obj[o] \/ obj'[o] = Absent
  PROVE  ListOK(listed)'
BY DEF ListOK, RunsMove

(* The passes while others move: no run of a doomed one's name comes up.   *)
LEMMA PassesWait ==
  ASSUME IInv, RunsMove, UNCHANGED <<keeper, reaper>>,
         \A o \in DOMAIN keeper.listed \cup DOMAIN reaper.listed :
            obj'[o] = obj[o] \/ obj'[o] = Absent,
         \A v \in Uid' : Here(v)' => \/ v \in Uid /\ Here(v)
                                     \/ \A u \in keeper.doomed : run'[v].name # run[u].name
  PROVE  KeeperOK' /\ ReaperOK'
<1>1. ListOK(keeper.listed)' /\ ListOK(reaper.listed)'
  BY ListStays DEF IInv, KeeperOK, ReaperOK, ListOK, RunsMove
<1>2. \A u \in keeper.doomed : u \in Uid' /\ Expendable(u)'
  BY ExpendableStays DEF IInv, KeeperOK, RunsMove
<1>3. ASSUME NEW u \in keeper.doomed, NEW v \in Uid', Here(v)', run'[v].name = run'[u].name
      PROVE  v = u
  BY <1>3 DEF IInv, KeeperOK, RunsMove
<1>4. KeeperOK'
  BY <1>1, <1>2, <1>3 DEF IInv, KeeperOK, KeeperType, ListOK, RunsMove
<1>5. ReaperOK'
  BY <1>1 DEF IInv, ReaperOK, ReaperType, ListOK, RunsMove
<1> QED BY <1>4, <1>5

\* One run moves on in its life.
RunGoesOn(u, r) ==
  /\ r \in RunRecord /\ r.name = run[u].name
  /\ r.life # "gone" => Here(u)
  /\ Terminal(u) =>
       r.phase = "terminal" /\ (run[u].at # 0 => r.at = run[u].at)
  /\ run[u].archive = "stored" => r.archive = "stored"

LEMMA RunMoves ==
  ASSUME RunsOK, NEW u \in Uid, NEW r, RunGoesOn(u, r), run' = [run EXCEPT ![u] = r],
         UNCHANGED <<cutoff, scene>>
  PROVE  /\ RunsMove /\ RunsOK' /\ Uid' = Uid
         /\ \A v \in Uid' : Here(v)' => Here(v)
<1>1. run' \in Seq(RunRecord) /\ Len(run') = Len(run) /\ Uid' = Uid
  BY DEF RunsOK, RunGoesOn, Uid
<1>2. \A v \in Uid : run'[v] = IF v = u THEN r ELSE run[v]
  BY DEF RunsOK, Uid
<1>3. RunsMove
  BY <1>1, <1>2 DEF RunsOK, RunsMove, RunGoesOn, Here, Terminal
<1>4. \A v \in Uid' : (Here(v)' => Here(v)) /\ run'[v].name = run[v].name
  BY <1>1, <1>2 DEF RunGoesOn, Here
<1>5. RunsOK'
  BY <1>1, <1>4 DEF RunsOK
<1> QED BY <1>1, <1>3, <1>4, <1>5

LEMMA SetRunGood ==
  ASSUME IInv, NEW u \in Uid, NEW r, RunGoesOn(u, r), SetRun(u, r),
         r.by = "sweep" => run[u].by = "sweep"
  PROVE  IInv'
<1>1. /\ RunsMove /\ RunsOK' /\ Uid' = Uid
      /\ \A v \in Uid' : Here(v)' => Here(v)
  BY RunMoves DEF IInv, SetRun
<1>2. ObjsOK'
  BY <1>1 DEF IInv, SetRun, ObjsOK, RunsMove
<1>3. KeeperOK' /\ ReaperOK'
  BY <1>1, PassesWait DEF SetRun, Sweepers
<1>4. SweptIsExpendable'
  <2> SUFFICES ASSUME NEW v \in Uid', run'[v].by = "sweep" PROVE Expendable(v)'
    BY DEF SweptIsExpendable, Expendable
  <2>1. v \in Uid /\ run[v].by = "sweep"
    BY <1>1 DEF IInv, RunsOK, SetRun, Uid
  <2>2. Expendable(v)
    BY <2>1 DEF IInv, SweptIsExpendable, Expendable
  <2> QED BY <1>1, <2>1, <2>2, ExpendableStays DEF IInv
<1> QED BY <1>1, <1>2, <1>3, <1>4 DEF IInv

\* The lives of the runs, as the reconciler and users have them.
LEMMA RunsGood ==
  ASSUME IInv, NEW u \in Uid,
         \/ Terminate(u) \/ StampLate(u) \/ StampVerdict(u) \/ Archive(u)
         \/ ArchiveFails(u) \/ DeleteByHand(u)
  PROVE  IInv'
<1>1. run[u] \in RunRecord
  BY DEF IInv, RunsOK, Uid
<1>2. CASE Terminate(u)
  <2>1. PICK t \in Times, p \in BOOLEAN :
          SetRun(u, [run[u] EXCEPT !.phase = "terminal", !.at = t, !.parked = p])
    BY <1>2 DEF Terminate
  <2> DEFINE r == [run[u] EXCEPT !.phase = "terminal", !.at = t, !.parked = p]
  <2>2. t \in Nat
    BY <2>1, SweepsAssumption DEF Times, SweepsAssumption, IInv, RunsOK
  <2>3. RunGoesOn(u, r) /\ r.by = run[u].by
    BY <1>1, <1>2, <2>2 DEF RunGoesOn, RunRecord, Terminate, Terminal, Here
  <2> HIDE DEF r
  <2> QED BY <2>1, <2>3, SetRunGood DEF r
<1>3. CASE StampLate(u)
  <2>1. PICK t \in Times \ {0} : SetRun(u, [run[u] EXCEPT !.at = t])
    BY <1>3 DEF StampLate
  <2> DEFINE r == [run[u] EXCEPT !.at = t]
  <2>2. t \in Nat
    BY <2>1, SweepsAssumption DEF Times, SweepsAssumption, IInv, RunsOK
  <2>3. RunGoesOn(u, r) /\ r.by = run[u].by
    BY <1>1, <1>3, <2>2 DEF RunGoesOn, RunRecord, StampLate, Terminal, Here
  <2> HIDE DEF r
  <2> QED BY <2>1, <2>3, SetRunGood DEF r
<1>4. CASE Archive(u) \/ ArchiveFails(u)
  <2>1. PICK a \in {"stored", "pending"} : SetRun(u, [run[u] EXCEPT !.archive = a])
    BY <1>4 DEF Archive, ArchiveFails
  <2> DEFINE r == [run[u] EXCEPT !.archive = a]
  <2>2. RunGoesOn(u, r) /\ r.by = run[u].by
    BY <1>1, <1>4, <2>1 DEF RunGoesOn, RunRecord, Archive, ArchiveFails, Terminal, Here
  <2> HIDE DEF r
  <2> QED BY <2>1, <2>2, SetRunGood DEF r
<1>5. CASE DeleteByHand(u)
  <2>1. PICK l \in {"deleting", "gone"} : SetRun(u, [run[u] EXCEPT !.life = l, !.by = "user"])
    BY <1>5 DEF DeleteByHand
  <2> DEFINE r == [run[u] EXCEPT !.life = l, !.by = "user"]
  <2>2. RunGoesOn(u, r) /\ r.by = "user"
    BY <1>1, <1>5 DEF RunGoesOn, RunRecord, DeleteByHand, Terminal, Here
  <2> HIDE DEF r
  <2> QED BY <2>1, <2>2, SetRunGood DEF r
<1>6. CASE StampVerdict(u)
  <2> DEFINE r == [run[u] EXCEPT !.parked = TRUE]
  <2>1. SetRun(u, r)
    BY <1>6 DEF StampVerdict
  <2>2. RunGoesOn(u, r) /\ r.by = run[u].by
    BY <1>1, <1>6 DEF RunGoesOn, RunRecord, StampVerdict, Terminal, Here
  <2> HIDE DEF r
  <2> QED BY <2>1, <2>2, SetRunGood
<1> QED BY <1>2, <1>3, <1>4, <1>5, <1>6

(* A new run, under a name no pass works with.                              *)
LEMMA CreateRunGood ==
  ASSUME IInv, MidPass = FALSE, NEW n \in Name, CreateRun(n)
  PROVE  IInv'
<1> PICK r \in RunRecord :
      /\ r.name = n /\ r.life = "here" /\ r.by = "none" /\ run' = Append(run, r)
  <2>1. [name |-> n, phase |-> "active", at |-> 0, archive |-> "none",
         parked |-> FALSE, life |-> "here", by |-> "none"] \in RunRecord
    BY DEF RunRecord
  <2> QED BY <2>1 DEF CreateRun
<1>1. /\ run' \in Seq(RunRecord) /\ Len(run') = Len(run) + 1 /\ run'[Len(run) + 1] = r
      /\ \A u \in Uid : u \in Uid' /\ run'[u] = run[u] /\ u # Len(run) + 1
      /\ Uid' = Uid \cup {Len(run) + 1}
  BY AppendProperties DEF IInv, RunsOK, Uid
<1>0. UNCHANGED <<obj, cutoff, keeper, reaper, scene>> /\ cutoff \in Nat /\ scene \in Scenes
  BY DEF CreateRun, Sweepers, IInv, RunsOK
<1>2. RunsMove
  <2>1. \A u \in Uid : u \in Uid' /\ run'[u] = run[u]
    BY <1>1
  <2>2. cutoff' = cutoff /\ cutoff' \in Nat /\ cutoff <= cutoff' /\ run' \in Seq(RunRecord)
    BY <1>0, <1>1
  <2> HIDE DEF Uid, RunRecord
  <2> QED BY <2>1, <2>2 DEF RunsMove, Here, Terminal
<1>3. \A u \in Uid : Here(u) => run[u].name # n
  <2>1. Named(n) = 0 /\ 0 \notin Uid
    BY DEF CreateRun, IInv, RunsOK, Uid
  <2> QED BY <2>1, NamedFinds DEF IInv
<1>4. RunsOK'
  <2>1. ASSUME NEW u \in Uid', NEW v \in Uid', Here(u)', Here(v)', run'[u].name = run'[v].name
        PROVE  u = v
    BY <1>1, <1>3, <2>1 DEF IInv, RunsOK, Here
  <2> QED BY <1>0, <1>1, <2>1 DEF RunsOK
<1>5. ObjsOK'
  BY <1>1 DEF CreateRun, IInv, ObjsOK
<1>6. \A u \in keeper.doomed : run[u].name # n
  BY DEF CreateRun, Busy, IInv, KeeperOK
<1>7. \A v \in Uid' : Here(v)' => \/ v \in Uid /\ Here(v)
                                  \/ \A u \in keeper.doomed : run'[v].name # run[u].name
  BY <1>1, <1>6 DEF Here
<1>8. KeeperOK' /\ ReaperOK'
  BY <1>2, <1>7, PassesWait DEF CreateRun, Sweepers
<1>9. SweptIsExpendable'
  <2> SUFFICES ASSUME NEW v \in Uid', run'[v].by = "sweep" PROVE Expendable(v)'
    BY DEF SweptIsExpendable, Expendable
  <2>1. v \in Uid /\ run[v].by = "sweep"
    BY <1>1
  <2> QED BY <1>2, <2>1, ExpendableStays DEF IInv, SweptIsExpendable, Expendable
<1> QED BY <1>4, <1>5, <1>8, <1>9 DEF IInv

-----------------------------------------------------------------------------
(* Children come and go.                                                    *)
LEMMA RunsRest ==
  ASSUME IInv, UNCHANGED <<run, scene>>, cutoff' \in Nat, cutoff <= cutoff'
  PROVE  /\ RunsMove /\ RunsOK' /\ SweptIsExpendable'
         /\ Uid' = Uid /\ \A v \in Uid : (Here(v)' <=> Here(v))
<1>1. RunsMove /\ RunsOK' /\ Uid' = Uid /\ \A v \in Uid : (Here(v)' <=> Here(v))
  BY DEF IInv, RunsOK, RunsMove, Uid, Here, Terminal
<1>2. SweptIsExpendable'
  <2> SUFFICES ASSUME NEW v \in Uid, run[v].by = "sweep" PROVE Expendable(v)'
    BY <1>1 DEF SweptIsExpendable, Expendable
  <2> QED BY <1>1, ExpendableStays DEF IInv, SweptIsExpendable, Expendable
<1> QED BY <1>1, <1>2

LEMMA ChildrenGood ==
  ASSUME IInv, MidPass = FALSE, NEW o \in Obj, CreateChild(o) \/ LaunchByHand(o) \/ Collect(o)
  PROVE  IInv'
<1>1. UNCHANGED <<run, scene, keeper, reaper, cutoff>>
  BY DEF CreateChild, LaunchByHand, Collect, Sweepers
<1>2. /\ RunsMove /\ RunsOK' /\ SweptIsExpendable'
      /\ Uid' = Uid /\ \A v \in Uid : (Here(v)' <=> Here(v))
  BY <1>1, RunsRest DEF IInv, RunsOK
<1>3. PICK x \in Nat \cup {Unowned, Absent} :
        /\ obj' = [obj EXCEPT ![o] = x]
        /\ x # Unowned /\ x # Absent => x \in Uid /\ run[x].name = RunOf[o]
        /\ x = Absent \/ o \notin DOMAIN keeper.listed \cup DOMAIN reaper.listed
  <2>1. CASE CreateChild(o)
    <3>1. Named(RunOf[o]) # 0 /\ obj' = [obj EXCEPT ![o] = Named(RunOf[o])] /\ NameFree(o)
      BY <2>1 DEF CreateChild
    <3>2. Named(RunOf[o]) \in Uid /\ run[Named(RunOf[o])].name = RunOf[o] /\ Uid \subseteq Nat
      BY <3>1, NamedFinds DEF IInv, RunsOK, Uid
    <3> QED BY <3>1, <3>2 DEF NameFree
  <2>2. CASE LaunchByHand(o) \/ Collect(o)
    BY <2>2 DEF LaunchByHand, Collect, NameFree
  <2> QED BY <2>1, <2>2
<1>4. ObjsOK'
  BY <1>1, <1>2, <1>3 DEF IInv, ObjsOK
<1>5. KeeperOK' /\ ReaperOK'
  <2>1. \A p \in DOMAIN keeper.listed \cup DOMAIN reaper.listed :
          obj'[p] = obj[p] \/ obj'[p] = Absent
    BY <1>3 DEF IInv, ObjsOK, KeeperOK, ReaperOK, ListOK
  <2> QED BY <1>1, <1>2, <2>1, PassesWait
<1> QED BY <1>2, <1>4, <1>5 DEF IInv

LEMMA TimeGood ==
  ASSUME IInv, TimePasses
  PROVE  IInv'
<1>1. /\ RunsMove /\ RunsOK' /\ SweptIsExpendable'
      /\ Uid' = Uid /\ \A v \in Uid : (Here(v)' <=> Here(v))
  BY RunsRest DEF IInv, RunsOK, TimePasses
<1>2. KeeperOK' /\ ReaperOK' /\ ObjsOK'
  BY <1>1, PassesWait DEF TimePasses, Sweepers, IInv, ObjsOK
<1> QED BY <1>1, <1>2 DEF IInv

LEMMA FinalizeGood ==
  ASSUME IInv, NEW u \in Uid, Finalize(u)
  PROVE  IInv'
<1> PICK r \in RunRecord : r = [run[u] EXCEPT !.life = "gone"]
  <2>1. run[u] \in RunRecord
    BY DEF IInv, RunsOK, Uid
  <2> QED BY <2>1 DEF RunRecord
<1>0. RunGoesOn(u, r) /\ run' = [run EXCEPT ![u] = r] /\ r.by = run[u].by
  BY DEF Finalize, RunGoesOn, RunRecord, Here, Terminal
<1>1. RunsMove /\ RunsOK' /\ Uid' = Uid /\ \A v \in Uid' : Here(v)' => Here(v)
  BY <1>0, RunMoves DEF IInv, Finalize
<1>2. /\ obj' \in [Obj -> Nat \cup {Unowned, Absent}]
      /\ \A o \in Obj : obj'[o] = obj[o] \/ obj'[o] = Absent
  BY DEF Finalize, IInv, ObjsOK
<1>3. ObjsOK'
  BY <1>1, <1>2 DEF IInv, ObjsOK, RunsMove
<1>4. KeeperOK' /\ ReaperOK'
  BY <1>1, <1>2, PassesWait DEF Finalize, Sweepers, IInv, KeeperOK, ReaperOK, ListOK
<1>5. SweptIsExpendable'
  <2> SUFFICES ASSUME NEW v \in Uid, run'[v].by = "sweep" PROVE Expendable(v)'
    BY <1>1 DEF SweptIsExpendable, Expendable
  <2>1. run[v].by = "sweep"
    BY <1>0 DEF IInv, RunsOK, Uid
  <2> QED BY <1>1, <2>1, ExpendableStays DEF IInv, SweptIsExpendable, Expendable
<1> QED BY <1>1, <1>3, <1>4, <1>5 DEF IInv

-----------------------------------------------------------------------------
(* The passes.  A step of one leaves the runs and the other's children      *)
(* alone, or takes a run or a child that is to go.                          *)
LEMMA ListRunsGood ==
  ASSUME IInv, ListRuns
  PROVE  IInv'
<1>0. UNCHANGED <<run, obj, cutoff, reaper, scene>>
  BY DEF ListRuns, Keep, NoFault
<1>1. /\ RunsMove /\ RunsOK' /\ SweptIsExpendable'
      /\ Uid' = Uid /\ \A v \in Uid : (Here(v)' <=> Here(v))
  BY <1>0, RunsRest DEF IInv, RunsOK
<1>2. ReaperOK' /\ ObjsOK'
  BY <1>0, <1>1 DEF IInv, ReaperOK, ReaperType, ListOK, ObjsOK
<1>3. /\ keeper'.pc = "delete" /\ keeper'.listed = << >> /\ keeper'.todo = {} /\ keeper'.orphan = {}
      /\ \A u \in keeper'.doomed : u \in Uid /\ Here(u) /\ Disposable(u)
      /\ keeper'.doomed \cap keeper'.parked = {} /\ KeeperType'
  BY DEF ListRuns, Keep, KeeperIdle, KeeperType, Disposable
<1>4. \A u \in keeper'.doomed : u \in Uid' /\ Expendable(u)'
  BY <1>0, <1>3 DEF Disposable, Expendable, Terminal, OldEnough, Uid
<1>5. KeeperOK'
  BY <1>0, <1>1, <1>3, <1>4 DEF IInv, RunsOK, KeeperOK, ListOK
<1> QED BY <1>1, <1>2, <1>5 DEF IInv

LEMMA DeleteRunGood ==
  ASSUME IInv, NEW u \in Uid, DeleteRun(u)
  PROVE  IInv'
<1>0. /\ u \in keeper.doomed /\ keeper.pc = "delete"
      /\ UNCHANGED <<obj, cutoff, reaper, scene>>
      /\ keeper' = [keeper EXCEPT !.doomed = @ \ {u}]
  BY DEF DeleteRun, Keep, NoFault, Fault
<1>1. Expendable(u) /\ \A v \in Uid : Here(v) /\ run[v].name = run[u].name => v = u
  BY <1>0 DEF IInv, KeeperOK
<1>2. PICK r : /\ RunGoesOn(u, r) /\ run' = [run EXCEPT ![u] = r]
  <2>0. run[u] \in RunRecord /\ run = [run EXCEPT ![u] = run[u]]
    BY DEF IInv, RunsOK, Uid
  <2>1. CASE UNCHANGED run
    <3>1. RunGoesOn(u, run[u])
      BY <2>0 DEF RunGoesOn, Here, Terminal
    <3> QED BY <2>0, <2>1, <3>1
  <2>2. CASE run' # run
    <3>1. LET v == Named(run[u].name)
          IN v # 0 /\ run[v].life = "here"
             /\ run' = [run EXCEPT ![v].life = "deleting", ![v].by = "sweep"]
      BY <2>2 DEF DeleteRun
    <3>2. Named(run[u].name) = u
      BY <1>1, <3>1, NamedFinds DEF IInv
    <3>3. run[u].life = "here" /\ run' = [run EXCEPT ![u].life = "deleting", ![u].by = "sweep"]
      BY <3>1, <3>2
    <3> DEFINE r == [run[u] EXCEPT !.life = "deleting", !.by = "sweep"]
    <3>4. RunGoesOn(u, r)
      BY <2>0, <3>3 DEF RunGoesOn, RunRecord, Here, Terminal
    <3>5. run' = [run EXCEPT ![u] = r]
      BY <2>0, <3>3 DEF IInv, RunsOK, RunRecord
    <3> QED BY <3>4, <3>5
  <2> QED BY <2>1, <2>2
<1>3. RunsMove /\ RunsOK' /\ Uid' = Uid /\ \A v \in Uid' : Here(v)' => Here(v)
  BY <1>0, <1>2, RunMoves DEF IInv
<1>4. ObjsOK' /\ ReaperOK'
  BY <1>0, <1>3 DEF IInv, ObjsOK, ReaperOK, ReaperType, ListOK, RunsMove
<1>5. KeeperOK'
  <2>1. KeeperType' /\ UNCHANGED <<keeper.pc, keeper.listed, keeper.orphan, keeper.parked>>
        /\ keeper'.doomed = keeper.doomed \ {u}
    BY <1>0 DEF IInv, KeeperOK, KeeperType
  <2>2. \A v \in keeper'.doomed : v \in keeper.doomed /\ v \in Uid' /\ Expendable(v)'
    BY <1>3, <2>1, ExpendableStays DEF IInv, KeeperOK
  <2>3. ListOK(keeper.listed)' /\ \A o \in keeper.orphan : ~Here(keeper.listed[o])'
    BY <1>0, <1>3, <2>1 DEF IInv, KeeperOK, KeeperType, ListOK, RunsMove
  <2> QED BY <1>3, <2>1, <2>2, <2>3 DEF IInv, KeeperOK, RunsMove
<1>6. SweptIsExpendable'
  <2> SUFFICES ASSUME NEW v \in Uid, run'[v].by = "sweep" PROVE Expendable(v)'
    BY <1>3 DEF SweptIsExpendable, Expendable
  <2>1. v = u \/ run[v].by = "sweep"
    BY <1>2 DEF IInv, RunsOK, Uid
  <2>2. Expendable(v)
    BY <1>1, <2>1 DEF IInv, SweptIsExpendable, Expendable
  <2> QED BY <1>3, <2>2, ExpendableStays DEF IInv
<1> QED BY <1>3, <1>4, <1>5, <1>6 DEF IInv

\* What the keeper's steps over the children have to show.
LEMMA KeeperMoves ==
  ASSUME IInv, UNCHANGED <<run, cutoff, reaper, scene>>,
         obj' \in [Obj -> Nat \cup {Unowned, Absent}],
         \A o \in Obj : obj'[o] = obj[o] \/ obj'[o] = Absent,
         KeeperType', keeper'.doomed = {}, ListOK(keeper.listed)',
         \A o \in DOMAIN keeper'.listed : keeper'.listed[o] # Unowned,
         \A o \in keeper'.orphan : ~Here(keeper'.listed[o])
  PROVE  IInv'
<1>1. /\ RunsMove /\ RunsOK' /\ SweptIsExpendable'
      /\ Uid' = Uid /\ \A v \in Uid : (Here(v)' <=> Here(v))
  BY RunsRest DEF IInv, RunsOK
<1>2. ObjsOK'
  BY <1>1 DEF IInv, ObjsOK
<1>3. ListOK(reaper.listed)'
  BY <1>1, ListStays DEF IInv, ReaperOK, ListOK
<1>4. ReaperOK'
  BY <1>1, <1>3 DEF IInv, ReaperOK, ReaperType, ListOK
<1>5. KeeperOK'
  BY <1>1 DEF KeeperOK, ListOK, Here
<1> QED BY <1>1, <1>2, <1>4, <1>5 DEF IInv

LEMMA ListChildrenGood ==
  ASSUME IInv, ListChildren
  PROVE  IInv'
<1>1. UNCHANGED <<run, cutoff, reaper, scene, obj>> /\ keeper.doomed = {} /\ keeper.orphan = {}
  BY DEF ListChildren, Keep, NoFault, Fault, IInv, KeeperOK, KeeperType
<1>2. CASE keeper' = KeeperIdle
  BY <1>1, <1>2, KeeperMoves DEF KeeperIdle, KeeperType, ListOK, IInv, ObjsOK
<1>3. CASE keeper' # KeeperIdle
  <2>1. PICK kind \in {"jobs", "pods"}, seen \in SUBSET {o \in Obj : obj[o] \in Uid} :
          keeper' = [keeper EXCEPT !.pc = kind, !.parked = {}, !.todo = seen, !.listed = [o \in seen |-> obj[o]]]
    BY <1>3 DEF ListChildren, Keep
  <2> DEFINE listed == [o \in seen |-> obj[o]]
  <2>2. /\ keeper'.pc = kind /\ keeper'.todo = seen /\ keeper'.listed = listed
        /\ keeper'.doomed = {} /\ keeper'.orphan = {} /\ KeeperType'
    BY <1>1, <2>1 DEF IInv, KeeperOK, KeeperType
  <2>3. \A o \in seen : obj[o] # Unowned /\ obj[o] # Absent
    BY DEF IInv, RunsOK, Uid, Unowned, Absent
  <2>4. ListOK(keeper.listed)'
    BY <1>1, <2>2, <2>3 DEF IInv, ObjsOK, ListOK, Uid
  <2>5. obj' \in [Obj -> Nat \cup {Unowned, Absent}]
    BY <1>1 DEF IInv, ObjsOK
  <2> QED BY <1>1, <2>2, <2>3, <2>4, <2>5, KeeperMoves
<1> QED BY <1>2, <1>3

LEMMA OrphansGood ==
  ASSUME IInv, NEW o, (o \in Obj /\ (OrphanVerify(o) \/ DeleteOrphan(o))) \/ KeeperDone
  PROVE  IInv'
<1>1. /\ UNCHANGED <<run, cutoff, reaper, scene>> /\ keeper.doomed = {}
      /\ obj' \in [Obj -> Nat \cup {Unowned, Absent}]
      /\ \A p \in Obj : obj'[p] = obj[p] \/ obj'[p] = Absent
  BY DEF OrphanVerify, DeleteOrphan, KeeperDone, Keep, NoFault, Fault,
         IInv, KeeperOK, KeeperType, ObjsOK
<1>2. /\ \A p \in DOMAIN keeper.listed : keeper.listed[p] # Unowned
      /\ keeper'.listed = keeper.listed => ListOK(keeper.listed)'
  BY <1>1 DEF IInv, KeeperOK, ListOK, Uid
<1>3. CASE KeeperDone
  BY <1>1, <1>3, KeeperMoves DEF KeeperDone, Keep, KeeperIdle, KeeperType, ListOK
<1>4. CASE o \in Obj /\ DeleteOrphan(o)
  <2>1. /\ KeeperType' /\ keeper'.doomed = {} /\ keeper'.listed = keeper.listed /\ keeper'.orphan = {}
    BY <1>1, <1>4 DEF DeleteOrphan, Keep, IInv, KeeperOK, KeeperType
  <2> QED BY <1>1, <1>2, <2>1, KeeperMoves
<1>5. CASE o \in Obj /\ OrphanVerify(o)
  <2>1. PICK gone \in {{o}, {}} :
          /\ keeper' = [keeper EXCEPT !.todo = @ \ {o}, !.orphan = gone]
          /\ o \in gone => Orphan(o)
    <3>1. keeper.orphan = {} /\ keeper = [keeper EXCEPT !.orphan = {}]
      BY <1>5 DEF OrphanVerify, IInv, KeeperOK, KeeperType
    <3> QED BY <1>5, <3>1 DEF OrphanVerify, Keep, IInv, KeeperOK, KeeperType
  <2>2. o \in DOMAIN keeper.listed /\ keeper.pc # "delete"
    BY <1>5 DEF OrphanVerify, IInv, KeeperOK, KeeperType
  <2>3. /\ KeeperType' /\ keeper'.doomed = {} /\ keeper'.listed = keeper.listed /\ keeper'.orphan = gone
    BY <1>1, <2>1, <2>2 DEF IInv, KeeperOK, KeeperType
  <2>4. Orphan(o) => ~Here(keeper.listed[o])
    <3>1. keeper.listed[o] \in Uid /\ run[keeper.listed[o]].name = RunOf[o] /\ 0 \notin Uid
      BY <2>2 DEF IInv, RunsOK, KeeperOK, ListOK, Uid
    <3> QED BY <3>1, NamedFinds DEF IInv, Orphan
  <2> QED BY <1>1, <1>2, <2>1, <2>3, <2>4, KeeperMoves
<1> QED BY <1>3, <1>4, <1>5

\* The same for the adapter sweep, which besides adopts.
LEMMA ReaperMoves ==
  ASSUME IInv, UNCHANGED <<run, cutoff, keeper, scene>>, ObjsOK',
         \A o \in DOMAIN keeper.listed : obj'[o] = obj[o] \/ obj'[o] = Absent,
         ReaperOK'
  PROVE  IInv'
<1>1. /\ RunsMove /\ RunsOK' /\ SweptIsExpendable'
      /\ Uid' = Uid /\ \A v \in Uid : (Here(v)' <=> Here(v))
  BY RunsRest DEF IInv, RunsOK
<1>2. ListOK(keeper.listed)'
  BY <1>1, ListStays DEF IInv, KeeperOK
<1>3. \A u \in keeper.doomed : Expendable(u)'
  BY <1>1, ExpendableStays DEF IInv, KeeperOK
<1>4. KeeperOK'
  BY <1>1, <1>2, <1>3 DEF IInv, KeeperOK, KeeperType, ListOK, Here
<1> QED BY <1>1, <1>4 DEF IInv

LEMMA ListAdaptersGood ==
  ASSUME IInv, ListAdapters
  PROVE  IInv'
<1>1. UNCHANGED <<run, cutoff, keeper, scene, obj>>
  BY DEF ListAdapters, Reap, NoFault
<1>2. PICK seen \in SUBSET {o \in Obj : obj[o] # Absent} :
        reaper' = [ReaperIdle EXCEPT !.pc = "sweep", !.todo = seen, !.listed = [o \in seen |-> obj[o]]]
  BY SweepsAssumption DEF ListAdapters, Reap, SweepsAssumption
<1>3. /\ ReaperType' /\ reaper'.listed = [o \in seen |-> obj[o]] /\ reaper'.verdict = << >>
  BY <1>2 DEF ReaperIdle, ReaperType
<1>4. ListOK(reaper.listed)'
  BY <1>1, <1>3 DEF IInv, ObjsOK, ListOK, Uid
<1>5. ReaperOK'
  BY <1>3, <1>4 DEF ReaperOK
<1>6. ObjsOK'
  BY <1>1 DEF IInv, ObjsOK, Uid
<1> QED BY <1>1, <1>5, <1>6, ReaperMoves

LEMMA SweepObjectGood ==
  ASSUME IInv, NEW o \in Obj, SweepObject(o)
  PROVE  IInv'
<1>1. UNCHANGED <<run, cutoff, keeper, scene, obj>>
  BY DEF SweepObject, Reap, NoFault, Fault
<1>2. PICK v \in {<< >>, <<o, Verdict(o), Named(RunOf[o])>>} :
        /\ reaper' = [reaper EXCEPT !.todo = @ \ {o}, !.verdict = v]
        /\ v # << >> => Verdict(o) # "keep"
  <2>1. reaper = [reaper EXCEPT !.verdict = << >>]
    BY DEF SweepObject, IInv, ReaperOK, ReaperType
  <2> QED BY <2>1 DEF SweepObject, Reap, IInv, ReaperOK, ReaperType
<1>3. ReaperType' /\ reaper'.listed = reaper.listed /\ reaper'.verdict = v /\ o \in DOMAIN reaper.listed
  BY <1>2 DEF SweepObject, IInv, ReaperOK, ReaperType
<1>4. ListOK(reaper.listed)'
  BY <1>1, <1>3 DEF IInv, ReaperOK, ListOK, Uid
<1>5. reaper.listed[o] # Unowned => reaper.listed[o] \in Uid /\ run[reaper.listed[o]].name = RunOf[o]
  BY <1>3 DEF IInv, ReaperOK, ListOK
<1>6. Verdict(o) = "delete" => reaper.listed[o] # Unowned /\ ~Here(reaper.listed[o])
  BY <1>5, NamedFinds DEF IInv, Verdict
<1>7. Verdict(o) = "adopt" => Named(RunOf[o]) \in Uid /\ run[Named(RunOf[o])].name = RunOf[o]
  BY NamedFinds DEF IInv, Verdict
<1>8. v # << >> => v[1] = o /\ v[2] = Verdict(o) /\ v[3] = Named(RunOf[o])
  BY <1>2
<1>9. ReaperOK'
  BY <1>1, <1>3, <1>4, <1>6, <1>7, <1>8 DEF ReaperOK, Uid, Here
<1>10. ObjsOK'
  BY <1>1 DEF IInv, ObjsOK, Uid
<1> QED BY <1>1, <1>9, <1>10, ReaperMoves

LEMMA ReaperActsGood ==
  ASSUME IInv, DeleteAdapterObject \/ AdoptObject \/ ReaperDone
  PROVE  IInv'
<1>1. UNCHANGED <<run, cutoff, keeper, scene>> /\ Uid' = Uid /\ 0 \notin Uid /\ Uid \subseteq Nat
  BY DEF DeleteAdapterObject, AdoptObject, ReaperDone, Reap, NoFault, Fault, IInv, RunsOK, Uid
<1>2. CASE ReaperDone
  <2>1. ReaperOK' /\ UNCHANGED obj
    BY <1>2 DEF ReaperDone, Reap, ReaperIdle, ReaperOK, ReaperType, ListOK
  <2>2. ObjsOK'
    BY <1>1, <2>1 DEF IInv, ObjsOK
  <2> QED BY <1>1, <2>1, <2>2, ReaperMoves
<1>3. CASE DeleteAdapterObject \/ AdoptObject
  <2> DEFINE o == reaper.verdict[1]
  <2>1. /\ reaper.verdict # << >> /\ o \in DOMAIN reaper.listed /\ o \in Obj
        /\ ReaperType' /\ reaper'.listed = reaper.listed /\ reaper'.verdict = << >>
    BY <1>3 DEF DeleteAdapterObject, AdoptObject, Reap, IInv, ReaperOK, ReaperType, ListOK
  <2>2. PICK x \in Nat \cup {Absent} :
          /\ obj' = [obj EXCEPT ![o] = x] \/ obj' = obj
          /\ x = Absent \/ (x \in Uid /\ run[x].name = RunOf[o] /\ obj[o] = Unowned)
    <3>1. CASE DeleteAdapterObject
      BY <3>1 DEF DeleteAdapterObject
    <3>2. CASE AdoptObject
      <4>1. reaper.verdict[3] \in Uid /\ run[reaper.verdict[3]].name = RunOf[o]
        BY <2>1, <3>2 DEF AdoptObject, IInv, ReaperOK
      <4>2. CASE obj[o] = Unowned
        BY <1>1, <3>2, <4>1, <4>2 DEF AdoptObject
      <4>3. CASE obj[o] # Unowned
        <5>1. obj' = obj
          BY <3>2, <4>3 DEF AdoptObject
        <5> QED BY <5>1
      <4> QED BY <4>2, <4>3
    <3> QED BY <1>3, <3>1, <3>2
  <2>3. ObjsOK'
    <3>1. obj' \in [Obj -> Nat \cup {Unowned, Absent}]
      BY <2>2 DEF IInv, ObjsOK
    <3>2. \A p \in Obj : obj'[p] # Unowned /\ obj'[p] # Absent => obj'[p] \in Uid /\ run[obj'[p]].name = RunOf[p]
      BY <2>2 DEF IInv, ObjsOK
    <3> QED BY <1>1, <3>1, <3>2 DEF ObjsOK
  <2>4. \A p \in Obj : obj'[p] = obj[p] \/ obj'[p] = Absent \/ obj[p] = Unowned
    BY <2>2 DEF IInv, ObjsOK
  <2>5. \A p \in DOMAIN keeper.listed : obj'[p] = obj[p] \/ obj'[p] = Absent
    BY <1>1, <2>4 DEF IInv, KeeperOK, ListOK, Unowned, Absent
  <2>6. ListOK(reaper.listed)'
    BY <1>1, <2>1, <2>4 DEF IInv, ReaperOK, ListOK, Unowned, Absent
  <2>7. ReaperOK'
    BY <2>1, <2>6 DEF ReaperOK
  <2> HIDE DEF o
  <2> QED BY <1>1, <2>3, <2>5, <2>7, ReaperMoves
<1> QED BY <1>2, <1>3

-----------------------------------------------------------------------------
LEMMA InitIsGood ==
  ASSUME Init
  PROVE  IInv
<1>1. RunsOK /\ ObjsOK /\ SweptIsExpendable
  BY DEF Init, RunsOK, ObjsOK, SweptIsExpendable, Uid
<1>2. KeeperOK /\ ReaperOK
  BY DEF Init, KeeperIdle, ReaperIdle, KeeperOK, KeeperType, ReaperOK, ReaperType, ListOK
<1> QED BY <1>1, <1>2 DEF IInv

LEMMA EveryStepIsGood ==
  ASSUME IInv, MidPass = FALSE, [Next]_vars
  PROVE  IInv'
<1>1. CASE UNCHANGED vars
  <2>1. UNCHANGED <<run, obj, cutoff, keeper, reaper, scene>>
    BY <1>1 DEF vars
  <2>2. /\ RunsMove /\ RunsOK' /\ SweptIsExpendable'
        /\ Uid' = Uid /\ \A v \in Uid : (Here(v)' <=> Here(v))
    BY <2>1, RunsRest DEF IInv, RunsOK
  <2>3. KeeperOK' /\ ReaperOK' /\ ObjsOK'
    BY <2>1, <2>2, PassesWait DEF IInv, ObjsOK
  <2> QED BY <2>2, <2>3 DEF IInv
<1>2. CASE \E n \in Name : CreateRun(n)
  BY <1>2, CreateRunGood
<1>3. CASE \E o \in Obj : CreateChild(o) \/ LaunchByHand(o) \/ Collect(o)
  BY <1>3, ChildrenGood
<1>4. CASE \E u \in Uid : \/ Terminate(u) \/ StampLate(u) \/ StampVerdict(u) \/ Archive(u)
                          \/ ArchiveFails(u) \/ DeleteByHand(u)
  BY <1>4, RunsGood
<1>5. CASE (\E u \in Uid : Finalize(u)) \/ TimePasses
  BY <1>5, FinalizeGood, TimeGood
<1>6. CASE RetentionPass
  <2>1. KeeperDone => IInv'
    BY OrphansGood
  <2>2. (\E o \in Obj : OrphanVerify(o) \/ DeleteOrphan(o)) => IInv'
    BY OrphansGood
  <2> QED BY <1>6, <2>1, <2>2, ListRunsGood, DeleteRunGood, ListChildrenGood DEF RetentionPass
<1>7. CASE AdapterPass
  BY <1>7, ListAdaptersGood, SweepObjectGood, ReaperActsGood DEF AdapterPass
<1> QED BY <1>1, <1>2, <1>3, <1>4, <1>5, <1>6, <1>7 DEF Next

\* What the retention destroys is archived, ended and past its window, and the
\* list of the pass did not show it parked for a human (the fail-safe skips of
\* sweep); nor does another run of that name go for it.
THEOREM RetentionIsFailSafe ==
  ASSUME MidPass = FALSE
  PROVE  Spec => []SweptIsExpendable /\ ParkedIsKept
<1>1. Init => IInv
  BY InitIsGood
<1>2. IInv /\ [Next]_vars => IInv'
  BY EveryStepIsGood
<1>3. IInv => SweptIsExpendable
  BY DEF IInv
<1>4. IInv /\ [Next]_vars =>
        [\A u \in Uid : run[u].by # "sweep" /\ run'[u].by = "sweep" => u \notin keeper.parked]_vars
  <2> SUFFICES ASSUME IInv, Next, NEW u \in Uid, run[u].by # "sweep", run'[u].by = "sweep"
               PROVE  u \notin keeper.parked
    BY DEF vars
  <2>1. CASE \E n \in Name : CreateRun(n)
    BY <2>1, AppendProperties DEF CreateRun, IInv, RunsOK, Uid
  <2>2. CASE \E v \in Uid : \/ Terminate(v) \/ StampLate(v) \/ StampVerdict(v) \/ Archive(v)
                            \/ ArchiveFails(v) \/ DeleteByHand(v) \/ Finalize(v)
    <3>1. PICK v \in Uid : \/ Terminate(v) \/ StampLate(v) \/ StampVerdict(v) \/ Archive(v)
                            \/ ArchiveFails(v) \/ DeleteByHand(v) \/ Finalize(v)
      BY <2>2
    <3>2. run[v] \in RunRecord /\ run \in Seq(RunRecord) /\ \A w \in Uid : run[w] \in RunRecord
      BY DEF IInv, RunsOK, Uid
    <3>3. CASE v # u
      <4>1. run'[u] = run[u]
        BY <3>1, <3>2, <3>3 DEF Terminate, StampLate, StampVerdict, Archive, ArchiveFails,
                               DeleteByHand, Finalize, SetRun, Uid
      <4> QED BY <4>1
    <3>4. CASE v = u
      <4>1. CASE Terminate(u)
        BY <3>2, <4>1 DEF Terminate, SetRun, Uid, RunRecord
      <4>2. CASE StampLate(u)
        BY <3>2, <4>2 DEF StampLate, SetRun, Uid, RunRecord
      <4>3. CASE StampVerdict(u) \/ Archive(u) \/ ArchiveFails(u)
        BY <3>2, <4>3 DEF StampVerdict, Archive, ArchiveFails, SetRun, Uid, RunRecord
      <4>4. CASE DeleteByHand(u)
        BY <3>2, <4>4 DEF DeleteByHand, SetRun, Uid, RunRecord
      <4>5. CASE Finalize(u)
        BY <3>2, <4>5 DEF Finalize, Uid, RunRecord
      <4> QED BY <3>1, <3>4, <4>1, <4>2, <4>3, <4>4, <4>5
    <3> QED BY <3>3, <3>4
  <2>3. CASE \E v \in Uid : DeleteRun(v) /\ run' # run
    <3>1. PICK v \in Uid : DeleteRun(v) /\ run' # run
      BY <2>3
    <3>2. LET w == Named(run[v].name)
          IN /\ w # 0 /\ run' = [run EXCEPT ![w].life = "deleting", ![w].by = "sweep"]
             /\ v \in keeper.doomed
      BY <3>1 DEF DeleteRun
    <3>3. Named(run[v].name) = v
      BY <3>1, <3>2, NamedFinds DEF IInv, KeeperOK
    <3>4. u = v
      BY <3>2, <3>3 DEF IInv, RunsOK, Uid
    <3> QED BY <3>2, <3>4 DEF IInv, KeeperOK
  <2>4. CASE UNCHANGED run
    BY <2>4
  <2> QED BY <2>1, <2>2, <2>3, <2>4 DEF Next, CreateChild, LaunchByHand, Collect, TimePasses,
             RetentionPass, AdapterPass, ListRuns, DeleteRun, ListChildren, OrphanVerify, DeleteOrphan,
             KeeperDone, ListAdapters, SweepObject, DeleteAdapterObject, AdoptObject, ReaperDone
<1> QED BY <1>1, <1>2, <1>3, <1>4, PTL DEF Spec, ParkedIsKept

\* The children a sweep deletes were those of a run that is gone (orphanVerify,
\* sweepOwnedObject, adoptByRunLabel).
THEOREM SweepsSpareTheLiving ==
  ASSUME MidPass = FALSE
  PROVE  Spec => OnlyOrphansAreReaped
<1>1. Init => IInv
  BY InitIsGood
<1>2. IInv /\ [Next]_vars => IInv'
  BY EveryStepIsGood
<1>3. IInv /\ [Next]_vars =>
        [keeper' # keeper \/ reaper' # reaper =>
           \A o \in Obj : obj[o] # Absent /\ obj'[o] = Absent => obj[o] \in Uid /\ ~Here(obj[o])]_vars
  <2> SUFFICES ASSUME IInv, Next, keeper' # keeper \/ reaper' # reaper,
                      NEW o \in Obj, obj[o] # Absent, obj'[o] = Absent
               PROVE  obj[o] \in Uid /\ ~Here(obj[o])
    BY DEF vars
  <2>1. \/ \E p \in Obj : DeleteOrphan(p) /\ obj' = [obj EXCEPT ![p] = Absent]
        \/ DeleteAdapterObject /\ obj' = [obj EXCEPT ![reaper.verdict[1]] = Absent]
        \/ AdoptObject /\ obj' = [obj EXCEPT ![reaper.verdict[1]] = reaper.verdict[3]]
    BY DEF Next, CreateRun, CreateChild, LaunchByHand, Collect, Terminate, StampLate, StampVerdict, Archive,
           ArchiveFails, DeleteByHand, SetRun, Finalize, TimePasses, Sweepers, RetentionPass, ListRuns,
           DeleteRun, ListChildren, OrphanVerify, DeleteOrphan, KeeperDone, AdapterPass, ListAdapters,
           SweepObject, DeleteAdapterObject, AdoptObject, ReaperDone
  <2>2. CASE \E p \in Obj : DeleteOrphan(p) /\ obj' = [obj EXCEPT ![p] = Absent]
    <3>1. PICK p \in Obj : DeleteOrphan(p) /\ obj' = [obj EXCEPT ![p] = Absent]
      BY <2>2
    <3>2. o = p
      BY <3>1 DEF IInv, ObjsOK
    <3> QED BY <3>1, <3>2 DEF DeleteOrphan, IInv, KeeperOK, KeeperType, ListOK
  <2>3. CASE DeleteAdapterObject /\ obj' = [obj EXCEPT ![reaper.verdict[1]] = Absent]
    <3>1. o = reaper.verdict[1]
      BY <2>3 DEF IInv, ObjsOK
    <3> QED BY <2>3, <3>1 DEF DeleteAdapterObject, IInv, ReaperOK, ListOK
  <2>4. CASE AdoptObject /\ obj' = [obj EXCEPT ![reaper.verdict[1]] = reaper.verdict[3]]
    <3>1. reaper.verdict[3] \in Uid /\ reaper.verdict[3] # Absent
      BY <2>4 DEF AdoptObject, IInv, RunsOK, ReaperOK, Uid, Absent
    <3> QED BY <2>4, <3>1 DEF IInv, ObjsOK
  <2> QED BY <2>1, <2>2, <2>3, <2>4
<1> QED BY <1>1, <1>2, <1>3, PTL DEF Spec, OnlyOrphansAreReaped

-----------------------------------------------------------------------------
(* The bounds of the model, and the newest runs of a ticket: whatever the   *)
(* retention has taken or is about to take, KeepLast runs of the ticket     *)
(* above it are not, and stay so until the next list.                       *)
Taken(u) == run[u].by = "sweep" \/ u \in keeper.doomed
Rest(u) == {v \in Uid : ~Taken(v) /\ Ticket[run[v].name] = Ticket[run[u].name] /\ Above(v, u)}
Spares == \A u \in Uid : Taken(u) => Cardinality(Rest(u)) >= KeepLast

SceneOK == /\ Len(run) <= scene.runs /\ cutoff <= scene.time
           /\ faults \in Nat /\ faults <= scene.faults
LifeOK(r) == /\ r.at <= scene.time /\ (r.by = "none" <=> r.life = "here")
             /\ r.at # 0 => r.phase = "terminal"
LivesOK == \A u \in Uid : LifeOK(run[u])
PassesOK ==
  /\ keeper.doomed \cup keeper.parked \subseteq keeper.snapshot /\ reaper.todo \subseteq Adapter
  /\ reaper.verdict # << >> => reaper.verdict[2] \in {"delete", "adopt"}

JInv == IInv /\ SceneOK /\ LivesOK /\ PassesOK /\ Spares

LEMMA UidFinite ==
  ASSUME RunsOK
  PROVE  IsFiniteSet(Uid) /\ \A u \in Uid : run[u] \in RunRecord /\ u \in Nat
<1>1. PICK n \in Nat : n = Len(run)
  BY DEF RunsOK
<1>2. Uid = 1..n
  BY <1>1 DEF RunsOK, Uid
<1>3. 1 \in Int /\ n \in Int
  OBVIOUS
<1>4. IsFiniteSet(1..n)
  BY <1>3, FS_Interval
<1> QED BY <1>2, <1>4 DEF RunsOK, Uid

\* Of any runs one is above the others.
LEMMA OneIsOnTop ==
  ASSUME RunsOK, NEW B \in SUBSET Uid, B # {}
  PROVE  \E m \in B : \A v \in B : ~Above(v, m)
<1> DEFINE Up(u) == {v \in Uid : Above(v, u)}
           F == {Up(u) : u \in B}
<1>1. IsFiniteSet(Uid) /\ \A u \in Uid : run[u].at \in Nat /\ u \in Nat
  BY UidFinite DEF RunRecord
<1>2. F \subseteq FiniteSubsetsOf(Uid) /\ F # {}
  <2>1. F \subseteq SUBSET Uid /\ F # {}
    OBVIOUS
  <2> QED BY <1>1, <2>1, FS_FiniteSubsetsOfFinite
<1>3. PICK X \in F : \A Y \in F : ~(<<Y, X>> \in StrictSubsetOrdering(Uid))
  <2> HIDE DEF F
  <2>1. IsWellFoundedOn(StrictSubsetOrdering(Uid), FiniteSubsetsOf(Uid))
    BY FS_StrictSubsetOrderingWellFounded
  <2> QED BY <1>2, <2>1, WFMin
<1>4. PICK m \in B : X = Up(m)
  OBVIOUS
<1>5. ASSUME NEW v \in B, Above(v, m)
      PROVE  FALSE
  <2>1. v \in Up(m) /\ v \notin Up(v)
    BY <1>1, <1>5 DEF Above
  <2>2. Up(v) \subseteq Up(m)
    BY <1>1, <1>5 DEF Above
  <2>3. Up(v) \in F /\ Up(v) # X /\ Up(v) \in SUBSET Uid /\ X \in SUBSET Uid
    BY <1>4, <2>1
  <2> HIDE DEF Up, F
  <2>4. <<Up(v), X>> \in StrictSubsetOrdering(Uid)
    BY <1>4, <2>2, <2>3 DEF StrictSubsetOrdering
  <2> QED BY <1>3, <2>3, <2>4
<1> QED BY <1>5

LEMMA TakenAreExpendable ==
  ASSUME IInv, NEW u \in Uid, Taken(u)
  PROVE  Expendable(u) /\ run[u].at # 0
BY DEF IInv, KeeperOK, SweptIsExpendable, Taken, Expendable, OldEnough

\* The runs spared stay above, as a time once stamped is pinned.
TimesStay ==
  \A u \in Uid : /\ u \in Uid' /\ run'[u].name = run[u].name
                 /\ run[u].at # 0 => run'[u].at = run[u].at
LEMMA SparesStay ==
  ASSUME IInv, RunsOK', Spares, TimesStay,
         \A u \in Uid' : Taken(u)' => u \in Uid /\ Taken(u)
  PROVE  Spares'
<1> SUFFICES ASSUME NEW u \in Uid', Taken(u)'
             PROVE  Cardinality(Rest(u)') >= KeepLast
  BY DEF Spares
<1>1. u \in Uid /\ Taken(u) /\ Cardinality(Rest(u)) >= KeepLast
  BY DEF Spares
<1>2. Terminal(u) /\ run[u].at # 0 /\ run'[u].at = run[u].at /\ run'[u].name = run[u].name
  BY <1>1, TakenAreExpendable DEF Expendable, TimesStay
<1>3. \A v \in Uid : run[v].at \in Nat /\ (run[v].at # 0 => run'[v].at = run[v].at)
  BY UidFinite DEF IInv, RunRecord, TimesStay
<1>4. ASSUME NEW v \in Rest(u)
      PROVE  v \in Rest(u)'
  <2>1. v \in Uid /\ v \in Uid' /\ ~Taken(v) /\ Ticket[run[v].name] = Ticket[run[u].name] /\ Above(v, u)
    BY DEF Rest, TimesStay
  <2>2. run[v].at # 0
    BY <1>1, <1>2, <1>3, <2>1 DEF Above
  <2>3. Above(v, u)'
    BY <1>2, <1>3, <2>1, <2>2 DEF Above
  <2>4. ~Taken(v)' /\ run'[v].name = run[v].name
    BY <2>1 DEF TimesStay
  <2> QED BY <1>2, <2>1, <2>3, <2>4 DEF Rest
<1>5. IsFiniteSet(Uid')
  <2>1. PICK n \in Nat : n = Len(run')
    BY DEF RunsOK
  <2>2. Uid' = 1..n /\ 1 \in Int /\ n \in Int
    BY <2>1 DEF RunsOK, Uid
  <2> QED BY <2>2, FS_Interval
<1> PICK R, S : R = Rest(u) /\ S = Rest(u)'
  OBVIOUS
<1>6. R \in SUBSET S /\ S \in SUBSET Uid'
  BY <1>4 DEF Rest
<1>7. IsFiniteSet(S)
  BY <1>5, <1>6, FS_Subset
<1>8. IsFiniteSet(R) /\ Cardinality(R) <= Cardinality(S) /\ Cardinality(R) \in Nat /\ Cardinality(S) \in Nat
  BY <1>6, <1>7, FS_Subset, FS_CardinalityType
<1> QED BY <1>1, <1>8, SweepsAssumption DEF SweepsAssumption

\* A list dooms only runs with KeepLast ended ones above them; of the runs it
\* would leave with fewer one is on top, and those above that one all stay.
LEMMA ListRunsSpares ==
  ASSUME IInv, Spares, ListRuns
  PROVE  Spares'
<1>0. UNCHANGED run /\ Uid' = Uid
      /\ \A u \in keeper'.doomed : u \in Uid /\ Disposable(u)
      /\ keeper.doomed = {}
  BY DEF ListRuns, Keep, NoFault, KeeperIdle, Uid, IInv, KeeperOK
<1> PICK K \in Nat : K = KeepLast
  BY SweepsAssumption DEF SweepsAssumption
<1> DEFINE Left(u) == {v \in Uid : ~Taken(v)' /\ Ticket[run[v].name] = Ticket[run[u].name] /\ Above(v, u)}
           Few(u) == Taken(u)' /\ ~(Cardinality(Left(u)) >= K)
           B == {u \in Uid : Few(u)}
<1>1. IsFiniteSet(Uid) /\ \A u \in Uid : run[u].at \in Nat /\ u \in Nat
  BY UidFinite DEF IInv, RunRecord
<1>2. \A u \in Uid : Left(u) = Rest(u)'
  BY <1>0 DEF Rest, Above
<1>3. \A u \in Uid : Left(u) \in SUBSET Uid /\ IsFiniteSet(Left(u)) /\ Cardinality(Left(u)) \in Nat
  <2> TAKE u \in Uid
  <2>1. Left(u) \in SUBSET Uid
    OBVIOUS
  <2> HIDE DEF Left
  <2> QED BY <1>1, <2>1, FS_Subset, FS_CardinalityType
<1>4. ASSUME NEW m \in B, \A v \in B : ~Above(v, m)
      PROVE  FALSE
  <2>1. ASSUME NEW v \in Uid, Taken(v)', Above(v, m), Ticket[run[v].name] = Ticket[run[m].name]
        PROVE  FALSE
    <3>1. Cardinality(Left(v)) >= K
      BY <1>4, <2>1
    <3>2. Left(v) \subseteq Left(m)
      BY <1>1, <2>1 DEF Above
    <3> PICK L, M : L = Left(v) /\ M = Left(m)
      OBVIOUS
    <3>3. IsFiniteSet(M) /\ L \in SUBSET M /\ Cardinality(L) \in Nat /\ Cardinality(M) \in Nat
      BY <1>3, <2>1, <3>2
    <3> HIDE DEF Left
    <3>4. Cardinality(L) <= Cardinality(M)
      BY <3>3, FS_Subset
    <3> QED BY <1>4, <3>1, <3>3, <3>4
  <2>2. ASSUME NEW S \in SUBSET Uid, Cardinality(S) >= K,
               \A v \in S : Above(v, m) /\ Ticket[run[v].name] = Ticket[run[m].name]
        PROVE  FALSE
    <3>1. S \subseteq Left(m)
      BY <2>1, <2>2
    <3> PICK M : M = Left(m)
      OBVIOUS
    <3>2. IsFiniteSet(M) /\ S \in SUBSET M /\ Cardinality(M) \in Nat
      BY <1>3, <3>1
    <3> HIDE DEF Left
    <3>3. Cardinality(S) <= Cardinality(M) /\ Cardinality(S) \in Nat
      BY <3>2, FS_Subset, FS_CardinalityType
    <3> QED BY <1>4, <2>2, <3>2, <3>3
  <2>3. CASE m \in keeper'.doomed
    <3> DEFINE S == {v \in Uid : Here(v) /\ Terminal(v) /\ Above(v, m)
                                 /\ Ticket[run[v].name] = Ticket[run[m].name]}
    <3>1. S \in SUBSET Uid /\ \A v \in S : Above(v, m) /\ Ticket[run[v].name] = Ticket[run[m].name]
      OBVIOUS
    <3>2. ~(Cardinality(S) < K)
      BY <1>0, <2>3 DEF Disposable, Kept
    <3> HIDE DEF S
    <3>3. Cardinality(S) \in Nat
      BY <1>1, <3>1, FS_Subset, FS_CardinalityType
    <3> QED BY <2>2, <3>1, <3>2, <3>3
  <2>4. CASE m \notin keeper'.doomed
    <3>1. Taken(m) /\ Cardinality(Rest(m)) >= K
      BY <1>0, <1>4, <2>4 DEF Taken, Spares
    <3>2. Rest(m) \in SUBSET Uid
          /\ \A v \in Rest(m) : Above(v, m) /\ Ticket[run[v].name] = Ticket[run[m].name]
      BY DEF Rest
    <3> QED BY <2>2, <3>1, <3>2
  <2> QED BY <2>3, <2>4
<1>5. B = {}
  <2> HIDE DEF Few
  <2>1. B \in SUBSET Uid
    OBVIOUS
  <2> HIDE DEF B
  <2> QED BY <1>4, <2>1, OneIsOnTop DEF IInv
<1>6. ASSUME NEW u \in Uid', Taken(u)'
      PROVE  Cardinality(Rest(u)') >= KeepLast
  <2>1. u \in Uid /\ ~Few(u)
    BY <1>0, <1>5
  <2> QED BY <1>2, <1>6, <2>1
<1> QED BY <1>6 DEF Spares

-----------------------------------------------------------------------------
\* What a step does to the runs: it appends a new one, or one goes on, which
\* the retention has taken only if it had doomed it.
GoesOn(u, r) == /\ LifeOK(r) /\ r.name = run[u].name
                /\ run[u].at # 0 => r.at = run[u].at
                /\ r.by = "sweep" => Taken(u)
LEMMA StepsOfRuns ==
  ASSUME JInv, Next
  PROVE  \/ UNCHANGED run
         \/ \E r \in RunRecord : /\ LifeOK(r) /\ r.by = "none"
                                 /\ run' = Append(run, r) /\ Len(run) < scene.runs
         \/ \E u \in Uid, r \in RunRecord :
              /\ GoesOn(u, r) /\ run' = [run EXCEPT ![u] = r]
<1>1. ASSUME NEW n \in Name, CreateRun(n)
      PROVE  \E r \in RunRecord : /\ LifeOK(r) /\ r.by = "none"
                                  /\ run' = Append(run, r) /\ Len(run) < scene.runs
  <2> DEFINE r == [name |-> n, phase |-> "active", at |-> 0, archive |-> "none",
                   parked |-> FALSE, life |-> "here", by |-> "none"]
  <2>1. r \in RunRecord /\ scene.time \in Nat
    BY SweepsAssumption DEF RunRecord, SweepsAssumption, JInv, IInv, RunsOK
  <2>2. LifeOK(r) /\ r.by = "none"
    BY <2>1 DEF LifeOK
  <2>3. run' = Append(run, r) /\ Len(run) < scene.runs
    BY <1>1 DEF CreateRun
  <2> HIDE DEF r
  <2> QED BY <2>1, <2>2, <2>3
<1>2. ASSUME NEW u \in Uid,
             \/ Terminate(u) \/ StampLate(u) \/ StampVerdict(u) \/ Archive(u)
             \/ ArchiveFails(u) \/ DeleteByHand(u) \/ Finalize(u)
      PROVE  \E r \in RunRecord : GoesOn(u, r) /\ run' = [run EXCEPT ![u] = r]
  <2>1. run[u] \in RunRecord /\ LifeOK(run[u]) /\ scene.time \in Nat
    BY SweepsAssumption, UidFinite DEF SweepsAssumption, JInv, IInv, RunsOK, LivesOK
  <2>2. CASE Terminate(u)
    <3>1. PICK t \in Times, p \in BOOLEAN :
            run' = [run EXCEPT ![u] = [run[u] EXCEPT !.phase = "terminal", !.at = t, !.parked = p]]
      BY <2>2 DEF Terminate, SetRun
    <3> DEFINE r == [run[u] EXCEPT !.phase = "terminal", !.at = t, !.parked = p]
    <3>2. t \in Nat /\ t <= scene.time
      BY <2>1, <3>1 DEF Times
    <3>3. r \in RunRecord /\ GoesOn(u, r)
      BY <2>1, <2>2, <3>2 DEF Terminate, RunRecord, GoesOn, LifeOK, Taken
    <3> HIDE DEF r
    <3> QED BY <3>1, <3>3 DEF r
  <2>3. CASE StampLate(u)
    <3>1. PICK t \in Times : run' = [run EXCEPT ![u] = [run[u] EXCEPT !.at = t]]
      BY <2>3 DEF StampLate, SetRun
    <3> DEFINE r == [run[u] EXCEPT !.at = t]
    <3>2. t \in Nat /\ t <= scene.time
      BY <2>1, <3>1 DEF Times
    <3>3. r \in RunRecord /\ GoesOn(u, r)
      BY <2>1, <2>3, <3>2 DEF RunRecord, GoesOn, LifeOK, Taken, StampLate, Terminal
    <3> HIDE DEF r
    <3> QED BY <3>1, <3>3 DEF r
  <2>4. CASE Archive(u) \/ ArchiveFails(u)
    <3>1. PICK a \in {"stored", "pending"} : run' = [run EXCEPT ![u] = [run[u] EXCEPT !.archive = a]]
      BY <2>4 DEF Archive, ArchiveFails, SetRun
    <3> DEFINE r == [run[u] EXCEPT !.archive = a]
    <3>2. r \in RunRecord /\ GoesOn(u, r)
      BY <2>1, <3>1 DEF RunRecord, GoesOn, LifeOK, Taken
    <3> HIDE DEF r
    <3> QED BY <3>1, <3>2 DEF r
  <2>5. CASE DeleteByHand(u)
    <3>1. PICK l \in {"deleting", "gone"} : run' = [run EXCEPT ![u] = [run[u] EXCEPT !.life = l, !.by = "user"]]
      BY <2>5 DEF DeleteByHand, SetRun
    <3> DEFINE r == [run[u] EXCEPT !.life = l, !.by = "user"]
    <3>2. r \in RunRecord /\ GoesOn(u, r)
      BY <2>1, <3>1 DEF RunRecord, GoesOn, LifeOK
    <3> HIDE DEF r
    <3> QED BY <3>1, <3>2 DEF r
  <2>6. CASE Finalize(u)
    <3> DEFINE r == [run[u] EXCEPT !.life = "gone"]
    <3>1. run' = [run EXCEPT ![u] = r] /\ run[u].life = "deleting"
      BY <2>6 DEF Finalize
    <3>2. r \in RunRecord /\ GoesOn(u, r)
      BY <2>1, <3>1 DEF RunRecord, GoesOn, LifeOK, Taken
    <3> HIDE DEF r
    <3> QED BY <3>1, <3>2
  <2>7. CASE StampVerdict(u)
    <3> DEFINE r == [run[u] EXCEPT !.parked = TRUE]
    <3>1. run' = [run EXCEPT ![u] = r]
      BY <2>7 DEF StampVerdict, SetRun
    <3>2. r \in RunRecord /\ GoesOn(u, r)
      BY <2>1 DEF RunRecord, GoesOn, LifeOK, Taken
    <3> HIDE DEF r
    <3> QED BY <3>1, <3>2
  <2> QED BY <1>2, <2>2, <2>3, <2>4, <2>5, <2>6, <2>7
<1>3. ASSUME NEW u \in Uid, DeleteRun(u), run' # run
      PROVE  \E r \in RunRecord : GoesOn(u, r) /\ run' = [run EXCEPT ![u] = r]
  <2>1. run[u] \in RunRecord /\ LifeOK(run[u]) /\ u \in keeper.doomed
    BY <1>3, UidFinite DEF JInv, IInv, LivesOK, DeleteRun
  <2>2. LET v == Named(run[u].name)
        IN v # 0 /\ run[v].life = "here"
           /\ run' = [run EXCEPT ![v].life = "deleting", ![v].by = "sweep"]
    BY <1>3 DEF DeleteRun
  <2>3. Named(run[u].name) = u
    BY <2>1, <2>2, NamedFinds DEF JInv, IInv, KeeperOK
  <2>4. run' = [run EXCEPT ![u].life = "deleting", ![u].by = "sweep"]
    BY <2>2, <2>3
  <2> DEFINE r == [run[u] EXCEPT !.life = "deleting", !.by = "sweep"]
  <2>5. run' = [run EXCEPT ![u] = r]
    BY <2>1, <2>4 DEF JInv, IInv, RunsOK, RunRecord
  <2>6. r \in RunRecord /\ GoesOn(u, r)
    BY <2>1 DEF RunRecord, GoesOn, LifeOK, Taken
  <2> HIDE DEF r
  <2> QED BY <2>5, <2>6
<1>4. \/ UNCHANGED run
      \/ \E n \in Name : CreateRun(n)
      \/ \E u \in Uid : \/ Terminate(u) \/ StampLate(u) \/ StampVerdict(u) \/ Archive(u)
                        \/ ArchiveFails(u) \/ DeleteByHand(u) \/ Finalize(u)
      \/ \E u \in Uid : DeleteRun(u) /\ run' # run
  <2>1. CASE RetentionPass
    BY <2>1 DEF RetentionPass, ListRuns, ListChildren, OrphanVerify, DeleteOrphan, KeeperDone
  <2>2. CASE AdapterPass
    BY <2>2 DEF AdapterPass, ListAdapters, SweepObject, DeleteAdapterObject, AdoptObject, ReaperDone
  <2>3. CASE TimePasses \/ \E o \in Obj : CreateChild(o) \/ LaunchByHand(o) \/ Collect(o)
    BY <2>3 DEF TimePasses, CreateChild, LaunchByHand, Collect
  <2> QED BY <2>1, <2>2, <2>3 DEF Next
<1> QED BY <1>1, <1>2, <1>3, <1>4

\* So the runs move on, and nothing but a list takes one.
LEMMA LivesGood ==
  ASSUME JInv, IInv', UNCHANGED scene, Next
  PROVE  /\ LivesOK' /\ Len(run') <= scene.runs
         /\ keeper'.doomed \subseteq keeper.doomed => Spares'
<1>1. /\ run \in Seq(RunRecord) /\ run' \in Seq(RunRecord) /\ RunsOK'
      /\ Len(run) <= scene.runs /\ scene.runs \in Nat
  BY SweepsAssumption DEF JInv, IInv, RunsOK, SceneOK, SweepsAssumption
<1>2. CASE UNCHANGED run
  <2>1. LivesOK' /\ Len(run') <= scene.runs
    BY <1>1, <1>2 DEF JInv, LivesOK, LifeOK, Uid
  <2>2. TimesStay /\ Uid' = Uid /\ \A u \in Uid : run'[u] = run[u]
    BY <1>2 DEF TimesStay, Uid
  <2>3. keeper'.doomed \subseteq keeper.doomed => \A u \in Uid' : Taken(u)' => u \in Uid /\ Taken(u)
    BY <2>2 DEF Taken
  <2> QED BY <1>1, <2>1, <2>2, <2>3, SparesStay DEF JInv
<1>3. ASSUME NEW r \in RunRecord, LifeOK(r), r.by = "none",
             run' = Append(run, r), Len(run) < scene.runs
      PROVE  /\ LivesOK' /\ Len(run') <= scene.runs
             /\ keeper'.doomed \subseteq keeper.doomed => Spares'
  <2>1. /\ Len(run') = Len(run) + 1 /\ run'[Len(run) + 1] = r
        /\ \A u \in Uid : u \in Uid' /\ run'[u] = run[u]
        /\ Uid' = Uid \cup {Len(run) + 1}
    BY <1>1, <1>3, AppendProperties DEF Uid
  <2>2. LivesOK'
    BY <1>3, <2>1 DEF JInv, LivesOK, LifeOK
  <2>3. Len(run') <= scene.runs
    <3> PICK n \in Nat : n = Len(run)
      BY <1>1
    <3> QED BY <1>1, <1>3, <2>1
  <2>4. TimesStay
    BY <2>1 DEF TimesStay
  <2>5. \A u \in keeper.doomed : u \in Uid
    BY DEF JInv, IInv, KeeperOK
  <2>6. keeper'.doomed \subseteq keeper.doomed => \A u \in Uid' : Taken(u)' => u \in Uid /\ Taken(u)
    BY <1>3, <2>1, <2>5 DEF Taken
  <2> QED BY <1>1, <2>2, <2>3, <2>4, <2>6, SparesStay DEF JInv
<1>4. ASSUME NEW u \in Uid, NEW r \in RunRecord, GoesOn(u, r), run' = [run EXCEPT ![u] = r]
      PROVE  /\ LivesOK' /\ Len(run') <= scene.runs
             /\ keeper'.doomed \subseteq keeper.doomed => Spares'
  <2>1. /\ Len(run') = Len(run) /\ Uid' = Uid
        /\ \A v \in Uid : run'[v] = IF v = u THEN r ELSE run[v]
    BY <1>1, <1>4 DEF Uid
  <2>2. LivesOK'
    BY <1>4, <2>1 DEF JInv, LivesOK, LifeOK, GoesOn
  <2>3. TimesStay
    BY <1>4, <2>1 DEF TimesStay, GoesOn
  <2>4. keeper'.doomed \subseteq keeper.doomed => \A v \in Uid' : Taken(v)' => v \in Uid /\ Taken(v)
    BY <1>4, <2>1 DEF Taken, GoesOn
  <2> QED BY <1>1, <2>1, <2>2, <2>3, <2>4, SparesStay DEF JInv
<1> QED BY <1>2, <1>3, <1>4, StepsOfRuns

\* The scene is fixed, time and faults within it; only a list adds to the doomed.
LEMMA ScenesGood ==
  ASSUME JInv, Next
  PROVE  /\ UNCHANGED scene /\ cutoff' <= scene.time
         /\ faults' \in Nat /\ faults' <= scene.faults
         /\ PassesOK' /\ (ListRuns \/ keeper'.doomed \subseteq keeper.doomed)
<1>0. /\ scene.time \in Nat /\ scene.faults \in Nat /\ cutoff \in Nat /\ cutoff <= scene.time
      /\ faults \in Nat /\ faults <= scene.faults
  BY SweepsAssumption DEF SweepsAssumption, JInv, IInv, RunsOK, SceneOK
<1> DEFINE G == /\ UNCHANGED scene /\ cutoff' <= scene.time
                /\ faults' \in Nat /\ faults' <= scene.faults
<1>1. CASE UNCHANGED <<cutoff, keeper, reaper, faults, scene>>
  BY <1>0, <1>1 DEF JInv, PassesOK
<1>2. CASE TimePasses
  BY <1>0, <1>2 DEF TimePasses, Sweepers, JInv, PassesOK
<1>3. CASE RetentionPass
  <2>1. UNCHANGED <<cutoff, reaper>> /\ (NoFault \/ Fault)
    BY <1>3 DEF RetentionPass, ListRuns, DeleteRun, ListChildren, OrphanVerify, DeleteOrphan, KeeperDone, Keep
  <2>2. G
    BY <1>0, <2>1 DEF NoFault, Fault
  <2>3. CASE ListRuns
    <3>1. keeper'.doomed \cup keeper'.parked \subseteq keeper'.snapshot
      BY <2>3 DEF ListRuns, Keep, KeeperIdle
    <3> QED BY <2>1, <2>2, <2>3, <3>1 DEF JInv, PassesOK
  <2>4. CASE ~ListRuns
    <3>1. /\ keeper'.doomed \subseteq keeper.doomed
          /\ keeper'.parked \subseteq keeper.parked
          /\ keeper'.snapshot = keeper.snapshot \/ keeper'.doomed \cup keeper'.parked = {}
      <4> DEFINE Moves == /\ keeper'.doomed \subseteq keeper.doomed
                          /\ keeper'.parked \subseteq keeper.parked
                          /\ keeper'.snapshot = keeper.snapshot
      <4>1. keeper = [pc |-> keeper.pc, snapshot |-> keeper.snapshot, parked |-> keeper.parked,
                      doomed |-> keeper.doomed, listed |-> keeper.listed, todo |-> keeper.todo,
                      orphan |-> keeper.orphan]
        BY DEF JInv, IInv, KeeperOK, KeeperType
      <4>2. ASSUME NEW u \in Uid, DeleteRun(u)
            PROVE  Moves
        BY <4>1, <4>2 DEF DeleteRun, Keep
      <4>3. CASE keeper' = KeeperIdle
        BY <4>3 DEF KeeperIdle
      <4>4. ASSUME ListChildren, keeper' # KeeperIdle
            PROVE  Moves
        <5>1. \E kind, seen, listed :
                keeper' = [keeper EXCEPT !.pc = kind, !.parked = {}, !.todo = seen, !.listed = listed]
          BY <4>4 DEF ListChildren, Keep
        <5> QED BY <4>1, <5>1
      <4>5. ASSUME NEW o \in Obj, OrphanVerify(o) \/ DeleteOrphan(o)
            PROVE  Moves
        BY <4>1, <4>5 DEF OrphanVerify, DeleteOrphan, Keep
      <4> QED BY <1>3, <2>4, <4>2, <4>3, <4>4, <4>5 DEF RetentionPass, KeeperDone, Keep
    <3> QED BY <2>1, <2>2, <3>1 DEF JInv, PassesOK
  <2> QED BY <2>3, <2>4
<1>4. CASE AdapterPass
  <2>1. UNCHANGED <<cutoff, keeper>> /\ (NoFault \/ Fault)
    BY <1>4 DEF AdapterPass, ListAdapters, SweepObject, DeleteAdapterObject, AdoptObject, ReaperDone, Reap
  <2>2. G
    BY <1>0, <2>1 DEF NoFault, Fault
  <2>3. reaper'.todo \subseteq Adapter /\ (reaper'.verdict # << >> => reaper'.verdict[2] \in {"delete", "adopt"})
    <3>0. CASE ReaperDone
      BY <3>0 DEF ReaperDone, Reap, ReaperIdle
    <3>1. CASE ListAdapters
      <4>1. PICK seen \in SUBSET Adapter :
              \E listed : reaper' = [ReaperIdle EXCEPT !.pc = "sweep", !.todo = seen, !.listed = listed]
        BY <3>1 DEF ListAdapters, Reap
      <4> QED BY <4>1 DEF ReaperIdle
    <3>2. CASE DeleteAdapterObject \/ AdoptObject
      BY <3>2 DEF DeleteAdapterObject, AdoptObject, Reap, JInv, PassesOK, IInv, ReaperOK, ReaperType
    <3>3. ASSUME NEW o \in Obj, SweepObject(o)
          PROVE  reaper'.todo \subseteq Adapter /\ (reaper'.verdict # << >> => reaper'.verdict[2] \in {"delete", "adopt"})
      <4>1. PICK v \in {<< >>, <<o, Verdict(o), Named(RunOf[o])>>} :
              /\ reaper' = [reaper EXCEPT !.todo = @ \ {o}, !.verdict = v]
              /\ v # << >> => Verdict(o) # "keep"
        <5>1. reaper = [reaper EXCEPT !.verdict = << >>]
          BY <3>3 DEF SweepObject, JInv, IInv, ReaperOK, ReaperType
        <5> QED BY <3>3, <5>1 DEF SweepObject, Reap, JInv, IInv, ReaperOK, ReaperType
      <4>2. reaper'.todo \subseteq reaper.todo /\ reaper'.verdict = v
        BY <4>1 DEF JInv, IInv, ReaperOK, ReaperType
      <4>3. Verdict(o) \in {"keep", "delete", "adopt"}
        BY DEF Verdict
      <4>4. v # << >> => v[2] = Verdict(o)
        BY <4>1
      <4> QED BY <4>1, <4>2, <4>3, <4>4 DEF JInv, PassesOK
    <3> QED BY <1>4, <3>0, <3>1, <3>2, <3>3 DEF AdapterPass
  <2> QED BY <2>1, <2>2, <2>3 DEF JInv, PassesOK
<1>5. ASSUME NEW n \in Name, CreateRun(n)
      PROVE  UNCHANGED <<cutoff, keeper, reaper, faults, scene>>
  BY <1>5 DEF CreateRun, Sweepers
<1>6. ASSUME NEW o \in Obj, CreateChild(o) \/ LaunchByHand(o) \/ Collect(o)
      PROVE  UNCHANGED <<cutoff, keeper, reaper, faults, scene>>
  BY <1>6 DEF CreateChild, LaunchByHand, Collect, Sweepers
<1>7. ASSUME NEW u \in Uid,
             \/ Terminate(u) \/ StampLate(u) \/ StampVerdict(u) \/ Archive(u)
             \/ ArchiveFails(u) \/ DeleteByHand(u) \/ Finalize(u)
      PROVE  UNCHANGED <<cutoff, keeper, reaper, faults, scene>>
  BY <1>7 DEF Terminate, StampLate, StampVerdict, Archive, ArchiveFails, DeleteByHand, Finalize, SetRun, Sweepers
<1> QED BY <1>1, <1>2, <1>3, <1>4, <1>5, <1>6, <1>7 DEF Next

LEMMA JInvStays ==
  ASSUME JInv, MidPass = FALSE, [Next]_vars
  PROVE  JInv'
<1>1. IInv'
  BY EveryStepIsGood DEF JInv
<1>2. CASE UNCHANGED vars
  <2>1. UNCHANGED <<run, cutoff, keeper, reaper, faults, scene>>
    BY <1>2 DEF vars
  <2>2. SceneOK' /\ LivesOK' /\ PassesOK' /\ Uid' = Uid
    BY <2>1 DEF JInv, SceneOK, LivesOK, LifeOK, PassesOK, Uid
  <2>3. Spares'
    <3>1. RunsOK' /\ TimesStay
      BY <1>1, <2>1, <2>2 DEF IInv, TimesStay
    <3>2. \A u \in Uid' : Taken(u)' => u \in Uid /\ Taken(u)
      BY <2>1, <2>2 DEF Taken
    <3> QED BY <3>1, <3>2, SparesStay DEF JInv
  <2> QED BY <1>1, <2>2, <2>3 DEF JInv
<1>3. CASE Next
  <2>1. /\ UNCHANGED scene /\ cutoff' <= scene.time
        /\ faults' \in Nat /\ faults' <= scene.faults
        /\ PassesOK' /\ (ListRuns \/ keeper'.doomed \subseteq keeper.doomed)
    BY <1>3, ScenesGood
  <2>2. /\ LivesOK' /\ Len(run') <= scene.runs
        /\ keeper'.doomed \subseteq keeper.doomed => Spares'
    BY <1>1, <1>3, <2>1, LivesGood
  <2>3. SceneOK'
    BY <2>1, <2>2 DEF SceneOK
  <2>4. Spares'
    BY <2>1, <2>2, ListRunsSpares DEF JInv
  <2> QED BY <1>1, <2>1, <2>2, <2>3, <2>4 DEF JInv
<1> QED BY <1>2, <1>3

\* The fail-safes of the retention: what it takes is expendable, and whatever
\* else is deleted, stamped late or parked meanwhile, KeepLast runs of the
\* ticket that ended no earlier are spared by it (sweep's keep-last window).
THEOREM RetentionSparesTheNewest ==
  ASSUME MidPass = FALSE
  PROVE  Spec => []Inv
<1>1. Init => JInv
  <2> SUFFICES ASSUME Init PROVE JInv
    OBVIOUS
  <2>1. /\ run = << >> /\ cutoff = 0 /\ faults = 0 /\ keeper = KeeperIdle
        /\ reaper = ReaperIdle /\ scene \in Scenes
    BY DEF Init
  <2>2. scene.runs \in Nat /\ scene.time \in Nat /\ scene.faults \in Nat
    BY <2>1, SweepsAssumption DEF SweepsAssumption
  <2>3. Uid = {} /\ SceneOK
    BY <2>1, <2>2 DEF SceneOK, Uid
  <2>4. LivesOK /\ Spares /\ PassesOK
    BY <2>1, <2>3 DEF LivesOK, Spares, PassesOK, KeeperIdle, ReaperIdle
  <2> QED BY <2>3, <2>4, InitIsGood DEF JInv
<1>2. JInv /\ [Next]_vars => JInv'
  BY JInvStays
<1>3. JInv => Inv
  <2> SUFFICES ASSUME JInv PROVE Inv
    OBVIOUS
  <2>1. scene \in Scenes /\ scene.runs \in Nat /\ scene.time \in Nat /\ scene.faults \in Nat /\ cutoff \in Nat
    BY SweepsAssumption DEF SweepsAssumption, JInv, IInv, RunsOK
  <2>2. \A u \in Uid : run[u] \in RunRecord /\ LifeOK(run[u])
    BY UidFinite DEF JInv, IInv, LivesOK
  <2>3. \A u \in Uid : /\ run[u].name \in Name /\ run[u].phase \in {"active", "terminal"}
                       /\ run[u].at \in 0..scene.time /\ run[u].archive \in {"none", "pending", "stored"}
                       /\ run[u].life \in {"here", "deleting", "gone"} /\ run[u].by \in {"none", "user", "sweep"}
                       /\ (run[u].by = "none") <=> (run[u].life = "here")
    BY <2>1, <2>2 DEF RunRecord, LifeOK
  <2>4. obj \in [Obj -> Uid \cup {Unowned, Absent}]
    BY DEF JInv, IInv, ObjsOK
  <2>5. /\ keeper.todo \subseteq Obj /\ keeper.doomed \cup keeper.parked \subseteq keeper.snapshot /\ reaper.todo \subseteq Adapter
        /\ reaper.verdict # << >> => reaper.verdict[2] = "delete" \/ reaper.verdict[3] \in Uid
    BY DEF JInv, IInv, KeeperOK, KeeperType, ListOK, ReaperOK, PassesOK
  <2>6. TypeOK
    BY <2>1, <2>3, <2>4, <2>5 DEF JInv, SceneOK, TypeOK
  <2>7. NewestAreSpared
    <3> SUFFICES ASSUME NEW u \in Uid, run[u].by = "sweep"
                 PROVE  Cardinality({v \in Uid : /\ Ticket[run[v].name] = Ticket[run[u].name] /\ v # u
                                                 /\ run[v].at >= run[u].at /\ run[v].by # "sweep"}) >= KeepLast
      BY DEF NewestAreSpared
    <3> DEFINE S == {v \in Uid : /\ Ticket[run[v].name] = Ticket[run[u].name] /\ v # u
                                 /\ run[v].at >= run[u].at /\ run[v].by # "sweep"}
    <3>1. Cardinality(Rest(u)) >= KeepLast
      BY DEF JInv, Spares, Taken
    <3>2. IsFiniteSet(Uid) /\ \A v \in Uid : run[v].at \in Nat /\ v \in Nat
      BY UidFinite DEF JInv, IInv, RunRecord
    <3>3. Rest(u) \in SUBSET S /\ S \in SUBSET Uid
      BY <3>2 DEF Rest, Above, Taken
    <3> HIDE DEF S
    <3>4. IsFiniteSet(S)
      BY <3>2, <3>3, FS_Subset
    <3>5. IsFiniteSet(Rest(u)) /\ Cardinality(Rest(u)) <= Cardinality(S)
      BY <3>3, <3>4, FS_Subset
    <3>6. Cardinality(Rest(u)) \in Nat /\ Cardinality(S) \in Nat /\ KeepLast \in Nat
      BY <3>4, <3>5, FS_CardinalityType, SweepsAssumption DEF SweepsAssumption
    <3>7. Cardinality(S) >= KeepLast
      BY <3>1, <3>5, <3>6
    <3> QED BY <3>7 DEF S
  <2> QED BY <2>6, <2>7 DEF Inv, JInv, IInv
<1> QED BY <1>1, <1>2, <1>3, PTL DEF Spec
=============================================================================
