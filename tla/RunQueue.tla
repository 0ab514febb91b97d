------------------------------ MODULE RunQueue ------------------------------
(***************************************************************************)
(* The operator-level FIFO admission queue of internal/controller/queue.go:*)
(* one line of CriteriaRuns per (repo URL, class) key and, per key, the    *)
(* run that is admitted.  Every operation runs under the queue's mutex, so *)
(* each is one step.  The queue lives in the operator's memory: a restart  *)
(* starts from an empty one and fills it from the API server's list, which *)
(* comes in name order.                                                    *)
(***************************************************************************)
EXTENDS Naturals, Sequences, SequencesExt

CONSTANTS Run,        \* names of CriteriaRuns; < is the order of the names
          QueueKey,   \* (repoURL, class) pairs
          KeyOf,      \* the key a run's spec derives (queueKeyOf)
          NoRun       \* no run is admitted

ASSUME RunQueueAssumption ==
  /\ Run \subseteq Nat
  /\ KeyOf \in [Run -> QueueKey]
  /\ NoRun \notin Run

VARIABLES queues,     \* queues[k]: the entries of key k, oldest first
          running     \* running[k]: the admitted run of key k, or NoRun

queueVars == <<queues, running>>

-----------------------------------------------------------------------------
AdmittedOnly(r) == running[KeyOf[r]] = r   \* mutant: only the slot is looked at
InLine(r) == \E i \in DOMAIN queues[KeyOf[r]] : queues[KeyOf[r]][i] = r

IsAdmitted(r) == running[KeyOf[r]] = r

\* Mutants: a free slot is left alone; the newest entry takes the slot.
AdmitNobody(entries, holder) == holder
AdmitNewest(entries, holder) == IF entries # <<>> THEN entries[Len(entries)] ELSE NoRun

\* The slot rule every operation ends with: a free slot goes to the head.
AdmitHead(entries, holder) ==
  IF holder = NoRun /\ entries # <<>> THEN entries[1] ELSE holder

NewRunQueue ==
  /\ queues = [k \in QueueKey |-> <<>>]
  /\ running = [k \in QueueKey |-> NoRun]

Enqueue(r) ==
  LET k == KeyOf[r]
      entries == IF InLine(r) THEN queues[k] ELSE Append(queues[k], r)
  IN /\ queues' = [queues EXCEPT ![k] = entries]
     /\ running' = [running EXCEPT ![k] = AdmitHead(entries, @)]

Release(r) ==
  LET k == KeyOf[r]
  IN \/ /\ ~InLine(r)
        /\ UNCHANGED queueVars
     \/ \E idx \in DOMAIN queues[k] :
          LET entries == RemoveAt(queues[k], idx)
          IN /\ queues[k][idx] = r
             /\ \A i \in 1 .. idx - 1 : queues[k][i] # r
             /\ queues' = [queues EXCEPT ![k] = entries]
             /\ running' = [running EXCEPT ![k] =
                              AdmitHead(entries, IF @ = r THEN NoRun ELSE @)]

\* The runs of S in the order the API server lists them.
ListOrder(S) ==
  {s \in [1 .. Cardinality(S) -> S] : \A i, j \in DOMAIN s : i < j => s[i] < s[j]}

\* A new process: NewRunQueue, then Recover over the live runs the list holds.
Recover(S) ==
  LET Own(k) == {r \in S : KeyOf[r] = k}
  IN /\ queues' \in [QueueKey -> UNION {ListOrder(Own(k)) : k \in QueueKey}]
     /\ \A k \in QueueKey : queues'[k] \in ListOrder(Own(k))
     /\ running' = [k \in QueueKey |-> AdmitHead(queues'[k], NoRun)]

-----------------------------------------------------------------------------
\* Mutant: the admitted run is counted as pending.
CountAdmitted(r) ==
  LET k == KeyOf[r]
  IN [length |-> Len(queues[k]), running |-> running[k],
      position |-> Cardinality({i \in DOMAIN queues[k] :
                     \E j \in DOMAIN queues[k] : queues[k][j] = r /\ i <= j})]

\* What Enqueue reports into status.queue (statusLocked), as numbers.
StatusOf(r) ==
  LET k == KeyOf[r]
      pending == {i \in DOMAIN queues[k] : queues[k][i] # running[k]}
  IN [length |-> Len(queues[k]),
      running |-> running[k],
      position |-> Cardinality({i \in pending :
                     \E j \in pending : queues[k][j] = r /\ i <= j})]

-----------------------------------------------------------------------------
QueueInit == NewRunQueue

QueueService == \E r \in Run : Enqueue(r) \/ Release(r)

Restart == \E S \in SUBSET Run : IsFiniteSet(S) /\ Recover(S)

QueueNext == QueueService \/ Restart

QueueSpec == QueueInit /\ [][QueueNext]_queueVars

\* Every admitted run is released some day.
QueueFairSpec ==
  QueueSpec /\ \A r \in Run : WF_queueVars(IsAdmitted(r) /\ Release(r))

-----------------------------------------------------------------------------
(* Type invariant of the two maps of RunQueue (queue.go). *)
QueueTypeOK ==
  /\ queues \in [QueueKey -> Seq(Run)]
  /\ running \in [QueueKey -> Run \cup {NoRun}]

(* A slot is never idle while runs wait for it, and its holder is the      *)
(* oldest entry: no sequence of Enqueue, Release and Recover calls leaves  *)
(* running pointing at a run that left, or a line nobody will serve.       *)
HolderIsHead ==
  \A k \in QueueKey :
    running[k] = IF queues[k] = <<>> THEN NoRun ELSE queues[k][1]

(* A run stands in one line only, its own, and once: an Enqueue on every   *)
(* reconcile pass and a Recover at startup never duplicate an entry, so    *)
(* one Release removes the run for good.                                   *)
OneEntryPerRun ==
  \A k \in QueueKey :
    /\ \A i \in DOMAIN queues[k] : KeyOf[queues[k][i]] = k
    /\ \A i, j \in DOMAIN queues[k] : queues[k][i] = queues[k][j] => i = j

(* The lines are in order: the slot of each is held by its oldest entry    *)
(* and free only when it is empty, and no run stands in two places, after  *)
(* every sequence of Enqueue, Release and Recover calls (queue.go).        *)
LinesInv == HolderIsHead /\ OneEntryPerRun

(* The reported position is the number of Releases ahead of the run, which *)
(* only holds because the admitted run is the head of the line.            *)
PositionIsDistanceToAdmission ==
  \A r \in Run : \A i \in DOMAIN queues[KeyOf[r]] :
    queues[KeyOf[r]][i] = r => StatusOf(r).position = i - 1

(* While the process lives, a slot passes from one run to another only     *)
(* when its holder leaves the line, and then to the run next in line.      *)
SlotPassesInOrder ==
  [][\A k \in QueueKey :
       running[k] # NoRun /\ running'[k] # running[k]
         => \/ Restart
            \/ /\ queues'[k] = Tail(queues[k])
               /\ running'[k] = IF Len(queues[k]) > 1 THEN queues[k][2] ELSE NoRun]_queueVars

(* The queue's two maps implement the abstract lock: Enqueue and Release   *)
(* join at the tail or take one run out, Recover alone reorders.           *)
Lock == INSTANCE AdmissionLock WITH line <- queues
ImplementsLock == Lock!Spec

(* Once the process is no longer restarted, every queued run is admitted   *)
(* or withdrawn, as long as holders release.                               *)
QueuedIsServed ==
  <>[][~Restart]_queueVars => \A r \in Run : InLine(r) ~> (IsAdmitted(r) \/ ~InLine(r))
=============================================================================
