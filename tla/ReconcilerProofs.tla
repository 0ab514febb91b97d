---------------------------- MODULE ReconcilerProofs ----------------------------
(***************************************************************************)
(* Proofs about the admission queue and about CriteriaRunReconciler, which *)
(* holds one: for every set of runs, keys and tickets, every lag of the    *)
(* cache and every number of faults and restarts.                          *)
(*                                                                         *)
(*   QueueInv  every line is well formed and its slot is where AdmitHead   *)
(*             leaves a free one. From it: the queue's type, the slot      *)
(*             rule, no duplicate entries, in-order hand-over, and that it *)
(*             implements AdmissionLock.                                   *)
(*   IInv      the queue of the composed controller is well formed, and    *)
(*             neither a reap nor a finalizer runs ahead of the archive.   *)
(*             With it every step of the controller is a call of the queue *)
(*             or leaves it alone, so the queue's theorems hold of it.     *)
(*   OrderInv  what a pass reads is late but never wrong: seen, the queued *)
(*             watch events and the objects of the API server are points   *)
(*             of one history (Chain), and a decision taken on a point of  *)
(*             it that concerns something final is right now. From it: a   *)
(*             finished run gets no second Job, a reap that may restart    *)
(*             the runner is preceded by the deferral mark, and the runs   *)
(*             of a ticket are started one at a time.                      *)
(*   SlotIsHeld the run whose Job is there and that is not over holds the  *)
(*             slot of its key, until a restart forgets who did.           *)
(***************************************************************************)
EXTENDS CriteriaRunReconciler, FiniteSetTheorems, SequenceTheorems, TLAPS

-----------------------------------------------------------------------------
(* The admission queue. *)

\* The sequences that can be the line of key k.
IsLineOf(s, k) ==
  /\ s \in Seq(Run)
  /\ \A i \in DOMAIN s : KeyOf[s[i]] = k
  /\ \A i, j \in DOMAIN s : s[i] = s[j] => i = j

\* What every operation preserves: every line is well formed and its slot is
\* where AdmitHead leaves a free one.
QueueInv ==
  /\ DOMAIN queues = QueueKey /\ queues = [k \in QueueKey |-> queues[k]]
  /\ \A k \in QueueKey : IsLineOf(queues[k], k)
  /\ running = [k \in QueueKey |-> AdmitHead(queues[k], NoRun)]

-----------------------------------------------------------------------------
(* Taking position idx out of a sequence keeps the others in their order:  *)
(* the append(entries[:idx], entries[idx+1:]...) of Release.               *)
LEMMA RemoveAtProperties ==
  ASSUME NEW R, NEW s \in Seq(R), NEW idx \in DOMAIN s
  PROVE  /\ RemoveAt(s, idx) \in Seq(R)
         /\ Len(RemoveAt(s, idx)) = Len(s) - 1
         /\ \A i \in 1 .. Len(s) - 1 :
              RemoveAt(s, idx)[i] = IF i < idx THEN s[i] ELSE s[i + 1]
<1> DEFINE front == SubSeq(s, 1, idx - 1)
           back == SubSeq(s, idx + 1, Len(s))
<1>1. /\ Len(s) \in Nat /\ DOMAIN s = 1 .. Len(s)
      /\ idx \in 1 .. Len(s)
  OBVIOUS
<1>2. /\ front \in Seq(R) /\ Len(front) = idx - 1
      /\ \A i \in 1 .. idx - 1 : front[i] = s[i]
  BY <1>1
<1>3. /\ back \in Seq(R) /\ Len(back) = Len(s) - idx
      /\ \A i \in 1 .. Len(s) - idx : back[i] = s[idx + i]
  BY <1>1
<1> HIDE DEF front, back
<1>4. RemoveAt(s, idx) = front \o back
  BY DEF RemoveAt, front, back
<1> DEFINE t == front \o back
<1>5. /\ t \in Seq(R)
      /\ Len(t) = Len(front) + Len(back)
      /\ \A i \in 1 .. Len(front) + Len(back) :
           t[i] = IF i <= Len(front) THEN front[i] ELSE back[i - Len(front)]
  BY <1>2, <1>3, ConcatProperties
<1> HIDE DEF t
<1>6. Len(front) + Len(back) = Len(s) - 1
  BY <1>1, <1>2, <1>3
<1>7. ASSUME NEW i \in 1 .. Len(s) - 1
      PROVE  t[i] = IF i < idx THEN s[i] ELSE s[i + 1]
  <2>1. CASE i < idx
    BY <2>1, <1>1, <1>2, <1>5, <1>6
  <2>2. CASE ~(i < idx)
    <3>1. t[i] = back[i - (idx - 1)]
      BY <2>2, <1>1, <1>2, <1>5, <1>6
    <3>2. i - (idx - 1) \in 1 .. Len(s) - idx
      BY <2>2, <1>1
    <3>3. back[i - (idx - 1)] = s[idx + (i - (idx - 1))]
      BY <3>2, <1>3
    <3>4. idx + (i - (idx - 1)) = i + 1
      BY <1>1
    <3> QED
      BY <2>2, <3>1, <3>3, <3>4
  <2> QED
    BY <2>1, <2>2
<1> QED
  BY <1>4, <1>5, <1>6, <1>7 DEF t

(* A line stays well formed when a run leaves it, and the run that left is *)
(* in it no more.                                                          *)
LEMMA LeaveLine ==
  ASSUME NEW k \in QueueKey, NEW s, IsLineOf(s, k), NEW idx \in DOMAIN s
  PROVE  /\ IsLineOf(RemoveAt(s, idx), k)
         /\ \A i \in DOMAIN RemoveAt(s, idx) : RemoveAt(s, idx)[i] # s[idx]
<1> DEFINE t == RemoveAt(s, idx)
<1>1. s \in Seq(Run) /\ Len(s) \in Nat /\ DOMAIN s = 1 .. Len(s)
  BY DEF IsLineOf
<1>2. /\ t \in Seq(Run) /\ Len(t) = Len(s) - 1
      /\ \A i \in 1 .. Len(s) - 1 : t[i] = IF i < idx THEN s[i] ELSE s[i + 1]
  BY <1>1, RemoveAtProperties
<1>3. DOMAIN t = 1 .. Len(s) - 1
  BY <1>2
<1> HIDE DEF t
<1>4. \A i \in DOMAIN t : KeyOf[t[i]] = k
  BY <1>1, <1>2, <1>3 DEF IsLineOf
<1>5. \A i, j \in DOMAIN t : t[i] = t[j] => i = j
  BY <1>1, <1>2, <1>3, SMTT(30) DEF IsLineOf
<1>6. \A i \in DOMAIN t : t[i] # s[idx]
  BY <1>1, <1>2, <1>3 DEF IsLineOf
<1> QED
  BY <1>2, <1>4, <1>5, <1>6 DEF IsLineOf, t

(* A run that is not in its line joins it at the tail (Enqueue).           *)
LEMMA JoinLine ==
  ASSUME NEW r \in Run, NEW s, IsLineOf(s, KeyOf[r]),
         \A i \in DOMAIN s : s[i] # r
  PROVE  IsLineOf(Append(s, r), KeyOf[r])
<1> DEFINE t == Append(s, r)
<1>1. s \in Seq(Run) /\ Len(s) \in Nat /\ DOMAIN s = 1 .. Len(s)
  BY DEF IsLineOf
<1>2. /\ t \in Seq(Run) /\ DOMAIN t = 1 .. Len(s) + 1
      /\ \A i \in 1 .. Len(s) : t[i] = s[i]
      /\ t[Len(s) + 1] = r
  BY <1>1, AppendProperties
<1> HIDE DEF t
<1>3. \A i \in DOMAIN t : KeyOf[t[i]] = KeyOf[r]
  BY <1>1, <1>2 DEF IsLineOf
<1>4. \A i, j \in DOMAIN t : t[i] = t[j] => i = j
  BY <1>1, <1>2 DEF IsLineOf
<1> QED
  BY <1>2, <1>3, <1>4 DEF IsLineOf, t

(* The API server's list of the live runs of a key is a line of that key   *)
(* (Recover).                                                              *)
LEMMA ListedLine ==
  ASSUME NEW k \in QueueKey, NEW S \in SUBSET Run, IsFiniteSet(S),
         \A r \in S : KeyOf[r] = k, NEW s \in ListOrder(S)
  PROVE  IsLineOf(s, k)
<1>1. Cardinality(S) \in Nat
  BY FS_CardinalityType
<1>2. s \in [1 .. Cardinality(S) -> S]
  BY DEF ListOrder
<1>3. s \in Seq(Run)
  <2>1. s = [i \in 1 .. Cardinality(S) |-> s[i]] /\ \A i \in 1 .. Cardinality(S) : s[i] \in Run
    BY <1>2
  <2> QED
    BY <1>1, <2>1
<1>4. \A i, j \in DOMAIN s : s[i] = s[j] => i = j
  <2> SUFFICES ASSUME NEW i \in DOMAIN s, NEW j \in DOMAIN s, s[i] = s[j], i # j
               PROVE  FALSE
    OBVIOUS
  <2>1. /\ i \in 1 .. Cardinality(S) /\ j \in 1 .. Cardinality(S)
        /\ s[i] \in Nat /\ s[j] \in Nat
    BY <1>2, RunQueueAssumption DEF RunQueueAssumption
  <2>2. i < j => s[i] < s[j]
    BY DEF ListOrder
  <2>3. j < i => s[j] < s[i]
    BY DEF ListOrder
  <2> QED
    BY <1>1, <2>1, <2>2, <2>3
<1> QED
  BY <1>2, <1>3, <1>4 DEF IsLineOf
-----------------------------------------------------------------------------
(* The well-formedness of QueueInv says what the three invariants say.     *)
LEMMA QueueInvImplies == QueueInv => QueueTypeOK /\ HolderIsHead /\ OneEntryPerRun
<1> SUFFICES ASSUME QueueInv PROVE QueueTypeOK /\ HolderIsHead /\ OneEntryPerRun
  OBVIOUS
<1>1. \A k \in QueueKey : /\ queues[k] \in Seq(Run)
                          /\ running[k] = AdmitHead(queues[k], NoRun)
  BY DEF QueueInv, IsLineOf
<1>2. \A k \in QueueKey : queues[k] # <<>> => queues[k][1] \in Run
  BY <1>1
<1>3. \A k \in QueueKey : running[k] = IF queues[k] = <<>> THEN NoRun ELSE queues[k][1]
  BY <1>1 DEF AdmitHead
<1>4. QueueTypeOK
  BY <1>1, <1>2, <1>3 DEF QueueTypeOK, QueueInv
<1>5. HolderIsHead
  BY <1>3 DEF HolderIsHead
<1>6. OneEntryPerRun
  BY DEF OneEntryPerRun, QueueInv, IsLineOf
<1> QED
  BY <1>4, <1>5, <1>6

(* An empty queue, as NewRunQueue makes it, satisfies the invariant.       *)
LEMMA QueueInvInit == QueueInit => QueueInv
<1> SUFFICES ASSUME QueueInit PROVE QueueInv
  OBVIOUS
<1>1. \A k \in QueueKey : queues[k] = <<>> /\ running[k] = NoRun
  BY DEF QueueInit, NewRunQueue
<1>2. \A k \in QueueKey : IsLineOf(queues[k], k)
  <2>1. <<>> \in Seq(Run) /\ DOMAIN <<>> = {}
    OBVIOUS
  <2>2. \A k : IsLineOf(<<>>, k)
    BY <2>1, Zenon DEF IsLineOf
  <2> QED
    BY <1>1, <2>2
<1> QED
  BY <1>1, <1>2 DEF QueueInv, QueueInit, NewRunQueue, AdmitHead

(* Enqueue is idempotent for a run in line and appends any other.          *)
LEMMA EnqueueStep ==
  ASSUME QueueInv, NEW r \in Run, Enqueue(r)
  PROVE  /\ QueueInv'
         /\ \/ queues' = queues
            \/ /\ \A i \in DOMAIN queues[KeyOf[r]] : queues[KeyOf[r]][i] # r
               /\ queues' = [queues EXCEPT ![KeyOf[r]] = Append(@, r)]
<1> DEFINE k == KeyOf[r]
           entries == IF InLine(r) THEN queues[k] ELSE Append(queues[k], r)
<1>1. k \in QueueKey
  BY RunQueueAssumption DEF RunQueueAssumption
<1>2. IsLineOf(queues[k], k) /\ queues[k] \in Seq(Run)
  BY <1>1 DEF QueueInv, IsLineOf
<1>3. ~InLine(r) => \A i \in DOMAIN queues[k] : queues[k][i] # r
  BY DEF InLine
<1>4. IsLineOf(entries, k)
  BY <1>2, <1>3, JoinLine
<1>5. /\ queues' = [queues EXCEPT ![k] = entries]
      /\ running' = [running EXCEPT ![k] = AdmitHead(entries, running[k])]
  BY DEF Enqueue
<1>6. AdmitHead(entries, running[k]) = AdmitHead(entries, NoRun)
  <2>1. running[k] = AdmitHead(queues[k], NoRun)
    BY <1>1 DEF QueueInv
  <2>2. CASE InLine(r)
    BY <2>1, <2>2 DEF AdmitHead
  <2>3. CASE ~InLine(r) /\ queues[k] = <<>>
    BY <2>1, <2>3 DEF AdmitHead
  <2>4. CASE ~InLine(r) /\ queues[k] # <<>>
    <3>1. /\ Append(queues[k], r) # <<>>
          /\ Append(queues[k], r)[1] = queues[k][1]
          /\ queues[k][1] \in Run
      BY <1>2, <2>4, AppendProperties
    <3>2. queues[k][1] # NoRun
      BY <3>1, RunQueueAssumption DEF RunQueueAssumption
    <3> QED
      BY <2>1, <2>4, <3>1, <3>2 DEF AdmitHead
  <2> QED
    BY <2>2, <2>3, <2>4
<1>7. DOMAIN queues = QueueKey /\ DOMAIN running = QueueKey
  BY DEF QueueInv
<1> HIDE DEF entries
<1>8. QueueInv'
  <2>1. queues' = [q \in QueueKey |-> IF q = k THEN entries ELSE queues[q]]
    BY <1>5, <1>7 DEF QueueInv
  <2>2. running' = [q \in QueueKey |-> AdmitHead(queues'[q], NoRun)]
    BY <1>1, <1>5, <1>6, <2>1 DEF QueueInv
  <2>3. \A q \in QueueKey : IsLineOf(queues'[q], q)
    BY <1>4, <2>1 DEF QueueInv
  <2> QED
    BY <2>1, <2>2, <2>3 DEF QueueInv, IsLineOf, AdmitHead
<1>9. InLine(r) => queues' = queues
  BY <1>1, <1>5, <1>7 DEF entries, QueueInv
<1>10. ~InLine(r) => queues' = [queues EXCEPT ![k] = Append(@, r)]
  BY <1>5 DEF entries
<1> QED
  BY <1>3, <1>8, <1>9, <1>10

(* Release takes one entry of the run out of its line; only when the run   *)
(* was the head does the slot move on, to the entry behind it.             *)
LEMMA ReleaseStep ==
  ASSUME QueueInv, NEW r \in Run, Release(r)
  PROVE  /\ QueueInv'
         /\ \/ queues' = queues
            \/ \E idx \in DOMAIN queues[KeyOf[r]] :
                 /\ queues[KeyOf[r]][idx] = r
                 /\ queues' = [queues EXCEPT ![KeyOf[r]] = RemoveAt(@, idx)]
<1> DEFINE k == KeyOf[r]
<1>1. k \in QueueKey
  BY RunQueueAssumption DEF RunQueueAssumption
<1>2. /\ IsLineOf(queues[k], k) /\ queues[k] \in Seq(Run)
      /\ Len(queues[k]) \in Nat /\ DOMAIN queues[k] = 1 .. Len(queues[k])
  BY <1>1 DEF QueueInv, IsLineOf
<1>3. CASE UNCHANGED queueVars
  BY <1>3 DEF queueVars, QueueInv, IsLineOf, AdmitHead
<1>4. CASE ~ UNCHANGED queueVars
  <2>1. PICK idx \in DOMAIN queues[k] :
          /\ queues[k][idx] = r
          /\ queues' = [queues EXCEPT ![k] = RemoveAt(queues[k], idx)]
          /\ running' = [running EXCEPT ![k] =
                           AdmitHead(RemoveAt(queues[k], idx),
                                     IF running[k] = r THEN NoRun ELSE running[k])]
    BY <1>4 DEF Release
  <2> DEFINE entries == RemoveAt(queues[k], idx)
  <2>2. /\ entries \in Seq(Run) /\ Len(entries) = Len(queues[k]) - 1
        /\ \A i \in 1 .. Len(queues[k]) - 1 :
             entries[i] = IF i < idx THEN queues[k][i] ELSE queues[k][i + 1]
    BY <1>2, RemoveAtProperties
  <2>3. IsLineOf(entries, k)
    BY <1>1, <1>2, LeaveLine
  <2> HIDE DEF entries
  <2>4. running[k] = queues[k][1] /\ queues[k][1] \in Run /\ 1 \in DOMAIN queues[k]
    BY <1>1, <1>2 DEF QueueInv, AdmitHead
  <2>5. AdmitHead(entries, IF running[k] = r THEN NoRun ELSE running[k])
          = AdmitHead(entries, NoRun)
    <3>1. CASE running[k] = r
      BY <3>1
    <3>2. CASE running[k] # r
      <4>1. idx # 1 /\ idx \in 1 .. Len(queues[k])
        BY <3>2, <2>1, <2>4, <1>2
      <4>2. entries[1] = queues[k][1] /\ Len(entries) > 0 /\ entries # <<>>
        BY <4>1, <2>2, <1>2
      <4>3. running[k] # NoRun
        BY <2>4, RunQueueAssumption DEF RunQueueAssumption
      <4> QED
        BY <3>2, <4>2, <4>3, <2>4 DEF AdmitHead
    <3> QED
      BY <3>1, <3>2
  <2>6. queues' = [q \in QueueKey |-> IF q = k THEN entries ELSE queues[q]]
    BY <2>1 DEF QueueInv, entries
  <2>7. running' = [q \in QueueKey |-> AdmitHead(queues'[q], NoRun)]
    BY <1>1, <2>1, <2>5, <2>6 DEF QueueInv, entries
  <2>8. \A q \in QueueKey : IsLineOf(queues'[q], q)
    BY <2>3, <2>6 DEF QueueInv
  <2>9. QueueInv'
    BY <2>6, <2>7, <2>8 DEF QueueInv, IsLineOf, AdmitHead
  <2> QED
    BY <2>1, <2>9
<1> QED
  BY <1>3, <1>4 DEF queueVars

(* Recover at startup leaves every line sorted by name, without            *)
(* duplicates, and its slot with the first entry.                          *)
LEMMA RecoverStep ==
  ASSUME NEW S \in SUBSET Run, IsFiniteSet(S), Recover(S)
  PROVE  QueueInv'
<1> DEFINE Own(k) == {r \in S : KeyOf[r] = k}
<1>1. /\ queues' \in [QueueKey -> UNION {ListOrder(Own(k)) : k \in QueueKey}]
      /\ \A k \in QueueKey : queues'[k] \in ListOrder(Own(k))
      /\ running' = [k \in QueueKey |-> AdmitHead(queues'[k], NoRun)]
  BY DEF Recover
<1>2. ASSUME NEW k \in QueueKey
      PROVE  IsLineOf(queues'[k], k)
  <2>1. Own(k) \in SUBSET S /\ Own(k) \in SUBSET Run
    OBVIOUS
  <2>2. IsFiniteSet(Own(k))
    BY <2>1, FS_Subset
  <2>3. \A r \in Own(k) : KeyOf[r] = k
    OBVIOUS
  <2> HIDE DEF Own
  <2> QED
    BY <1>1, <2>1, <2>2, <2>3, ListedLine
<1> HIDE DEF Own
<1> QED
  BY <1>1, <1>2 DEF QueueInv, IsLineOf, AdmitHead

(* Every operation of the queue preserves the invariant.                   *)
LEMMA QueueInvStep == QueueInv /\ [QueueNext]_queueVars => QueueInv'
<1> SUFFICES ASSUME QueueInv, [QueueNext]_queueVars PROVE QueueInv'
  OBVIOUS
<1>1. ASSUME NEW r \in Run, Enqueue(r) PROVE QueueInv'
  BY <1>1, EnqueueStep
<1>2. ASSUME NEW r \in Run, Release(r) PROVE QueueInv'
  BY <1>2, ReleaseStep
<1>3. ASSUME NEW S \in SUBSET Run, IsFiniteSet(S), Recover(S) PROVE QueueInv'
  BY <1>3, RecoverStep
<1>4. CASE UNCHANGED queueVars
  BY <1>4 DEF queueVars, QueueInv, IsLineOf, AdmitHead
<1> QED
  BY <1>1, <1>2, <1>3, <1>4 DEF QueueNext, QueueService, Restart

-----------------------------------------------------------------------------
(* Whatever is enqueued, released and recovered, in any order, the maps of *)
(* RunQueue keep their type.                                               *)
THEOREM QueueTypeCorrect == QueueSpec => []QueueTypeOK
<1>1. QueueInv => QueueTypeOK
  BY QueueInvImplies
<1> QED
  BY <1>1, QueueInvInit, QueueInvStep, PTL DEF QueueSpec

(* A slot is never idle while runs wait, its holder is the head of the     *)
(* line, and no run ever stands in two places, so one Release removes it   *)
(* for good: for every set of runs and keys.                               *)
THEOREM LinesAreInOrder == QueueSpec => []LinesInv
<1>1. QueueInv => LinesInv
  BY QueueInvImplies DEF LinesInv
<1> QED
  BY <1>1, QueueInvInit, QueueInvStep, PTL DEF QueueSpec

-----------------------------------------------------------------------------
(* The runs counted for the entry at position i are those from the second  *)
(* place of the line up to it: the head, and nobody else, is admitted.     *)
LEMMA PendingAhead ==
  ASSUME QueueTypeOK, HolderIsHead, OneEntryPerRun,
         NEW r \in Run, NEW i \in DOMAIN queues[KeyOf[r]], queues[KeyOf[r]][i] = r
  PROVE  StatusOf(r).position = i - 1
<1> DEFINE k == KeyOf[r]
           line == queues[k]
           pending == {n \in DOMAIN line : line[n] # running[k]}
<1>1. k \in QueueKey /\ line \in Seq(Run)
  BY RunQueueAssumption DEF RunQueueAssumption, QueueTypeOK
<1>2. Len(line) \in Nat /\ DOMAIN line = 1 .. Len(line) /\ i \in 1 .. Len(line)
  BY <1>1
<1>3. running[k] = line[1]
  BY <1>1, <1>2 DEF HolderIsHead
<1>4. \A m, n \in DOMAIN line : line[m] = line[n] => m = n
  BY <1>1 DEF OneEntryPerRun
<1>5. pending = 2 .. Len(line)
  BY <1>2, <1>3, <1>4
<1>6. {n \in pending : \E j \in pending : line[j] = r /\ n <= j} = 2 .. i
  BY <1>2, <1>4, <1>5
<1>7. Cardinality(2 .. i) = i - 1
  BY <1>2, FS_Interval
<1> QED
  BY <1>6, <1>7 DEF StatusOf

(* What Enqueue reports into status.queue is, for every line, the number of *)
(* Releases after which the run is admitted (statusLocked).                *)
THEOREM ReportedPositionIsTrue == QueueSpec => []PositionIsDistanceToAdmission
<1>1. QueueInv => PositionIsDistanceToAdmission
  BY QueueInvImplies, PendingAhead DEF PositionIsDistanceToAdmission
<1> QED
  BY <1>1, QueueInvInit, QueueInvStep, PTL DEF QueueSpec

-----------------------------------------------------------------------------
(* Taking the head out of a line leaves its tail.                          *)
LEMMA RemoveHead ==
  ASSUME NEW R, NEW s \in Seq(R), 1 \in DOMAIN s
  PROVE  RemoveAt(s, 1) = Tail(s)
<1>1. Len(s) \in Nat \ {0} /\ s # <<>> /\ DOMAIN s = 1 .. Len(s)
  OBVIOUS
<1>2. /\ Tail(s) \in Seq(R) /\ Len(Tail(s)) = Len(s) - 1
      /\ \A i \in 1 .. Len(s) - 1 : Tail(s)[i] = s[i + 1]
  BY <1>1
<1>3. /\ RemoveAt(s, 1) \in Seq(R)
      /\ Len(RemoveAt(s, 1)) = Len(s) - 1
      /\ \A i \in 1 .. Len(s) - 1 : RemoveAt(s, 1)[i] = IF i < 1 THEN s[i] ELSE s[i + 1]
  BY RemoveAtProperties
<1>4. \A i \in 1 .. Len(s) - 1 : RemoveAt(s, 1)[i] = Tail(s)[i]
  BY <1>1, <1>2, <1>3
<1> QED
  BY <1>2, <1>3, <1>4, SeqEqual

(* Between restarts a held slot changes hands only when its holder leaves, *)
(* and goes to the run behind it, for every set of runs and keys.          *)
THEOREM SlotPassesOn == QueueSpec => SlotPassesInOrder
<1> DEFINE Passes(k) ==
      running[k] # NoRun /\ running'[k] # running[k]
        => \/ Restart
           \/ /\ queues'[k] = Tail(queues[k])
              /\ running'[k] = IF Len(queues[k]) > 1 THEN queues[k][2] ELSE NoRun
<1>1. ASSUME QueueInv, QueueInv', NEW r \in Run, Enqueue(r), NEW k \in QueueKey PROVE Passes(k)
  <2> SUFFICES ASSUME running[k] # NoRun PROVE running'[k] = running[k]
    OBVIOUS
  <2>1. running[k] = AdmitHead(queues[k], NoRun) /\ running'[k] = AdmitHead(queues'[k], NoRun)
    BY <1>1 DEF QueueInv
  <2>2. /\ queues[k] \in Seq(Run) /\ queues[k] # <<>>
        /\ queues' = queues \/ queues' = [queues EXCEPT ![KeyOf[r]] = Append(@, r)]
    BY <1>1, <2>1, EnqueueStep DEF QueueInv, IsLineOf, AdmitHead
  <2>3. /\ Append(queues[k], r) # <<>>
        /\ Append(queues[k], r)[1] = queues[k][1]
    BY <2>2, AppendProperties
  <2>4. queues'[k] = queues[k] \/ queues'[k] = Append(queues[k], r)
    BY <1>1, <2>2 DEF QueueInv
  <2> QED
    BY <2>1, <2>2, <2>3, <2>4 DEF AdmitHead
<1>2. ASSUME QueueInv, QueueInv', NEW r \in Run, Release(r), NEW k \in QueueKey PROVE Passes(k)
  <2> SUFFICES ASSUME running[k] # NoRun, running'[k] # running[k]
               PROVE  /\ queues'[k] = Tail(queues[k])
                      /\ running'[k] = IF Len(queues[k]) > 1 THEN queues[k][2] ELSE NoRun
    OBVIOUS
  <2> DEFINE s == queues[k]
  <2>1. running[k] = AdmitHead(s, NoRun) /\ running'[k] = AdmitHead(queues'[k], NoRun)
    BY <1>2 DEF QueueInv
  <2>2. /\ s \in Seq(Run) /\ s # <<>> /\ 1 \in DOMAIN s
        /\ running[k] = s[1]
    BY <1>2, <2>1 DEF QueueInv, IsLineOf, AdmitHead
  <2>3. \/ queues' = queues
        \/ \E idx \in DOMAIN queues[KeyOf[r]] :
             /\ queues[KeyOf[r]][idx] = r
             /\ queues' = [queues EXCEPT ![KeyOf[r]] = RemoveAt(@, idx)]
    BY <1>2, ReleaseStep
  <2>4. queues'[k] # queues[k]
    BY <2>1
  <2>5. PICK idx \in DOMAIN s : queues'[k] = RemoveAt(s, idx)
    BY <1>2, <2>3, <2>4 DEF QueueInv
  <2>6. /\ Len(RemoveAt(s, idx)) = Len(s) - 1
        /\ \A i \in 1 .. Len(s) - 1 : RemoveAt(s, idx)[i] = IF i < idx THEN s[i] ELSE s[i + 1]
        /\ RemoveAt(s, idx) \in Seq(Run)
    BY <2>2, RemoveAtProperties
  <2>7. idx = 1
    <3> SUFFICES ASSUME idx # 1 PROVE FALSE
      OBVIOUS
    <3>1. 1 < idx /\ Len(s) - 1 \in Nat \ {0}
      BY <2>2
    <3>2. RemoveAt(s, idx)[1] = s[1] /\ RemoveAt(s, idx) # <<>>
      BY <2>6, <3>1
    <3> QED
      BY <2>1, <2>2, <2>5, <3>2 DEF AdmitHead
  <2>8. queues'[k] = Tail(s)
    BY <2>2, <2>5, <2>7, RemoveHead
  <2>9. running'[k] = IF Len(s) > 1 THEN s[2] ELSE NoRun
    <3>1. /\ Len(s) \in Nat \ {0} /\ Tail(s) \in Seq(Run) /\ Len(Tail(s)) = Len(s) - 1
          /\ \A i \in 1 .. Len(s) - 1 : Tail(s)[i] = s[i + 1]
      BY <2>2
    <3>2. Tail(s) = <<>> <=> Len(s) = 1
      <4>1. \A u \in Seq(Run) : u = <<>> <=> Len(u) = 0
        BY EmptySeq
      <4> HIDE DEF s
      <4> QED
        BY <3>1, <4>1
    <3>3. Len(s) > 1 => Tail(s)[1] = s[2]
      BY <3>1
    <3> QED
      BY <2>1, <2>8, <3>1, <3>2, <3>3, SMTT(30) DEF AdmitHead
  <2> QED
    BY <2>8, <2>9
<1>3. QueueInv /\ QueueInv' /\ [QueueNext]_queueVars => [\A k \in QueueKey : Passes(k)]_queueVars
  BY <1>1, <1>2, Zenon DEF QueueNext, QueueService
<1>4. QueueInv /\ [QueueNext]_queueVars => QueueInv'
  BY QueueInvStep
<1> QED
  BY <1>3, <1>4, QueueInvInit, PTL DEF QueueSpec, SlotPassesInOrder

-----------------------------------------------------------------------------
(* An Enqueue or Release of the queue is a Join, a Leave or a stutter of   *)
(* the abstract lock; Recover is its Restart.                              *)
LEMMA LockStep == QueueInv /\ [QueueNext]_queueVars => [Lock!Next]_queues
<1> SUFFICES ASSUME QueueInv, [QueueNext]_queueVars PROVE [Lock!Next]_queues
  OBVIOUS
<1>1. ASSUME NEW r \in Run, Enqueue(r), queues' # queues PROVE Lock!Next
  <2>1. KeyOf[r] \in QueueKey
    BY RunQueueAssumption DEF RunQueueAssumption
  <2>2. Lock!Join(KeyOf[r], r)
    BY <1>1, EnqueueStep DEF Lock!Join
  <2> QED
    BY <2>1, <2>2 DEF Lock!Next
<1>2. ASSUME NEW r \in Run, Release(r), queues' # queues PROVE Lock!Next
  <2> DEFINE k == KeyOf[r]
             s == queues[k]
  <2>1. k \in QueueKey
    BY RunQueueAssumption DEF RunQueueAssumption
  <2>2. IsLineOf(s, k) /\ s \in Seq(Run) /\ DOMAIN s = 1 .. Len(s) /\ Len(s) \in Nat
    BY <2>1 DEF QueueInv, IsLineOf
  <2>3. PICK idx \in DOMAIN s : s[idx] = r /\ queues' = [queues EXCEPT ![k] = RemoveAt(s, idx)]
    BY <1>2, ReleaseStep
  <2> DEFINE t == RemoveAt(s, idx)
  <2>4. /\ t \in Seq(Run) /\ Len(t) = Len(s) - 1 /\ DOMAIN t = 1 .. Len(s) - 1
        /\ \A i \in 1 .. Len(s) - 1 : t[i] = IF i < idx THEN s[i] ELSE s[i + 1]
    BY <2>2, RemoveAtProperties, SMTT(30)
  <2>5. queues'[k] = t /\ \A j \in QueueKey \ {k} : queues'[j] = queues[j]
    BY <2>1, <2>3 DEF QueueInv
  <2>6. \A i \in DOMAIN t : t[i] # r
    BY <2>1, <2>2, <2>3, LeaveLine
  <2>7. Lock!KeepsOrder(s, t)
    <3> HIDE DEF t
    <3> SUFFICES ASSUME NEW i \in DOMAIN s, NEW j \in DOMAIN s,
                        NEW m \in DOMAIN t, NEW n \in DOMAIN t,
                        s[i] = t[m], s[j] = t[n], i < j
                 PROVE  m < n
      BY DEF Lock!KeepsOrder
    <3>1. \A a, b \in DOMAIN s : s[a] = s[b] => a = b
      BY <2>2 DEF IsLineOf
    <3> HIDE DEF s
    <3>2. \A a \in DOMAIN t : \E b \in DOMAIN s :
            b = (IF a < idx THEN a ELSE a + 1) /\ t[a] = s[b]
      BY <2>2, <2>4
    <3>3. i = IF m < idx THEN m ELSE m + 1
      BY <3>1, <3>2
    <3>4. j = IF n < idx THEN n ELSE n + 1
      BY <3>1, <3>2
    <3> QED
      BY <3>3, <3>4, <2>2, <2>4
  <2>8. Lock!Leave(k, r)
    BY <2>3, <2>4, <2>5, <2>6, <2>7 DEF Lock!Leave
  <2> QED
    BY <2>1, <2>8 DEF Lock!Next
<1>3. ASSUME NEW S \in SUBSET Run, IsFiniteSet(S), Recover(S) PROVE Lock!Next
  <2>1. DOMAIN queues' = QueueKey
    BY <1>3, RecoverStep DEF QueueInv
  <2>2. ASSUME NEW k \in QueueKey PROVE Lock!ByName(queues'[k])
    <3>1. queues'[k] \in ListOrder({r \in S : KeyOf[r] = k})
      BY <1>3 DEF Recover
    <3> QED
      BY <3>1 DEF ListOrder, Lock!ByName
  <2>3. Lock!Restart
    BY <2>1, <2>2 DEF Lock!Restart
  <2> QED
    BY <2>3 DEF Lock!Next
<1> QED
  BY <1>1, <1>2, <1>3 DEF QueueNext, QueueService, Restart, queueVars

(* The operator's queue implements the abstract lock: runs join at the     *)
(* tail, one leaving disturbs nobody's order, and only a restart reorders. *)
THEOREM QueueImplementsLock == QueueSpec => ImplementsLock
<1>1. QueueInit => Lock!Init
  BY DEF QueueInit, NewRunQueue, Lock!Init
<1> QED
  BY <1>1, QueueInvInit, QueueInvStep, LockStep, PTL
     DEF QueueSpec, ImplementsLock, Lock!Spec

-----------------------------------------------------------------------------
(* The reconciler that holds it. *)

PassRecord == [step : PassStep, run : Run \cup {NoRun}, view : CRObject, goal : Goal,
               jobPhase : Phase, obs : Observation, provisioned : BOOLEAN]

\* The mark "archived" on an object of run r means that castle has a record.
Recorded(r) == On("archive") => archive[r] # "none"
Attested(o, r) == Has(o, "archived") => Recorded(r)

\* What the API server, the cache and the watch hold.
Objects ==
  /\ cr \in [Run -> CRObject] /\ seen \in [Run -> CRObject]
  /\ watch \in Seq([Run -> CRObject]) /\ Len(watch) <= scene.lag
AllAttested ==
  \A r \in Run :
    /\ Attested(cr[r], r) /\ Attested(seen[r], r)
    /\ \A i \in DOMAIN watch : Attested(watch[i][r], r)

\* Only finitely many runs have been created so far, so that a restart lists
\* finitely many.
Born == {r \in Run : cr[r].life # "unborn"}

\* What a pass may rely on at the steps that destroy something.
PassGood ==
  /\ pass \in PassRecord
  /\ pass.step # "idle" => pass.run \in Run /\ Attested(pass.view, pass.run)
  /\ pass.step = "reap" => Recorded(pass.run)
  /\ pass.step = "unfinalize" =>
       Recorded(pass.run) /\ job[pass.run] = "none" /\ ~adapters[pass.run]

ClusterType ==
  /\ job \in [Run -> JobStatus] /\ pod \in [Run -> PodStatus]
  /\ podSeen \in [Run -> PodStatus]
  /\ adapters \in [Run -> BOOLEAN]
  /\ castle \in [Run -> CastleStatus]
  /\ archive \in [Run -> Phase \cup {"none"}]
  /\ drift \in [Run -> {"none", "image", "config", "adapter"}]

BudgetType ==
  /\ scene \in Scenes /\ scene \in Scene
  /\ faults \in 0 .. scene.faults /\ restarts \in 0 .. scene.restarts

IInv ==
  /\ QueueInv /\ Objects /\ AllAttested /\ IsFiniteSet(Born)
  /\ PassGood /\ ClusterType /\ wake \subseteq Run /\ BudgetType

-----------------------------------------------------------------------------
(* What every step does to the objects: at most one is written, with a mark *)
(* "archived" only when there is a record; records stay; the watch follows. *)
WriteIsGood ==
  /\ cr' = cr \/ \E r \in Run, o \in CRObject : cr' = [cr EXCEPT ![r] = o] /\ Attested(o, r)'
  /\ \A r \in Run : archive[r] # "none" => archive'[r] # "none"
  /\ UNCHANGED scene
CacheIsGood ==
  \/ UNCHANGED seen /\ Watched
  \/ UNCHANGED cr /\ seen' = cr /\ watch' = <<>>
  \/ UNCHANGED cr /\ watch # <<>> /\ seen' = Head(watch) /\ watch' = Tail(watch)

LEMMA ObjectsKept ==
  ASSUME Objects, AllAttested, scene \in Scene, WriteIsGood, CacheIsGood
  PROVE  Objects' /\ AllAttested'
<1>1. cr' \in [Run -> CRObject]
  BY DEF Objects, WriteIsGood
<1>2. /\ \A o, r : Attested(o, r) /\ r \in Run => (Has(o, "archived") => (On("archive")' => archive'[r] # "none"))
  BY DEF WriteIsGood, Attested, Recorded, On
<1>3. \A r \in Run : Attested(cr[r], r)'
  <2> SUFFICES ASSUME NEW r \in Run PROVE Attested(cr[r], r)'
    OBVIOUS
  <2>1. CASE cr'[r] = cr[r]
    BY <1>2, <2>1 DEF AllAttested, Attested, Recorded, Has
  <2>2. CASE cr'[r] # cr[r]
    BY <2>2 DEF WriteIsGood, Objects, Attested, Recorded, Has
  <2> QED BY <2>1, <2>2
<1>4. scene.lag \in Nat \ {0} /\ Len(watch) \in Nat /\ scene' = scene
  BY DEF Scene, Objects, WriteIsGood
<1>5. CASE UNCHANGED seen /\ Watched
  <2>1. /\ watch' \in Seq([Run -> CRObject]) /\ Len(watch') <= scene.lag
        /\ \A i \in DOMAIN watch' : watch'[i] = cr' \/ (i \in DOMAIN watch /\ watch'[i] = watch[i])
    <3>1. CASE cr' = cr
      BY <1>5, <3>1 DEF Watched, Objects
    <3>2. CASE cr' # cr /\ Len(watch) < scene.lag
      <4>1. watch' = Append(watch, cr')
        BY <1>5, <3>2 DEF Watched
      <4>2. /\ watch' \in Seq([Run -> CRObject]) /\ Len(watch') = Len(watch) + 1
            /\ \A i \in 1 .. Len(watch) + 1 : watch'[i] = IF i <= Len(watch) THEN watch[i] ELSE cr'
        BY <1>1, <1>4, <4>1 DEF Objects
      <4>3. Len(watch) + 1 <= scene.lag
        BY <1>4, <3>2
      <4>4. DOMAIN watch' = 1 .. Len(watch) + 1 /\ DOMAIN watch = 1 .. Len(watch)
        BY <4>2 DEF Objects
      <4> QED BY <1>4, <4>2, <4>3, <4>4
    <3>3. CASE cr' # cr /\ ~(Len(watch) < scene.lag)
      <4>1. watch' = [watch EXCEPT ![scene.lag] = cr']
        BY <1>5, <3>3 DEF Watched
      <4> QED BY <1>1, <1>4, <3>3, <4>1 DEF Objects
    <3> QED BY <3>1, <3>2, <3>3
  <2>2. Objects'
    BY <1>1, <1>4, <1>5, <2>1 DEF Objects
  <2>3. AllAttested'
    BY <1>2, <1>3, <1>5, <2>1 DEF AllAttested, Attested, Recorded, Has
  <2> QED BY <2>2, <2>3
<1>6. CASE UNCHANGED cr /\ seen' = cr /\ watch' = <<>>
  <2>1. Objects'
    BY <1>1, <1>4, <1>6 DEF Objects
  <2>2. AllAttested'
    BY <1>3, <1>6 DEF AllAttested, Attested, Recorded, Has
  <2> QED BY <2>1, <2>2
<1>7. CASE UNCHANGED cr /\ watch # <<>> /\ seen' = Head(watch) /\ watch' = Tail(watch)
  <2>1. /\ seen' \in [Run -> CRObject] /\ seen' = watch[1] /\ 1 \in DOMAIN watch
        /\ watch' \in Seq([Run -> CRObject]) /\ Len(watch') = Len(watch) - 1
        /\ \A i \in DOMAIN watch' : i + 1 \in DOMAIN watch /\ watch'[i] = watch[i + 1]
    BY <1>7 DEF Objects
  <2>2. Objects'
    BY <1>1, <1>4, <2>1 DEF Objects
  <2>3. AllAttested'
    BY <1>2, <1>3, <2>1 DEF AllAttested, Attested, Recorded, Has
  <2> QED BY <2>2, <2>3
<1> QED BY <1>5, <1>6, <1>7 DEF CacheIsGood

\* One more run at most.
LEMMA BornStaysFinite ==
  ASSUME IsFiniteSet(Born), Objects, WriteIsGood
  PROVE  IsFiniteSet(Born')
<1>1. CASE cr' = cr
  BY <1>1 DEF Born
<1>2. ASSUME NEW r \in Run, NEW o, cr' = [cr EXCEPT ![r] = o]
      PROVE  IsFiniteSet(Born')
  <2>1. Born' \subseteq Born \cup {r}
    BY <1>2 DEF Born, Objects
  <2> QED BY <2>1, FS_AddElement, FS_Subset
<1> QED BY <1>1, <1>2 DEF WriteIsGood

-----------------------------------------------------------------------------
(* What every step of the controller and of its world achieves.            *)
Guarded ==
  \A r \in Run :
    /\ Reaped(r) /\ Exists(cr[r]) => Recorded(r)
    /\ cr[r].life = "deleting" /\ cr'[r].life = "gone" /\ ~ForceDelete(r)
         => Recorded(r) /\ job[r] = "none" /\ ~adapters[r]
StepGood ==
  /\ WriteIsGood /\ Guarded
  /\ QueueInv' /\ PassGood' /\ ClusterType' /\ wake' \subseteq Run /\ BudgetType'

LEMMA StepKeepsIInv ==
  ASSUME IInv, StepGood, CacheIsGood
  PROVE  IInv'
<1>1. Objects' /\ AllAttested'
  BY ObjectsKept DEF IInv, StepGood, BudgetType
<1>2. IsFiniteSet(Born')
  BY BornStaysFinite DEF IInv, StepGood
<1> QED BY <1>1, <1>2 DEF IInv, StepGood

-----------------------------------------------------------------------------
(* The objects a pass writes: marks and phase change, the life does not.   *)
LEMMA WithChange ==
  ASSUME NEW o \in CRObject, NEW M \in SUBSET Mark
  PROVE  /\ With(o, M) \in CRObject /\ With(o, M).life = o.life
         /\ With(o, M).marks = o.marks \cup M /\ With(o, M).phase = o.phase
BY DEF With, CRObject

LEMMA WithoutChange ==
  ASSUME NEW o \in CRObject, NEW M \in SUBSET Mark
  PROVE  /\ Without(o, M) \in CRObject /\ Without(o, M).life = o.life
         /\ Without(o, M).marks = o.marks \ M /\ Without(o, M).phase = o.phase
BY DEF Without, CRObject

LEMMA PhaseChange ==
  ASSUME NEW o \in CRObject, NEW p \in Phase
  PROVE  /\ [o EXCEPT !.phase = p] \in CRObject /\ [o EXCEPT !.phase = p].life = o.life
         /\ [o EXCEPT !.phase = p].marks = o.marks /\ [o EXCEPT !.phase = p].phase = p
BY DEF CRObject

LEMMA ObservationChange ==
  ASSUME NEW o \in CRObject, NEW c
  PROVE  /\ WithObservation(o, c) \in CRObject /\ WithObservation(o, c).life = o.life
         /\ Has(WithObservation(o, c), "archived") => Has(o, "archived")
<1>1. CASE ~CastleTerminal(c)
  BY <1>1 DEF WithObservation
<1>2. CASE CastleTerminal(c)
  <2> DEFINE w == With(o, {"castleTerminalObserved"})
             p == IF c = "succeeded" THEN "Succeeded" ELSE "Failed"
  <2>1. {"castleTerminalObserved"} \in SUBSET Mark /\ p \in Phase
    BY DEF Mark, Phase
  <2>2. w \in CRObject /\ w.life = o.life /\ w.marks = o.marks \cup {"castleTerminalObserved"}
    BY <2>1, WithChange
  <2>3. WithObservation(o, c) = [w EXCEPT !.phase = p]
    BY <1>2 DEF WithObservation
  <2> HIDE DEF w, p
  <2>4. /\ [w EXCEPT !.phase = p] \in CRObject /\ [w EXCEPT !.phase = p].life = w.life
        /\ [w EXCEPT !.phase = p].marks = w.marks
    BY <2>1, <2>2, PhaseChange
  <2> QED BY <2>2, <2>3, <2>4 DEF Has
<1> QED BY <1>1, <1>2

\* A write that leaves the life alone neither creates evidence nor loses it.
LEMMA WriteGood ==
  ASSUME Objects, NEW r \in Run, NEW o \in CRObject, Attested(o, r), o.life = cr[r].life,
         cr' = cr \/ cr' = [cr EXCEPT ![r] = o], UNCHANGED <<scene, archive>>
  PROVE  WriteIsGood /\ \A q \in Run : cr'[q].life = cr[q].life
<1>1. Attested(o, r)'
  BY DEF Attested, Recorded, Has, On
<1>2. WriteIsGood
  BY <1>1 DEF WriteIsGood
<1> QED BY <1>2 DEF Objects

\* The pass record after a step.
LEMMA PassTypes ==
  /\ IdlePass \in PassRecord /\ IdlePass.step = "idle"
  /\ \A s \in PassStep, r \in Run, o \in CRObject :
       /\ PassAt(s, r, o) \in PassRecord
       /\ PassAt(s, r, o).step = s /\ PassAt(s, r, o).run = r /\ PassAt(s, r, o).view = o
<1>1. [life |-> "unborn", phase |-> "", marks |-> {}] \in CRObject
  BY DEF CRObject, Phase
<1>2. IdlePass \in PassRecord /\ IdlePass.step = "idle"
  BY <1>1 DEF IdlePass, PassRecord, PassStep, Goal, Phase, Observation
<1>3. ASSUME NEW s \in PassStep, NEW r \in Run, NEW o \in CRObject
      PROVE  /\ PassAt(s, r, o) \in PassRecord
             /\ PassAt(s, r, o).step = s /\ PassAt(s, r, o).run = r /\ PassAt(s, r, o).view = o
  BY <1>2 DEF PassAt, PassRecord, IdlePass
<1> QED BY <1>2, <1>3

\* A pass that returns is good, and so is one at a harmless step.
LEMMA EndIsGood ==
  ASSUME pass' = IdlePass
  PROVE  PassGood'
BY PassTypes DEF PassGood

LEMMA GoesOnGood ==
  ASSUME pass' \in PassRecord, pass'.run \in Run, Attested(pass'.view, pass'.run),
         pass'.step \notin {"reap", "unfinalize"}, UNCHANGED <<scene, archive>>
  PROVE  PassGood'
BY DEF PassGood, Attested, Recorded, On, Has

-----------------------------------------------------------------------------
(* A step that leaves the cluster alone is good when its writes keep lives.*)
ObjectStep ==
  /\ WriteIsGood /\ \A q \in Run : cr'[q].life = cr[q].life
  /\ QueueInv' /\ PassGood' /\ wake' \subseteq Run

LEMMA QueueKept == QueueInv /\ UNCHANGED queueVars => QueueInv'
BY DEF queueVars, QueueInv, IsLineOf, AdmitHead

LEMMA BudgetKept == BudgetType /\ (Fault \/ NoFault) => BudgetType'
BY ReconcilerAssumption DEF BudgetType, Fault, NoFault, budgetVars, Scene, ReconcilerAssumption

LEMMA QuietStep ==
  ASSUME IInv, ObjectStep, UNCHANGED clusterVars, BudgetType'
  PROVE  StepGood
<1>1. ClusterType'
  BY DEF IInv, ClusterType, clusterVars
<1>2. Guarded
  BY DEF ObjectStep, Guarded, Reaped, clusterVars
<1> QED BY <1>1, <1>2 DEF StepGood, ObjectStep

\* The fail-closed paths: the object is written, or the pass ends.
LEMMA FailRunGood ==
  ASSUME IInv, NEW r \in Run, NEW base \in CRObject, NEW update \in CRObject,
         Attested(update, r), update.life = base.life, NEW obs \in Observation,
         NEW woken \in SUBSET Run, UNCHANGED <<scene, archive>>,
         FailRun(r, base, update, obs, woken)
  PROVE  ObjectStep
<1> DEFINE failed == [update EXCEPT !.phase = "Failed"]
<1>1. failed \in CRObject /\ failed.life = update.life /\ failed.marks = update.marks
  BY PhaseChange DEF Phase
<1>2. Attested(failed, r)
  BY <1>1 DEF Attested, Has
<1>3. Objects
  BY DEF IInv
<1>4. CASE /\ Write(r, base, failed) /\ Release(r)
           /\ pass' = [PassAt("archive", r, failed) EXCEPT !.goal = "fail", !.obs = obs]
           /\ wake' = woken
  <2> HIDE DEF failed
  <2>1. cr[r] = base /\ cr' = [cr EXCEPT ![r] = failed]
    BY <1>4 DEF Write, Stale
  <2>2. WriteIsGood /\ \A q \in Run : cr'[q].life = cr[q].life
    BY <1>1, <1>2, <1>3, <2>1, WriteGood
  <2>3. QueueInv'
    BY <1>4, ReleaseStep DEF IInv
  <2>4. /\ PassAt("archive", r, failed) \in PassRecord /\ PassAt("archive", r, failed).step = "archive"
        /\ PassAt("archive", r, failed).run = r /\ PassAt("archive", r, failed).view = failed
    BY <1>1, PassTypes DEF PassStep
  <2>5. pass' \in PassRecord /\ pass'.step = "archive" /\ pass'.run = r /\ pass'.view = failed
    BY <1>4, <2>4 DEF PassRecord, Goal
  <2>6. PassGood'
    BY <1>2, <2>5, GoesOnGood
  <2> QED BY <1>4, <2>2, <2>3, <2>6 DEF ObjectStep
<1>5. CASE Stale(r, base) /\ pass' = IdlePass /\ wake' = woken \cup {r} /\ UNCHANGED <<queueVars, cr>>
  <2>1. PassGood'
    BY <1>5, EndIsGood
  <2>2. QueueInv'
    BY <1>5, QueueKept DEF IInv
  <2>3. WriteIsGood
    BY <1>5 DEF WriteIsGood
  <2> QED BY <1>5, <2>1, <2>2, <2>3 DEF ObjectStep
<1> QED BY <1>4, <1>5 DEF FailRun

\* From the fetched object to the branch taken.
LEMMA DispatchGood ==
  ASSUME IInv, NEW r \in Run, NEW view \in CRObject, Attested(view, r),
         NEW woken \in SUBSET Run, UNCHANGED <<scene, archive>>,
         Dispatch(r, view, woken)
  PROVE  ObjectStep
<1>1. QueueInv /\ Objects
  BY DEF IInv
<1>2. CASE Release(r) /\ pass' = PassAt("observeTerminal", r, view) /\ wake' = woken /\ UNCHANGED cr
  <2>1. QueueInv'
    BY <1>1, <1>2, ReleaseStep
  <2>2. pass' \in PassRecord /\ pass'.step = "observeTerminal" /\ pass'.run = r /\ pass'.view = view
    BY <1>2, PassTypes DEF PassStep
  <2>3. PassGood'
    BY <2>2, GoesOnGood
  <2> QED BY <1>2, <2>1, <2>3 DEF ObjectStep, WriteIsGood
<1>3. CASE FailRun(r, view, view, "off", woken)
  BY <1>3, FailRunGood DEF Observation
<1>4. CASE Enqueue(r) /\ pass' = PassAt("admitted", r, view) /\ wake' = woken /\ UNCHANGED cr
  <2>1. QueueInv'
    BY <1>1, <1>4, EnqueueStep
  <2>2. pass' \in PassRecord /\ pass'.step = "admitted" /\ pass'.run = r /\ pass'.view = view
    BY <1>4, PassTypes DEF PassStep
  <2>3. PassGood'
    BY <2>2, GoesOnGood
  <2> QED BY <1>4, <2>1, <2>3 DEF ObjectStep, WriteIsGood
<1>5. CASE /\ Enqueue(r) /\ pass' = IdlePass /\ wake' = woken \cup {r}
           /\ LET queued == [Without(view, {"actuated"}) EXCEPT !.phase = "Pending"]
              IN IF Stale(r, view) THEN UNCHANGED cr ELSE Write(r, view, queued)
  <2> DEFINE bare == Without(view, {"actuated"})
             queued == [bare EXCEPT !.phase = "Pending"]
  <2>1. QueueInv'
    BY <1>1, <1>5, EnqueueStep
  <2>2. PassGood'
    BY <1>5, EndIsGood
  <2>3. bare \in CRObject /\ bare.life = view.life /\ bare.marks \subseteq view.marks
    <3>1. {"actuated"} \in SUBSET Mark /\ "" \in Phase
      BY DEF Mark, Phase
    <3> HIDE DEF queued
    <3>2. bare \in CRObject /\ bare.life = view.life /\ bare.marks = view.marks \ {"actuated"}
      BY <3>1, WithoutChange
    <3> QED BY <3>2
  <2> HIDE DEF bare
  <2>4. queued \in CRObject /\ queued.life = view.life /\ queued.marks \subseteq view.marks
    BY <2>3, PhaseChange DEF Phase
  <2>5. Attested(queued, r)
    BY <2>4 DEF Attested, Has
  <2>6. cr' = cr \/ (cr' = [cr EXCEPT ![r] = queued] /\ cr[r] = view)
    BY <1>5 DEF Write, Stale, bare
  <2> HIDE DEF queued
  <2>7. WriteIsGood /\ \A q \in Run : cr'[q].life = cr[q].life
    <3>1. CASE cr' = cr
      BY <3>1 DEF WriteIsGood
    <3>2. CASE cr' = [cr EXCEPT ![r] = queued] /\ cr[r] = view
      BY <1>1, <2>4, <2>5, <3>2, WriteGood
    <3> QED BY <2>6, <3>1, <3>2
  <2> QED BY <1>5, <2>1, <2>2, <2>7 DEF ObjectStep
<1> QED BY <1>2, <1>3, <1>4, <1>5 DEF Dispatch, RefuseSpec

-----------------------------------------------------------------------------
(* The steps of a pass, one by one.                                        *)
LEMMA BudgetUnchanged == BudgetType /\ UNCHANGED budgetVars => BudgetType' /\ UNCHANGED scene
BY DEF BudgetType, budgetVars

LEMMA ReconcileGood ==
  ASSUME IInv, NEW r \in Run, Reconcile(r)
  PROVE  StepGood
<1>1. /\ UNCHANGED clusterVars /\ BudgetType' /\ UNCHANGED <<scene, archive>>
      /\ wake \subseteq Run /\ Objects /\ QueueInv
  BY BudgetUnchanged DEF IInv, Reconcile, clusterVars
<1>2. seen[r] \in CRObject /\ Attested(seen[r], r)
  BY DEF IInv, Objects, AllAttested
<1>3. CASE NotFound(r)
  <2>1. UNCHANGED <<queueVars, cr, pass>> /\ wake' = wake \ {r} /\ pass.step = "idle"
    BY <1>3 DEF NotFound, Reconcile
  <2>2. QueueInv' /\ PassGood' /\ WriteIsGood
    BY <1>1, <2>1, QueueKept DEF IInv, PassGood, WriteIsGood
  <2>3. ObjectStep
    BY <1>1, <2>1, <2>2 DEF ObjectStep
  <2> QED BY <1>1, <2>3, QuietStep
<1>4. CASE StartFinalize(r)
  <2>1. /\ Release(r) /\ UNCHANGED cr /\ wake' = wake \ {r}
        /\ pass' = [PassAt("archive", r, seen[r]) EXCEPT !.goal = "finalize"]
    BY <1>4 DEF StartFinalize
  <2>2. QueueInv'
    BY <1>1, <2>1, ReleaseStep
  <2>3. /\ PassAt("archive", r, seen[r]) \in PassRecord /\ PassAt("archive", r, seen[r]).step = "archive"
        /\ PassAt("archive", r, seen[r]).run = r /\ PassAt("archive", r, seen[r]).view = seen[r]
    BY <1>2, PassTypes DEF PassStep
  <2>4. pass' \in PassRecord /\ pass'.step = "archive" /\ pass'.run = r /\ pass'.view = seen[r]
    BY <2>1, <2>3 DEF PassRecord, Goal
  <2>5. PassGood'
    BY <1>1, <1>2, <2>4, GoesOnGood
  <2>6. ObjectStep
    BY <1>1, <2>1, <2>2, <2>5 DEF ObjectStep, WriteIsGood
  <2> QED BY <1>1, <2>6, QuietStep
<1>5. CASE AddFinalizer(r)
  <2> DEFINE marked == With(seen[r], {"finalizer"})
  <2>1. UNCHANGED queueVars /\ QueueInv'
    BY <1>1, <1>5, QueueKept DEF AddFinalizer
  <2>2. CASE Write(r, seen[r], marked) /\ pass' = PassAt("refetch", r, seen[r]) /\ wake' = wake \ {r}
    <3>1. {"finalizer"} \in SUBSET Mark /\ "" \in Phase
      BY DEF Mark, Phase
    <3>2. /\ marked \in CRObject /\ marked.life = seen[r].life
          /\ marked.marks = seen[r].marks \cup {"finalizer"}
      BY <1>2, <3>1, WithChange
    <3> HIDE DEF marked
    <3>3. Attested(marked, r)
      BY <1>2, <3>2 DEF Attested, Has
    <3>4. cr' = [cr EXCEPT ![r] = marked] /\ marked.life = cr[r].life
      BY <2>2, <3>2 DEF Write, Stale
    <3>5. WriteIsGood /\ \A q \in Run : cr'[q].life = cr[q].life
      BY <1>1, <3>2, <3>3, <3>4, WriteGood
    <3>6. pass' \in PassRecord /\ pass'.step = "refetch" /\ pass'.run = r /\ pass'.view = seen[r]
      BY <1>2, <2>2, PassTypes DEF PassStep
    <3>7. PassGood'
      BY <1>1, <1>2, <3>6, GoesOnGood
    <3>8. ObjectStep
      BY <1>1, <2>1, <2>2, <3>5, <3>7 DEF ObjectStep
    <3> QED BY <1>1, <3>8, QuietStep
  <2>3. CASE UNCHANGED <<cr, pass, wake>>
    <3>1. PassGood' /\ WriteIsGood
      BY <1>1, <2>3 DEF IInv, PassGood, WriteIsGood, Reconcile
    <3>2. ObjectStep
      BY <1>1, <2>1, <2>3, <3>1 DEF ObjectStep
    <3> QED BY <1>1, <3>2, QuietStep
  <2> QED BY <1>5, <2>2, <2>3 DEF AddFinalizer
<1>6. CASE Dispatch(r, seen[r], wake \ {r})
  <2>1. ObjectStep
    BY <1>1, <1>2, <1>6, DispatchGood
  <2> QED BY <1>1, <2>1, QuietStep
<1> QED BY <1>3, <1>4, <1>5, <1>6 DEF Reconcile

\* A pass that ends with an error changes nothing else.
LEMMA EndPassGood ==
  ASSUME IInv, NEW requeue \in BOOLEAN, EndPass(requeue), pass.step # "idle",
         UNCHANGED <<cr, archive, scene>>, QueueInv'
  PROVE  ObjectStep
<1>1. pass.run \in Run /\ wake \subseteq Run
  BY DEF IInv, PassGood
<1>2. PassGood'
  BY EndIsGood DEF EndPass
<1> QED BY <1>1, <1>2 DEF EndPass, ObjectStep, WriteIsGood

\* The object of the pass and the run it is about.
LEMMA PassView ==
  ASSUME IInv, pass.step # "idle"
  PROVE  /\ pass \in PassRecord /\ pass.run \in Run
         /\ pass.view \in CRObject /\ Attested(pass.view, pass.run)
         /\ seen[pass.run] \in CRObject /\ Attested(seen[pass.run], pass.run)
         /\ cr[pass.run] \in CRObject /\ Attested(cr[pass.run], pass.run)
<1>1. pass \in PassRecord /\ pass.run \in Run /\ Attested(pass.view, pass.run)
  BY DEF IInv, PassGood
<1>2. pass.view \in CRObject
  BY <1>1 DEF PassRecord
<1> QED BY <1>1, <1>2 DEF IInv, Objects, AllAttested

LEMMA RefetchedGood ==
  ASSUME IInv, Refetched
  PROVE  StepGood
<1>1. /\ UNCHANGED clusterVars /\ BudgetType' /\ UNCHANGED <<scene, archive>> /\ wake \in SUBSET Run
      /\ pass.step # "idle" /\ QueueInv
  BY BudgetUnchanged DEF IInv, Refetched, clusterVars
<1>2. ObjectStep
  <2>1. CASE Exists(seen[pass.run])
    BY <1>1, <2>1, PassView, DispatchGood DEF Refetched
  <2>2. CASE ~Exists(seen[pass.run])
    BY <1>1, <2>2, EndPassGood, QueueKept DEF Refetched
  <2> QED BY <2>1, <2>2
<1> QED BY <1>1, <1>2, QuietStep

LEMMA RefuseSecondRunGood ==
  ASSUME IInv, RefuseSecondRun
  PROVE  StepGood
<1>1. /\ UNCHANGED clusterVars /\ BudgetType' /\ UNCHANGED <<cr, scene, archive>>
      /\ pass.step # "idle" /\ QueueInv
  BY BudgetUnchanged DEF IInv, RefuseSecondRun, clusterVars
<1>2. QueueInv'
  BY <1>1, PassView, ReleaseStep DEF RefuseSecondRun
<1>3. ObjectStep
  BY <1>1, <1>2, EndPassGood DEF RefuseSecondRun
<1> QED BY <1>1, <1>3, QuietStep

LEMMA DerivePhaseType == \A j : DerivePhase(j) \in Phase
BY DEF DerivePhase, Phase

LEMMA ProvisionGood ==
  ASSUME IInv, Provision
  PROVE  StepGood
<1> DEFINE r == pass.run
<1>1. /\ UNCHANGED <<seen, pods, adapters, castle, archive, drift, scene>> /\ BudgetType'
      /\ pass.step = "admitted" /\ QueueInv /\ wake \in SUBSET Run
  BY BudgetUnchanged DEF IInv, Provision
<1>2. PICK probed \in BOOLEAN :
          \/ /\ FailRun(r, pass.view, pass.view, "off", wake)
             /\ UNCHANGED job
          \/ /\ job' = [job EXCEPT ![r] = IF @ = "none" THEN "pending" ELSE @]
             /\ pass' = [pass EXCEPT !.step = "observe",
                                     !.jobPhase = DerivePhase(job'[r]),
                                     !.provisioned = job[r] = "none"]
             /\ wake' = IF job[r] = "none" THEN wake \cup {r} ELSE wake
             /\ UNCHANGED <<queueVars, cr>>
  BY DEF Provision
<1>3. r \in Run /\ pass.view \in CRObject /\ Attested(pass.view, r) /\ pass \in PassRecord
  BY <1>1, PassView
<1> HIDE DEF r
<1>4. CASE FailRun(r, pass.view, pass.view, "off", wake) /\ UNCHANGED job
  <2>1. UNCHANGED clusterVars
    BY <1>1, <1>4 DEF clusterVars, pods
  <2>2. ObjectStep
    BY <1>1, <1>3, <1>4, FailRunGood DEF Observation
  <2> QED BY <1>1, <2>1, <2>2, QuietStep
<1>5. CASE /\ job' = [job EXCEPT ![r] = IF @ = "none" THEN "pending" ELSE @]
           /\ pass' = [pass EXCEPT !.step = "observe",
                                   !.jobPhase = DerivePhase(job'[r]),
                                   !.provisioned = job[r] = "none"]
           /\ wake' = IF job[r] = "none" THEN wake \cup {r} ELSE wake
           /\ UNCHANGED <<queueVars, cr>>
  <2>1. ClusterType'
    BY <1>1, <1>5 DEF IInv, ClusterType, JobStatus, pods
  <2>2. pass' \in PassRecord /\ pass'.step = "observe" /\ pass'.run = pass.run /\ pass'.view = pass.view
    <3>1. DerivePhase(job'[r]) \in Phase /\ (job[r] = "none") \in BOOLEAN
      BY DerivePhaseType
    <3> QED BY <1>3, <1>5, <3>1 DEF PassRecord, PassStep
  <2>3. PassGood'
    BY <1>1, <1>3, <2>2, GoesOnGood DEF r
  <2>4. QueueInv'
    BY <1>1, <1>5, QueueKept
  <2>5. WriteIsGood
    BY <1>1, <1>5 DEF WriteIsGood
  <2>6. \A q \in Run : job[q] # "none" => job'[q] # "none"
    BY <1>3, <1>5 DEF IInv, ClusterType
  <2>7. Guarded
    BY <1>5, <2>6 DEF Guarded, Reaped
  <2> QED BY <1>1, <1>3, <1>5, <2>1, <2>3, <2>4, <2>5, <2>7 DEF StepGood
<1> QED BY <1>2, <1>4, <1>5

\* The status a pass is about to write.
LEMMA PendingStatusChange ==
  ASSUME IInv, pass.step # "idle", NEW obs
  PROVE  /\ PendingStatus(obs) \in CRObject /\ PendingStatus(obs).life = pass.view.life
         /\ Attested(PendingStatus(obs), pass.run)
<1> DEFINE bare == With(pass.view, {"actuated"})
           base == [bare EXCEPT !.phase = pass.jobPhase]
<1>1. {"actuated"} \in SUBSET Mark /\ pass.jobPhase \in Phase /\ pass.view \in CRObject
  BY PassView DEF Mark, PassRecord
<1>2. bare \in CRObject /\ bare.life = pass.view.life /\ bare.marks = pass.view.marks \cup {"actuated"}
  BY <1>1, WithChange
<1> HIDE DEF bare
<1>3. base \in CRObject /\ base.life = bare.life /\ base.marks = bare.marks
  BY <1>1, <1>2, PhaseChange
<1>4. PendingStatus(obs) = WithObservation(base, obs)
  BY DEF PendingStatus, bare
<1> HIDE DEF base
<1>5. /\ PendingStatus(obs) \in CRObject /\ PendingStatus(obs).life = base.life
      /\ Has(PendingStatus(obs), "archived") => Has(base, "archived")
  BY <1>3, <1>4, ObservationChange
<1>6. Attested(PendingStatus(obs), pass.run)
  BY <1>2, <1>3, <1>5, PassView DEF Attested, Has
<1> QED BY <1>2, <1>3, <1>5, <1>6

LEMMA CastleViewType == ASSUME IInv, NEW r \in Run PROVE CastleView(r) \in Observation
BY DEF IInv, ClusterType, CastleView, Observation

LEMMA FailRunStalledGood ==
  ASSUME IInv, FailRunStalled
  PROVE  StepGood
<1> DEFINE r == pass.run
           update == With(PendingStatus(CastleView(r)), {"stallWatchdog"})
<1>1. /\ UNCHANGED clusterVars /\ BudgetType' /\ UNCHANGED <<scene, archive>> /\ wake \in SUBSET Run
      /\ pass.step # "idle"
  BY BudgetUnchanged DEF IInv, FailRunStalled, clusterVars
<1>2. r \in Run /\ pass.view \in CRObject /\ CastleView(r) \in Observation
  BY <1>1, PassView, CastleViewType
<1>3. /\ update \in CRObject /\ update.life = pass.view.life /\ Attested(update, r)
  <2> DEFINE p == PendingStatus(CastleView(r))
  <2>1. p \in CRObject /\ p.life = pass.view.life /\ Attested(p, r)
    BY <1>1, PendingStatusChange
  <2>2. {"stallWatchdog"} \in SUBSET Mark /\ "" \in Phase
    BY DEF Mark, Phase
  <2> HIDE DEF p
  <2>3. With(p, {"stallWatchdog"}) \in CRObject /\ With(p, {"stallWatchdog"}).life = p.life
        /\ With(p, {"stallWatchdog"}).marks = p.marks \cup {"stallWatchdog"}
    BY <2>1, <2>2, WithChange
  <2> QED BY <2>1, <2>3 DEF Attested, Has, p
<1>4. FailRun(r, pass.view, update, CastleView(r), wake)
  BY DEF FailRunStalled
<1> HIDE DEF r, update
<1>5. ObjectStep
  BY <1>1, <1>2, <1>3, <1>4, FailRunGood
<1> QED BY <1>1, <1>5, QuietStep

\* A pass that writes its status goes on, or meets a conflict and ends.
StatusWrite(update, step, goal, obs) ==
  IF update # pass.view /\ Stale(pass.run, pass.view)
  THEN EndPass(TRUE) /\ UNCHANGED cr
  ELSE /\ cr' = IF update = pass.view THEN cr ELSE [cr EXCEPT ![pass.run] = update]
       /\ pass' = [pass EXCEPT !.step = step, !.goal = goal, !.view = update, !.obs = obs]
       /\ UNCHANGED wake

LEMMA StatusWriteGood ==
  ASSUME IInv, pass.step # "idle", NEW update \in CRObject, update.life = pass.view.life,
         Attested(update, pass.run), NEW step \in PassStep \ {"reap", "unfinalize"},
         NEW goal \in Goal, NEW obs \in Observation, UNCHANGED <<queueVars, scene, archive>>,
         StatusWrite(update, step, goal, obs)
  PROVE  ObjectStep
<1>1. pass \in PassRecord /\ pass.run \in Run /\ Objects /\ wake \subseteq Run
  BY PassView DEF IInv
<1>2. QueueInv'
  BY QueueKept DEF IInv
<1>3. CASE update # pass.view /\ Stale(pass.run, pass.view)
  <2>1. EndPass(TRUE) /\ UNCHANGED cr
    BY <1>3 DEF StatusWrite
  <2> QED BY <1>2, <2>1, EndPassGood
<1>4. CASE ~(update # pass.view /\ Stale(pass.run, pass.view))
  <2>1. /\ cr' = IF update = pass.view THEN cr ELSE [cr EXCEPT ![pass.run] = update]
        /\ pass' = [pass EXCEPT !.step = step, !.goal = goal, !.view = update, !.obs = obs]
        /\ UNCHANGED wake
    BY <1>4 DEF StatusWrite
  <2>2. /\ pass' \in PassRecord /\ pass'.step = step /\ pass'.run = pass.run
        /\ pass'.view = update
    BY <1>1, <2>1 DEF PassRecord
  <2>3. PassGood'
    BY <1>1, <2>2, GoesOnGood
  <2>4. WriteIsGood /\ \A q \in Run : cr'[q].life = cr[q].life
    <3>1. CASE update = pass.view
      BY <2>1, <3>1 DEF WriteIsGood
    <3>2. CASE update # pass.view
      <4>1. cr[pass.run] = pass.view
        BY <1>4, <3>2 DEF Stale
      <4>2. cr' = [cr EXCEPT ![pass.run] = update]
        BY <2>1, <3>2
      <4> QED BY <1>1, <4>1, <4>2, WriteGood
    <3> QED BY <3>1, <3>2
  <2> QED BY <1>1, <1>2, <2>1, <2>3, <2>4 DEF ObjectStep
<1> QED BY <1>3, <1>4

LEMMA ObserveAndStampGood ==
  ASSUME IInv, ObserveAndStamp
  PROVE  StepGood
<1>1. UNCHANGED <<queueVars, seen, clusterVars, archive>> /\ pass.step # "idle"
  BY DEF ObserveAndStamp, clusterVars
<1>2. PICK obs \in {CastleView(pass.run), "error"} :
        LET known == IF obs = "unknown" THEN "error" ELSE obs
            update == PendingStatus(known)
            reap == IsTerminalPhase(update.phase) /\ ~pass.provisioned
        IN /\ IF obs = CastleView(pass.run) THEN NoFault ELSE On("castle") /\ Fault
           /\ IF update # pass.view /\ Stale(pass.run, pass.view)
              THEN EndPass(TRUE) /\ UNCHANGED cr
              ELSE /\ cr' = IF update = pass.view THEN cr ELSE [cr EXCEPT ![pass.run] = update]
                   /\ pass' = [pass EXCEPT !.step = IF reap THEN "archive" ELSE "converge",
                                           !.goal = IF reap THEN "complete" ELSE "",
                                           !.view = update, !.obs = known]
                   /\ UNCHANGED wake
  BY DEF ObserveAndStamp
<1> DEFINE known == IF obs = "unknown" THEN "error" ELSE obs
           update == PendingStatus(known)
           reap == IsTerminalPhase(update.phase) /\ ~pass.provisioned
           step == IF reap THEN "archive" ELSE "converge"
           goal == IF reap THEN "complete" ELSE ""
<1>3. Fault \/ NoFault
  BY <1>2
<1>4. BudgetType' /\ UNCHANGED scene
  BY <1>3, BudgetKept DEF IInv, Fault, NoFault, budgetVars
<1>5. known \in Observation
  BY <1>1, PassView, CastleViewType DEF Observation
<1>6. update \in CRObject /\ update.life = pass.view.life /\ Attested(update, pass.run)
  BY <1>1, PendingStatusChange
<1>7. StatusWrite(update, step, goal, known)
  BY <1>2 DEF StatusWrite
<1>8. step \in PassStep \ {"reap", "unfinalize"} /\ goal \in Goal
  BY DEF PassStep, Goal
<1> HIDE DEF known, update, step, goal
<1>9. ObjectStep
  BY <1>1, <1>4, <1>5, <1>6, <1>7, <1>8, StatusWriteGood
<1> QED BY <1>1, <1>4, <1>9, QuietStep

LEMMA ObserveTerminalGood ==
  ASSUME IInv, ObserveTerminal
  PROVE  StepGood
<1> DEFINE update == WithObservation(pass.view, CastleView(pass.run))
<1>1. UNCHANGED <<queueVars, seen, clusterVars, archive>> /\ pass.step # "idle" /\ QueueInv
  BY DEF IInv, ObserveTerminal, clusterVars
<1>2. Fault \/ NoFault
  BY DEF ObserveTerminal
<1>3. BudgetType' /\ UNCHANGED scene
  BY <1>2, BudgetKept DEF IInv, Fault, NoFault, budgetVars
<1>4. CastleView(pass.run) \in Observation
  BY <1>1, PassView, CastleViewType
<1>5. update \in CRObject /\ update.life = pass.view.life /\ Attested(update, pass.run)
  BY <1>1, PassView, ObservationChange DEF Attested
<1>6. "archive" \in PassStep \ {"reap", "unfinalize"} /\ "terminal" \in Goal
  BY DEF PassStep, Goal
<1>7. \/ EndPass(TRUE) /\ UNCHANGED cr
      \/ StatusWrite(update, "archive", "terminal", CastleView(pass.run))
  BY DEF ObserveTerminal, StatusWrite
<1> HIDE DEF update
<1>8. ObjectStep
  <2>1. CASE EndPass(TRUE) /\ UNCHANGED cr
    BY <1>1, <1>3, <2>1, QueueKept, EndPassGood
  <2>2. CASE StatusWrite(update, "archive", "terminal", CastleView(pass.run))
    BY <1>1, <1>3, <1>4, <1>5, <1>6, <2>2, StatusWriteGood
  <2> QED BY <1>7, <2>1, <2>2
<1> QED BY <1>1, <1>3, <1>8, QuietStep

-----------------------------------------------------------------------------
(* The archive gate: the only step that makes records, and the only one    *)
(* that sets the mark.                                                     *)
LEMMA ArchiveGateGood ==
  ASSUME IInv, ArchiveGate
  PROVE  StepGood
<1>0. PICK r \in Run : r = pass.run
  BY PassView DEF ArchiveGate
<1>1. /\ UNCHANGED <<queueVars, seen, job, pods, adapters, castle, drift>> /\ pass.step = "archive"
      /\ wake \subseteq Run /\ Objects /\ QueueInv'
  BY QueueKept DEF IInv, ArchiveGate
<1>2. /\ pass \in PassRecord /\ r \in Run /\ pass.view \in CRObject /\ Attested(pass.view, r)
      /\ seen[r] \in CRObject /\ Attested(seen[r], r)
  BY <1>0, <1>1, PassView
<1>3. Fault \/ NoFault
  BY DEF ArchiveGate
<1>4. BudgetType' /\ UNCHANGED scene
  BY <1>3, BudgetKept DEF IInv, Fault, NoFault, budgetVars
<1>5. "" \in Phase /\ "reap" \in PassStep
  BY DEF Phase, PassStep
<1>6. CASE /\ ~ArchiveOwed(pass.view) /\ pass' = [pass EXCEPT !.step = "reap"]
           /\ UNCHANGED <<cr, wake, archive>>
  <2>1. Recorded(r)
    BY <1>2, <1>6 DEF ArchiveOwed, Attested, Recorded
  <2>2. /\ pass' \in PassRecord /\ pass'.step = "reap" /\ pass'.run = r /\ pass'.view = pass.view
    BY <1>0, <1>2, <1>5, <1>6 DEF PassRecord
  <2>3. PassGood'
    BY <1>2, <1>4, <1>6, <2>1, <2>2 DEF PassGood, Attested, Recorded, On, Has
  <2>4. WriteIsGood
    BY <1>4, <1>6 DEF WriteIsGood
  <2>5. ObjectStep /\ UNCHANGED clusterVars
    BY <1>1, <1>6, <2>3, <2>4 DEF ObjectStep, clusterVars, pods
  <2> QED BY <1>4, <2>5, QuietStep
<1>7. CASE /\ archive' = [archive EXCEPT ![r] = pass.view.phase] /\ MarkTerminalArchived(r)
  <2> DEFINE bare == Without(seen[r], {"archivePending"})
  <2>1. /\ {"archived"} \in SUBSET Mark /\ {"archivePending"} \in SUBSET Mark
        /\ pass.view.phase \in Phase /\ "none" \notin Phase
    BY <1>2 DEF Mark, CRObject, Phase
  <2>2. bare \in CRObject /\ bare.life = seen[r].life
    BY <1>2, <1>5, <2>1, WithoutChange
  <2> HIDE DEF bare
  <2>3. PICK stored \in CRObject : stored = With(bare, {"archived"}) /\ stored.life = seen[r].life
    <3>1. With(bare, {"archived"}) \in CRObject /\ With(bare, {"archived"}).life = seen[r].life
      BY <1>5, <2>1, <2>2, WithChange
    <3> QED BY <3>1
  <2>4. archive'[r] # "none" /\ \A q \in Run : archive[q] # "none" => archive'[q] # "none"
    BY <1>2, <1>7, <2>1 DEF IInv, ClusterType
  <2>5. ClusterType'
    BY <1>1, <1>7, <2>1 DEF IInv, ClusterType, pods
  <2>6. \/ /\ cr' = cr \/ (cr' = [cr EXCEPT ![r] = stored] /\ cr[r] = seen[r])
           /\ pass' = [pass EXCEPT !.step = "reap"] /\ UNCHANGED wake
        \/ EndPass(TRUE) /\ UNCHANGED cr
    BY <1>7, <2>3 DEF MarkTerminalArchived, Stampable, Stamp, Stale, bare
  <2>7. Attested(stored, r)' /\ Recorded(r)'
    BY <2>4 DEF Attested, Recorded, On
  <2>8. /\ cr' = cr \/ (cr' = [cr EXCEPT ![r] = stored] /\ cr[r] = seen[r])
        /\ wake' \subseteq Run
    BY <1>0, <1>1, <1>2, <2>6 DEF EndPass
  <2>9. WriteIsGood /\ Guarded
    <3>1. \A q \in Run : cr'[q].life = cr[q].life
      BY <1>1, <2>3, <2>8 DEF Objects
    <3>2. Guarded
      BY <1>1, <3>1 DEF Guarded, Reaped
    <3>3. WriteIsGood
      <4>1. CASE cr' = cr
        BY <1>4, <2>4, <4>1 DEF WriteIsGood
      <4>2. CASE cr' = [cr EXCEPT ![r] = stored]
        BY <1>4, <2>3, <2>4, <2>7, <4>2 DEF WriteIsGood
      <4> QED BY <2>8, <4>1, <4>2
    <3> QED BY <3>2, <3>3
  <2>10. PassGood'
    <3>1. CASE EndPass(TRUE)
      BY <3>1, EndIsGood DEF EndPass
    <3>2. CASE pass' = [pass EXCEPT !.step = "reap"]
      <4>1. /\ pass' \in PassRecord /\ pass'.step = "reap" /\ pass'.run = r
        BY <1>0, <1>2, <1>5, <3>2 DEF PassRecord
      <4>2. Attested(pass.view, r)'
        BY <2>7 DEF Attested
      <4> QED BY <1>2, <2>7, <4>1, <4>2 DEF PassGood
    <3> QED BY <2>6, <3>1, <3>2
  <2> QED BY <1>1, <1>4, <2>5, <2>8, <2>9, <2>10 DEF StepGood
<1>8. CASE MarkTerminalArchivePending(r) /\ EndPass(TRUE) /\ UNCHANGED archive
  <2> DEFINE pending == With(seen[r], {"archivePending"})
  <2>1. {"archivePending"} \in SUBSET Mark
    BY DEF Mark
  <2>2. pending \in CRObject /\ pending.life = seen[r].life /\ pending.marks = seen[r].marks \cup {"archivePending"}
    BY <1>2, <1>5, <2>1, WithChange
  <2>3. cr' = cr \/ (cr' = [cr EXCEPT ![r] = pending] /\ cr[r] = seen[r])
    BY <1>8 DEF MarkTerminalArchivePending, Stampable, Stamp, Stale
  <2> HIDE DEF pending
  <2>4. Attested(pending, r)
    BY <1>2, <2>2 DEF Attested, Has
  <2>5. WriteIsGood /\ \A q \in Run : cr'[q].life = cr[q].life
    <3>1. CASE cr' = cr
      BY <1>4, <1>8, <3>1 DEF WriteIsGood
    <3>2. CASE cr' = [cr EXCEPT ![r] = pending] /\ cr[r] = seen[r]
      BY <1>1, <1>2, <1>4, <1>8, <2>2, <2>4, <3>2, WriteGood
    <3> QED BY <2>3, <3>1, <3>2
  <2>6. PassGood' /\ wake' \subseteq Run
    BY <1>0, <1>1, <1>2, <1>8, EndIsGood DEF EndPass
  <2>7. ObjectStep /\ UNCHANGED clusterVars
    BY <1>1, <1>8, <2>5, <2>6 DEF ObjectStep, clusterVars, pods
  <2> QED BY <1>4, <2>7, QuietStep
<1> QED BY <1>0, <1>6, <1>7, <1>8 DEF ArchiveGate

-----------------------------------------------------------------------------
(* The reaps, all of them behind the gate.                                 *)
LEMMA DropGood ==
  ASSUME ClusterType, NEW r \in Run, DropRunnerJob(r)
  PROVE  /\ job' \in [Run -> JobStatus] /\ pod' \in [Run -> PodStatus]
         /\ podSeen' \in [Run -> PodStatus]
         /\ job'[r] = "none" /\ \A q \in Run : q # r => job'[q] = job[q]
<1>1. pod' \in [Run -> PodStatus] /\ podSeen' \in [Run -> PodStatus]
  BY DEF ClusterType, DropRunnerJob, PodStatus
<1>2. job' \in [Run -> JobStatus] /\ job'[r] = "none" /\ \A q \in Run : q # r => job'[q] = job[q]
  BY DEF ClusterType, DropRunnerJob, JobStatus
<1> QED BY <1>1, <1>2

\* A step that takes at most the Job and the adapters of a recorded run.
LEMMA ReapGood ==
  ASSUME IInv, NEW r \in Run, Recorded(r) \/ ~Exists(cr[r]), DropRunnerJob(r),
         adapters' = adapters \/ DropAdapters(r),
         UNCHANGED <<castle, archive, drift, scene>>, ObjectStep, BudgetType'
  PROVE  StepGood
<1>1. ClusterType
  BY DEF IInv
<1>2. adapters' \in [Run -> BOOLEAN]
  BY <1>1 DEF ClusterType, DropAdapters
<1>3. ClusterType'
  BY <1>1, <1>2, DropGood DEF ClusterType
<1>4. Guarded
  BY <1>1, DropGood DEF Guarded, Reaped, ObjectStep
<1> QED BY <1>3, <1>4 DEF StepGood, ObjectStep

LEMMA ReapFailedGood ==
  ASSUME IInv, ReapFailed
  PROVE  StepGood
<1>1. PICK r \in Run : r = pass.run
  BY PassView DEF ReapFailed
<1>2. /\ Recorded(r) /\ DropRunnerJob(r) /\ DropAdapters(r) /\ EndPass(job[r] # "none")
      /\ UNCHANGED <<queueVars, cr, castle, archive, drift, budgetVars>> /\ pass.step # "idle"
  BY <1>1 DEF IInv, PassGood, ReapFailed
<1>3. BudgetType' /\ UNCHANGED scene /\ QueueInv'
  BY <1>2, BudgetUnchanged, QueueKept DEF IInv
<1>4. ObjectStep
  BY <1>2, <1>3, EndPassGood
<1> QED BY <1>2, <1>3, <1>4, ReapGood

LEMMA ReapFinalizedGood ==
  ASSUME IInv, ReapFinalized
  PROVE  StepGood
<1>1. PICK r \in Run : r = pass.run
  BY PassView DEF ReapFinalized
<1>2. /\ UNCHANGED <<queueVars, cr, castle, archive, drift, budgetVars>> /\ pass.step # "idle"
      /\ Recorded(r)
  BY <1>1 DEF IInv, PassGood, ReapFinalized
<1>3. BudgetType' /\ UNCHANGED scene /\ QueueInv' /\ ClusterType
  BY <1>2, BudgetUnchanged, QueueKept DEF IInv
<1>4. CASE Exists(seen[r])
  <2>1. /\ DropRunnerJob(r) /\ DropAdapters(r) /\ UNCHANGED wake
        /\ pass' = [pass EXCEPT !.step = "unfinalize", !.view = seen[r]]
    BY <1>1, <1>4 DEF ReapFinalized
  <2>2. /\ pass' \in PassRecord /\ pass'.step = "unfinalize" /\ pass'.run = r /\ pass'.view = seen[r]
    BY <1>1, <1>2, <2>1, PassView DEF PassRecord, PassStep
  <2>3. Attested(seen[r], r)
    BY <1>1, <1>2, PassView
  <2>4. job'[r] = "none" /\ ~adapters'[r]
    BY <1>3, <2>1, DropGood DEF DropAdapters, ClusterType
  <2>5. PassGood'
    BY <1>2, <1>3, <2>2, <2>3, <2>4 DEF PassGood, Attested, Recorded, On, Has
  <2>6. ObjectStep
    BY <1>2, <1>3, <2>1, <2>5 DEF ObjectStep, WriteIsGood, IInv
  <2> QED BY <1>2, <1>3, <2>1, <2>6, ReapGood
<1>5. CASE ~Exists(seen[r])
  <2>1. EndPass(TRUE) /\ UNCHANGED <<job, pods, adapters>>
    BY <1>1, <1>5 DEF ReapFinalized
  <2>2. ObjectStep /\ UNCHANGED clusterVars
    BY <1>2, <1>3, <2>1, EndPassGood DEF clusterVars, pods
  <2> QED BY <1>3, <2>2, QuietStep
<1> QED BY <1>4, <1>5

(* The one step of the controller that lets a deleted object go.           *)
LEMMA RemoveFinalizerGood ==
  ASSUME IInv, RemoveFinalizer
  PROVE  StepGood
<1> DEFINE nothing == [life |-> "gone", phase |-> "", marks |-> {}]
<1>1. PICK r \in Run : r = pass.run
  BY PassView DEF RemoveFinalizer
<1>2. /\ UNCHANGED <<queueVars, seen, clusterVars, budgetVars>> /\ pass.step # "idle"
      /\ Recorded(r) /\ job[r] = "none" /\ ~adapters[r] /\ wake \subseteq Run
  BY <1>1 DEF IInv, PassGood, RemoveFinalizer
<1>3. BudgetType' /\ UNCHANGED <<scene, archive>> /\ QueueInv' /\ ClusterType' /\ Objects
  BY <1>2, BudgetUnchanged, QueueKept DEF IInv, ClusterType, clusterVars
<1>4. CASE Write(r, pass.view, nothing) /\ EndPass(FALSE)
  <2>1. nothing \in CRObject /\ Attested(nothing, r)'
    BY DEF CRObject, Phase, Attested, Has
  <2>2. cr' = [cr EXCEPT ![r] = nothing]
    BY <1>4 DEF Write
  <2>3. WriteIsGood
    BY <1>3, <2>1, <2>2 DEF WriteIsGood
  <2>4. Guarded
    BY <1>2, <1>3, <2>2 DEF Guarded, Reaped, Objects, clusterVars
  <2>5. PassGood' /\ wake' \subseteq Run
    BY <1>2, <1>4, EndIsGood DEF EndPass
  <2> QED BY <1>3, <2>3, <2>4, <2>5 DEF StepGood
<1>5. CASE EndPass(TRUE) /\ UNCHANGED cr
  <2>1. ObjectStep
    BY <1>2, <1>3, <1>5, EndPassGood
  <2> QED BY <1>2, <1>3, <2>1, QuietStep
<1> QED BY <1>1, <1>4, <1>5 DEF RemoveFinalizer

\* A stamp on the re-read object, or none.
LEMMA StampGood ==
  ASSUME IInv, NEW r \in Run, NEW o \in CRObject, Attested(o, r), o.life = seen[r].life,
         cr' = cr \/ (cr' = [cr EXCEPT ![r] = o] /\ cr[r] = seen[r]),
         UNCHANGED <<scene, archive>>
  PROVE  WriteIsGood /\ \A q \in Run : cr'[q].life = cr[q].life
<1>1. CASE cr' = cr
  BY <1>1 DEF WriteIsGood
<1>2. CASE cr' = [cr EXCEPT ![r] = o] /\ cr[r] = seen[r]
  BY <1>2, WriteGood DEF IInv
<1> QED BY <1>1, <1>2

LEMMA DeferReapGood ==
  ASSUME IInv, DeferReap
  PROVE  StepGood
<1> DEFINE deferred == With(seen[pass.run], {"terminalCleanup"})
<1>1. PICK r \in Run : r = pass.run
  BY PassView DEF DeferReap, Reaping
<1>2. /\ UNCHANGED <<queueVars, seen, clusterVars, archive>> /\ pass.step # "idle" /\ EndPass(TRUE)
      /\ Fault \/ NoFault
  BY DEF DeferReap, Reaping, clusterVars
<1>3. BudgetType' /\ UNCHANGED scene /\ QueueInv' /\ wake \subseteq Run
  BY <1>2, BudgetKept, QueueKept DEF IInv, Fault, NoFault, budgetVars
<1>4. cr' = cr \/ (cr' = [cr EXCEPT ![r] = deferred] /\ cr[r] = seen[r])
  BY <1>1 DEF DeferReap, Stale
<1>5. deferred \in CRObject /\ deferred.life = seen[r].life /\ Attested(deferred, r)
  <2>1. {"terminalCleanup"} \in SUBSET Mark /\ "" \in Phase
    BY DEF Mark, Phase
  <2>2. seen[r] \in CRObject /\ Attested(seen[r], r)
    BY <1>1, <1>2, PassView
  <2>3. /\ deferred \in CRObject /\ deferred.life = seen[r].life
        /\ deferred.marks = seen[r].marks \cup {"terminalCleanup"}
    BY <1>1, <2>1, <2>2, WithChange
  <2> QED BY <2>2, <2>3 DEF Attested, Has
<1> HIDE DEF deferred
<1>6. WriteIsGood /\ \A q \in Run : cr'[q].life = cr[q].life
  BY <1>2, <1>3, <1>4, <1>5, StampGood
<1>7. PassGood' /\ wake' \subseteq Run
  BY <1>1, <1>2, <1>3, EndIsGood DEF EndPass
<1>8. ObjectStep
  BY <1>3, <1>6, <1>7 DEF ObjectStep
<1> QED BY <1>2, <1>3, <1>8, QuietStep

LEMMA ReapJobsGood ==
  ASSUME IInv, Reaping, ReapJobs
  PROVE  StepGood
<1> DEFINE cleared == Without(seen[pass.run], {"terminalCleanup"})
<1>1. PICK r \in Run : r = pass.run
  BY PassView DEF Reaping
<1>2. /\ UNCHANGED <<queueVars, seen, castle, archive, drift, budgetVars>> /\ pass.step # "idle"
      /\ Recorded(r) /\ DropRunnerJob(r) /\ wake \subseteq Run /\ pass \in PassRecord
      /\ Attested(pass.view, r)
  BY <1>1 DEF IInv, PassGood, Reaping, ReapJobs
<1>3. BudgetType' /\ UNCHANGED scene /\ QueueInv'
  BY <1>2, BudgetUnchanged, QueueKept DEF IInv
<1>4. cr' = cr \/ (cr' = [cr EXCEPT ![r] = cleared] /\ cr[r] = seen[r])
  BY <1>1 DEF ReapJobs, Stale
<1>5. cleared \in CRObject /\ cleared.life = seen[r].life /\ Attested(cleared, r)
  <2>1. {"terminalCleanup"} \in SUBSET Mark /\ "" \in Phase
    BY DEF Mark, Phase
  <2>2. seen[r] \in CRObject /\ Attested(seen[r], r)
    BY <1>1, <1>2, PassView
  <2>3. /\ cleared \in CRObject /\ cleared.life = seen[r].life
        /\ cleared.marks = seen[r].marks \ {"terminalCleanup"}
    BY <1>1, <2>1, <2>2, WithoutChange
  <2> QED BY <2>2, <2>3 DEF Attested, Has
<1> HIDE DEF cleared
<1>6. WriteIsGood /\ \A q \in Run : cr'[q].life = cr[q].life
  BY <1>2, <1>3, <1>4, <1>5, StampGood
<1>7. /\ adapters' = adapters \/ DropAdapters(r)
      /\ PassGood' /\ wake' \subseteq Run
  <2>1. CASE (\E q \in BOOLEAN : EndPass(q)) /\ (adapters' = adapters \/ DropAdapters(r))
    BY <1>1, <1>2, <2>1, EndIsGood DEF EndPass
  <2>2. CASE /\ pass' = [pass EXCEPT !.step = "converge"] /\ UNCHANGED adapters
             /\ wake' = IF job[r] # "none" THEN wake \cup {r} ELSE wake
    <3>1. pass' \in PassRecord /\ pass'.step = "converge" /\ pass'.run = r /\ pass'.view = pass.view
      BY <1>1, <1>2, <2>2 DEF PassRecord, PassStep
    <3>2. PassGood'
      BY <1>2, <1>3, <3>1, GoesOnGood
    <3> QED BY <1>2, <2>2, <3>2
  <2>3. \/ (\E q \in BOOLEAN : EndPass(q)) /\ (adapters' = adapters \/ DropAdapters(r))
        \/ /\ pass' = [pass EXCEPT !.step = "converge"] /\ UNCHANGED adapters
           /\ wake' = IF job[r] # "none" THEN wake \cup {r} ELSE wake
    <3> DEFINE more == (pass.obs # "unknown" /\ VerdictAwaited(pass.view)) \/ job[r] # "none"
    <3>1. more \in BOOLEAN /\ TRUE \in BOOLEAN
      OBVIOUS
    <3>2. \/ EndPass(TRUE) /\ UNCHANGED adapters
          \/ DropAdapters(r) /\ EndPass(more)
          \/ /\ pass' = [pass EXCEPT !.step = "converge"] /\ UNCHANGED adapters
             /\ wake' = IF job[r] # "none" THEN wake \cup {r} ELSE wake
      BY <1>1 DEF ReapJobs
    <3> HIDE DEF more
    <3> QED BY <3>1, <3>2
  <2> QED BY <2>1, <2>2, <2>3
<1>8. ObjectStep
  BY <1>3, <1>6, <1>7 DEF ObjectStep
<1> QED BY <1>2, <1>3, <1>7, <1>8, ReapGood

LEMMA ConvergeGood ==
  ASSUME IInv, Converge
  PROVE  StepGood
<1>1. PICK r \in Run : r = pass.run
  BY PassView DEF Converge
<1>2. /\ UNCHANGED <<cr, seen, job, pods, castle, archive, drift, budgetVars>> /\ pass.step # "idle"
      /\ EndPass(KeepsPolling(pass.obs))
      /\ IF IsTerminalPhase(pass.view.phase) THEN Release(r) ELSE UNCHANGED queueVars
  BY <1>1 DEF Converge
<1>3. BudgetType' /\ UNCHANGED scene /\ QueueInv'
  BY <1>1, <1>2, BudgetUnchanged, QueueKept, ReleaseStep DEF IInv
<1>4. adapters' \in [Run -> BOOLEAN]
  <2>1. adapters \in [Run -> BOOLEAN]
    BY DEF IInv, ClusterType
  <2>2. \/ \E wanted \in BOOLEAN : adapters' = [adapters EXCEPT ![r] = wanted]
        \/ adapters' = adapters
    <3>1. CASE On("perScope") /\ Converging(pass.obs)
      BY <1>1, <3>1 DEF Converge
    <3>2. CASE ~(On("perScope") /\ Converging(pass.obs)) /\ On("perScope") /\ pass.obs = "stopped"
      <4>1. ~Converging(pass.obs)
        BY <3>2
      <4>2. adapters' \in {[adapters EXCEPT ![r] = FALSE]}
        BY <1>1, <3>2, <4>1 DEF Converge
      <4> QED BY <4>2
    <3>3. CASE ~(On("perScope") /\ Converging(pass.obs)) /\ ~(On("perScope") /\ pass.obs = "stopped")
      BY <1>1, <3>3 DEF Converge
    <3> QED BY <3>1, <3>2, <3>3
  <2> QED BY <2>1, <2>2
<1>5. ClusterType'
  BY <1>2, <1>4 DEF IInv, ClusterType, pods
<1>6. Guarded /\ WriteIsGood
  BY <1>2, <1>3 DEF Guarded, Reaped, WriteIsGood
<1>7. PassGood' /\ wake' \subseteq Run
  <2>1. pass' = IdlePass /\ wake' \subseteq wake \cup {r}
    BY <1>1, <1>2 DEF EndPass
  <2> QED BY <2>1, EndIsGood DEF IInv
<1> QED BY <1>3, <1>5, <1>6, <1>7 DEF StepGood

LEMMA FailAdapterImageConflictGood ==
  ASSUME IInv, FailAdapterImageConflict
  PROVE  StepGood
<1>1. /\ UNCHANGED clusterVars /\ BudgetType' /\ UNCHANGED <<scene, archive>> /\ wake \in SUBSET Run
      /\ pass.step # "idle"
  BY BudgetUnchanged DEF IInv, FailAdapterImageConflict, clusterVars
<1>2. pass.obs \in Observation
  BY <1>1, PassView DEF PassRecord
<1>3. ObjectStep
  BY <1>1, <1>2, PassView, FailRunGood DEF FailAdapterImageConflict
<1> QED BY <1>1, <1>3, QuietStep

LEMMA FailedCallGood ==
  ASSUME IInv, FailedCall
  PROVE  StepGood
<1>1. /\ UNCHANGED <<queueVars, cr, clusterVars, archive>> /\ pass.step # "idle" /\ EndPass(TRUE)
      /\ Fault
  BY DEF FailedCall, clusterVars
<1>2. BudgetType' /\ UNCHANGED scene /\ QueueInv'
  BY <1>1, BudgetKept, QueueKept DEF IInv, Fault
<1>3. ObjectStep
  BY <1>1, <1>2, EndPassGood
<1> QED BY <1>1, <1>2, <1>3, QuietStep

(* A restart forgets the pass and the queue and lists the live runs.       *)
LEMMA RestartGood ==
  ASSUME IInv, RestartOperator
  PROVE  StepGood
<1> DEFINE listed == {r \in Run : cr[r].life = "live" /\ ~IsTerminalPhase(cr[r].phase)}
<1>1. listed \in SUBSET Run /\ listed \in SUBSET Born
  BY DEF Born
<1>2. IsFiniteSet(listed)
  BY <1>1, FS_Subset DEF IInv
<1>3. Recover(listed)
  BY DEF RestartOperator
<1> HIDE DEF listed
<1>4. QueueInv'
  BY <1>1, <1>2, <1>3, RecoverStep
<1>5. UNCHANGED <<cr, clusterVars, archive, scene, faults>> /\ restarts' \in 0 .. scene'.restarts
  BY ReconcilerAssumption DEF IInv, BudgetType, Scene, RestartOperator, clusterVars
<1>6. BudgetType'
  BY <1>5 DEF IInv, BudgetType
<1>7. PassGood' /\ wake' \subseteq Run
  BY EndIsGood DEF RestartOperator
<1>8. ObjectStep
  BY <1>4, <1>5, <1>7 DEF ObjectStep, WriteIsGood
<1> QED BY <1>5, <1>6, <1>8, QuietStep

-----------------------------------------------------------------------------
(* The world: it never takes a record or an adapter pod, and makes no Job. *)
LEMMA PassKept ==
  ASSUME IInv, UNCHANGED <<pass, adapters, archive, scene>>,
         \A q \in Run : job[q] = "none" => job'[q] = "none"
  PROVE  PassGood'
BY DEF IInv, PassGood, Attested, Recorded, On, Has

LEMMA WorldKept ==
  ASSUME IInv, UNCHANGED <<operatorVars, adapters, archive>>, WriteIsGood, ClusterType', wake' \subseteq Run,
         \A q \in Run : job[q] = "none" => job'[q] = "none",
         \A q \in Run : Reaped(q) => ~Exists(cr[q]),
         \A q \in Run : cr[q].life = "deleting" /\ cr'[q].life = "gone" => ForceDelete(q)
  PROVE  StepGood
<1>1. UNCHANGED <<queueVars, pass, budgetVars>>
  BY DEF operatorVars
<1>2. QueueInv' /\ BudgetType' /\ UNCHANGED scene
  BY <1>1, QueueKept, BudgetUnchanged DEF IInv
<1>3. PassGood'
  BY <1>1, <1>2, PassKept
<1>4. Guarded
  BY DEF Guarded
<1> QED BY <1>2, <1>3, <1>4 DEF StepGood

\* The user's part: objects come and go.
LEMMA UsersGood ==
  ASSUME IInv, NEW r \in Run, CreateRun(r) \/ DeleteRun(r) \/ ForceDelete(r)
  PROVE  StepGood
<1> DEFINE nothing == [life |-> "gone", phase |-> "", marks |-> {}]
<1>1. /\ UNCHANGED <<operatorVars, seen, wake, clusterVars>>
      /\ UNCHANGED <<job, adapters, archive, scene>>
      /\ Objects /\ cr[r] \in CRObject /\ Attested(cr[r], r)
  BY DEF IInv, Objects, AllAttested, CreateRun, DeleteRun, ForceDelete, operatorVars, budgetVars, clusterVars
<1>2. nothing \in CRObject /\ Attested(nothing, r)'
  BY DEF CRObject, Phase, Attested, Has
<1>3. PICK o \in CRObject :
        /\ cr' = [cr EXCEPT ![r] = o] /\ Attested(o, r)'
        /\ cr[r].life = "deleting" /\ o.life = "gone" => ForceDelete(r)
  <2>1. CASE CreateRun(r) \/ (DeleteRun(r) /\ Has(cr[r], "finalizer"))
    <3>1. PICK life \in {"live", "deleting"} : cr' = [cr EXCEPT ![r] = [cr[r] EXCEPT !.life = life]]
      BY <1>1, <2>1 DEF CreateRun, DeleteRun, Objects
    <3>2. [cr[r] EXCEPT !.life = life] \in CRObject /\ [cr[r] EXCEPT !.life = life].life = life
          /\ [cr[r] EXCEPT !.life = life].marks = cr[r].marks
      BY <1>1 DEF CRObject
    <3>3. PICK o \in CRObject : o = [cr[r] EXCEPT !.life = life]
      BY <3>2
    <3>4. Attested(o, r)'
      BY <1>1, <3>2, <3>3 DEF Attested, Recorded, On, Has
    <3> QED BY <3>1, <3>2, <3>3, <3>4
  <2>2. CASE DeleteRun(r) /\ ~Has(cr[r], "finalizer")
    <3>1. cr' = [cr EXCEPT ![r] = nothing] /\ cr[r].life = "live"
      BY <2>2 DEF DeleteRun
    <3> QED BY <1>2, <3>1
  <2>3. CASE ForceDelete(r)
    <3>1. cr' = [cr EXCEPT ![r] = nothing]
      BY <2>3 DEF ForceDelete
    <3>2. PICK o \in CRObject : o = nothing
      BY <1>2
    <3>3. Attested(o, r)'
      BY <3>2 DEF Attested, Has
    <3>4. cr[r].life = "deleting" /\ o.life = "gone" => ForceDelete(r)
      BY <2>3
    <3> QED BY <3>1, <3>2, <3>3, <3>4
  <2> QED BY <2>1, <2>2, <2>3
<1>4. WriteIsGood
  BY <1>1, <1>3 DEF WriteIsGood
<1>5. \A q \in Run : cr[q].life = "deleting" /\ cr'[q].life = "gone" => ForceDelete(q)
  BY <1>1, <1>3 DEF Objects
<1>6. ClusterType' /\ wake' \subseteq Run
  BY <1>1 DEF IInv, ClusterType, clusterVars
<1>7. \A q \in Run : ~Reaped(q)
  BY <1>1 DEF Reaped
<1> QED BY <1>1, <1>4, <1>5, <1>6, <1>7, WorldKept

\* The garbage collector's part.
LEMMA CollectOrphanGood ==
  ASSUME IInv, NEW r \in Run, CollectOrphan(r)
  PROVE  StepGood
<1>1. /\ UNCHANGED <<operatorVars, cr, seen, wake, adapters, castle, archive, drift, scene>>
      /\ DropRunnerJob(r) /\ ~Exists(cr[r]) /\ ClusterType
  BY DEF IInv, CollectOrphan, Exists, operatorVars, budgetVars
<1>2. ClusterType'
  BY <1>1, DropGood DEF ClusterType
<1>3. /\ \A q \in Run : job[q] = "none" => job'[q] = "none"
      /\ \A q \in Run : Reaped(q) => ~Exists(cr[q])
  BY <1>1, DropGood DEF Reaped
<1>4. WriteIsGood /\ wake' \subseteq Run
  BY <1>1 DEF IInv, WriteIsGood
<1> QED BY <1>1, <1>2, <1>3, <1>4, WorldKept

\* The Job controller's and the kubelet's part.
LEMMA PodsGood ==
  ASSUME IInv, NEW r \in Run, RunPod(r) \/ EndPod(r) \/ CrashPod(r)
  PROVE  StepGood
<1>1. /\ UNCHANGED <<operatorVars, cr, seen, adapters, castle, archive, drift, scene>> /\ ClusterType
  BY DEF IInv, RunPod, EndPod, CrashPod, operatorVars, budgetVars
<1>2. \/ UNCHANGED <<job, wake>>
      \/ \E from \in JobStatus \ {"none"}, to \in JobStatus \ {"none"} : JobMoves(r, from, to)
  BY DEF RunPod, EndPod, CrashPod, StartJob, SchedulePod, StartContainer, CompleteJob, TearDownPod,
         ExitContainer, ExceedBackoff, CrashContainer, JobStatus
<1>3. UNCHANGED podSeen /\ (UNCHANGED pod \/ \E to \in PodStatus : pod' = [pod EXCEPT ![r] = to])
  BY DEF RunPod, EndPod, CrashPod, StartJob, SchedulePod, StartContainer, CompleteJob, TearDownPod,
         ExitContainer, ExceedBackoff, CrashContainer, PodMoves, PodStatus, pods
<1>4. pod' \in [Run -> PodStatus] /\ podSeen' \in [Run -> PodStatus]
  BY <1>1, <1>3 DEF ClusterType
<1>5. /\ job' \in [Run -> JobStatus] /\ wake' \subseteq Run
      /\ \A q \in Run : job'[q] = "none" <=> job[q] = "none"
  BY <1>1, <1>2 DEF IInv, ClusterType, JobMoves
<1>6. ClusterType'
  BY <1>1, <1>4, <1>5 DEF ClusterType
<1>7. WriteIsGood
  BY <1>1 DEF WriteIsGood
<1> QED BY <1>1, <1>5, <1>6, <1>7, WorldKept DEF Reaped

\* The pod informer's part: it brings what the cluster holds, and wakes nobody.
LEMMA PodSyncGood ==
  ASSUME IInv, NEW r \in Run, PodSync(r)
  PROVE  StepGood
<1>1. /\ UNCHANGED <<operatorVars, cr, seen, wake, job, pod, adapters, castle, archive, drift, scene>>
      /\ ClusterType /\ podSeen' = [podSeen EXCEPT ![r] = pod[r]]
  BY DEF IInv, PodSync, operatorVars, budgetVars
<1>2. ClusterType'
  BY <1>1 DEF ClusterType
<1>3. WriteIsGood /\ wake' \subseteq Run
  BY <1>1 DEF IInv, WriteIsGood
<1> QED BY <1>1, <1>2, <1>3, WorldKept DEF Reaped

\* The engine's and castle's part, and the pins'.
LEMMA CastleGood ==
  ASSUME IInv, NEW r \in Run,
         RegisterRun(r) \/ EndRun(r) \/ PauseOrStop(r) \/ Resume(r) \/ PinMoves(r)
  PROVE  StepGood
<1>1. /\ UNCHANGED <<operatorVars, cr, seen, wake, job, pod, podSeen, adapters, archive, scene>> /\ ClusterType
  BY DEF IInv, RegisterRun, EndRun, PauseOrStop, Resume, PinMoves, CastleMoves, operatorVars, budgetVars, pods
<1>2. UNCHANGED castle \/ \E to \in CastleStatus : castle' = [castle EXCEPT ![r] = to]
  BY DEF RegisterRun, EndRun, PauseOrStop, Resume, PinMoves, CastleMoves, CastleStatus
<1>3. UNCHANGED drift \/ \E pin \in {"image", "config", "adapter"} : drift' = [drift EXCEPT ![r] = pin]
  BY DEF RegisterRun, EndRun, PauseOrStop, Resume, PinMoves, CastleMoves
<1>4. castle' \in [Run -> CastleStatus] /\ drift' \in [Run -> {"none", "image", "config", "adapter"}]
  BY <1>1, <1>2, <1>3 DEF ClusterType
<1>5. ClusterType'
  BY <1>1, <1>4 DEF ClusterType
<1>6. WriteIsGood /\ wake' \subseteq Run
  BY <1>1 DEF IInv, WriteIsGood
<1> QED BY <1>1, <1>5, <1>6, WorldKept DEF Reaped

-----------------------------------------------------------------------------
\* The cache hears of a write, in its order, and nothing else changes.
LEMMA CacheSyncGood ==
  ASSUME IInv, CacheSync
  PROVE  StepGood
<1>1. UNCHANGED <<operatorVars, cr, clusterVars, archive, scene>> /\ wake' \subseteq Run
  BY DEF IInv, CacheSync, operatorVars, clusterVars, budgetVars
<1>2. QueueInv' /\ BudgetType'
  BY <1>1, QueueKept, BudgetUnchanged DEF IInv, operatorVars
<1>3. PassGood'
  BY <1>1, PassKept DEF operatorVars, clusterVars
<1>4. ObjectStep
  BY <1>1, <1>2, <1>3 DEF ObjectStep, WriteIsGood
<1> QED BY <1>1, <1>2, <1>4, QuietStep

LEMMA EveryStepIsGood ==
  ASSUME IInv, Next
  PROVE  StepGood /\ CacheIsGood
<1>1. ASSUME NEW r \in Run, Begin(r) PROVE StepGood /\ CacheIsGood
  BY <1>1, ReconcileGood DEF Begin, Reconcile, CacheIsGood
<1>2. ASSUME NEW r \in Run, ClusterStep(r) PROVE StepGood /\ CacheIsGood
  BY <1>2, PodsGood, PodSyncGood DEF ClusterStep, RunPod, PodSync, CacheIsGood
<1>3. ASSUME NEW r \in Run, World(r), Watched PROVE StepGood /\ CacheIsGood
  <2>1. StepGood
    BY <1>3, UsersGood, CollectOrphanGood, PodsGood, CastleGood DEF World
  <2>2. UNCHANGED seen
    BY <1>3 DEF World, CreateRun, DeleteRun, ForceDelete, CollectOrphan, EndPod, CrashPod,
                RegisterRun, EndRun, PauseOrStop, Resume, PinMoves, CastleMoves
  <2> QED BY <1>3, <2>1, <2>2 DEF CacheIsGood
<1>4. CASE PassStepTaken
  <2>1. StepGood
    BY <1>4, RefetchedGood, RefuseSecondRunGood, ProvisionGood, ObserveAndStampGood,
       ObserveTerminalGood, ArchiveGateGood, ReapFailedGood, ReapFinalizedGood,
       RemoveFinalizerGood, DeferReapGood, ReapJobsGood, ConvergeGood,
       FailAdapterImageConflictGood DEF PassStepTaken, ReapSettled
  <2>2. UNCHANGED seen
    BY <1>4 DEF PassStepTaken, Refetched, RefuseSecondRun, Provision, ObserveAndStamp,
                ObserveTerminal, ArchiveGate, ReapFailed, ReapFinalized, RemoveFinalizer,
                DeferReap, ReapSettled, ReapJobs, Converge, FailAdapterImageConflict
  <2> QED BY <1>4, <2>1, <2>2 DEF CacheIsGood, PassStepTaken
<1>5. CASE StallWindowPasses
  BY <1>5, FailRunStalledGood DEF StallWindowPasses, FailRunStalled, CacheIsGood
<1>6. CASE ForceWindowPasses
  BY <1>6, ReapJobsGood DEF ForceWindowPasses, ForceReap, ReapJobs, CacheIsGood
<1>7. CASE FailedCall /\ Watched
  BY <1>7, FailedCallGood DEF FailedCall, CacheIsGood
<1>8. CASE RestartOperator
  BY <1>8, RestartGood DEF RestartOperator, CacheIsGood
<1>9. CASE CacheSync
  BY <1>9, CacheSyncGood DEF CacheSync, CacheIsGood
<1> QED BY <1>1, <1>2, <1>3, <1>4, <1>5, <1>6, <1>7, <1>8, <1>9 DEF Next

LEMMA IInvInit == Init => IInv
<1> SUFFICES ASSUME Init PROVE IInv
  OBVIOUS
<1>1. QueueInv
  BY QueueInvInit DEF Init
<1>2. Objects
  <2>1. Unborn \in CRObject
    BY DEF Unborn, CRObject, Phase
  <2>2. scene.lag \in Nat \ {0}
    BY ReconcilerAssumption DEF Init, ReconcilerAssumption, Scene
  <2> QED BY <2>1, <2>2 DEF Init, Objects
<1>3. AllAttested
  <2>1. \A r \in Run : cr[r].marks = {} /\ seen[r].marks = {}
    BY DEF Init, Unborn
  <2>2. \A r \in Run : Attested(cr[r], r) /\ Attested(seen[r], r)
    BY <2>1 DEF Attested, Has
  <2>3. DOMAIN watch = {}
    BY DEF Init
  <2> QED BY <2>2, <2>3 DEF AllAttested
<1>4. IsFiniteSet(Born)
  <2>1. Born = {}
    BY DEF Init, Born, Unborn
  <2> QED BY <2>1, FS_EmptySet
<1>5. PassGood
  BY PassTypes DEF Init, PassGood
<1>6. ClusterType
  BY DEF Init, ClusterType, JobStatus, PodStatus, CastleStatus
<1>7. BudgetType
  BY ReconcilerAssumption DEF Init, BudgetType, ReconcilerAssumption, Scene
<1> QED BY <1>1, <1>2, <1>3, <1>4, <1>5, <1>6, <1>7 DEF IInv, Init

LEMMA IInvStep == IInv /\ [Next]_vars => IInv'
<1>1. IInv /\ Next => IInv'
  BY EveryStepIsGood, StepKeepsIInv
<1>2. ASSUME IInv, UNCHANGED vars PROVE IInv'
  <2>1. UNCHANGED <<queueVars, cr, seen, watch, job, pod, podSeen, adapters, castle, archive, drift, wake, pass,
                    scene, faults, restarts>>
    BY <1>2 DEF vars, queueVars, clusterVars, budgetVars
  <2>2. QueueInv'
    BY <2>1, QueueKept, <1>2 DEF IInv
  <2>3. Objects' /\ AllAttested' /\ Born' = Born
    BY <1>2, <2>1 DEF IInv, Objects, AllAttested, Attested, Recorded, On, Has, Born
  <2>4. PassGood'
    BY <1>2, <2>1, PassKept
  <2> QED BY <1>2, <2>1, <2>2, <2>3, <2>4 DEF IInv, ClusterType, BudgetType
<1> QED BY <1>1, <1>2

-----------------------------------------------------------------------------
(* The controller, its queue, its cache and its world keep their types and *)
(* the queue its slot rule, through conflicts, failed calls and restarts.  *)
THEOREM ControllerTypeCorrect == Spec => [](TypeOK /\ HolderIsHead /\ OneEntryPerRun)
<1>1. IInv => TypeOK /\ HolderIsHead /\ OneEntryPerRun
  BY QueueInvImplies DEF IInv, TypeOK, Objects, PassGood, PassRecord, ClusterType, BudgetType
<1> QED BY <1>1, IInvInit, IInvStep, PTL DEF Spec

(* KB-314 for every number of runs, lag, faults and restarts: a runner Job  *)
(* of an existing CriteriaRun never goes before castle has its record.     *)
THEOREM RecordsComeFirst == Spec => ArchivedBeforeReaped
<1>1. IInv /\ [Next]_vars =>
        [On("archive") =>
           \A r \in Run : Reaped(r) /\ Exists(cr[r]) => archive[r] # "none"]_vars
  BY EveryStepIsGood DEF StepGood, Guarded, Recorded
<1> QED BY <1>1, IInvInit, IInvStep, PTL DEF Spec, ArchivedBeforeReaped

(* A finalizer is removed by the controller only from a run whose record is *)
(* stored and whose Job and adapter pods are gone.                         *)
THEOREM FinalizerHolds == Spec => FinalizerGuardsEvidence
<1>1. IInv /\ [Next]_vars =>
        [\A r \in Run :
           cr[r].life = "deleting" /\ cr'[r].life = "gone" /\ ~ForceDelete(r)
             => /\ On("archive") => archive[r] # "none"
                /\ job[r] = "none" /\ ~adapters[r]]_vars
  BY EveryStepIsGood DEF StepGood, Guarded, Recorded
<1> QED BY <1>1, IInvInit, IInvStep, PTL DEF Spec, FinalizerGuardsEvidence

-----------------------------------------------------------------------------
(* The controller keeps to the queue's interface: whatever a step does, to *)
(* the queue it is one Enqueue, Release or Recover call, or nothing.       *)
QueueCall == UNCHANGED queueVars \/ QueueNext

LEMMA OneCall ==
  ASSUME NEW r \in Run
  PROVE  Enqueue(r) \/ Release(r) => QueueCall
BY DEF QueueCall, QueueNext, QueueService

LEMMA FailRunCalls ==
  ASSUME NEW r \in Run, NEW base, NEW update, NEW obs, NEW woken, FailRun(r, base, update, obs, woken)
  PROVE  QueueCall
BY OneCall DEF FailRun, QueueCall

LEMMA DispatchCalls ==
  ASSUME NEW r \in Run, NEW view, NEW woken, Dispatch(r, view, woken)
  PROVE  QueueCall
<1>1. CASE RefuseSpec(r, view, woken)
  BY <1>1, FailRunCalls DEF RefuseSpec
<1>2. CASE Release(r) \/ Enqueue(r)
  BY <1>2, OneCall
<1> QED BY <1>1, <1>2, Zenon DEF Dispatch

\* A step of a begun pass.
LEMMA PassCalls ==
  ASSUME IInv, PassStepTaken \/ StallWindowPasses \/ ForceWindowPasses \/ FailedCall
  PROVE  QueueCall
<1>1. pass.step # "idle"
  BY DEF PassStepTaken, StallWindowPasses, ForceWindowPasses, FailedCall, Refetched, RefuseSecondRun,
         Provision, ObserveAndStamp, ObserveTerminal, ArchiveGate, ReapFailed, ReapFinalized,
         RemoveFinalizer, DeferReap, ReapSettled, ForceReap, Reaping, Converge,
         FailAdapterImageConflict, FailRunStalled
<1>2. pass.run \in Run
  BY <1>1, PassView
<1>3. ASSUME Refetched PROVE QueueCall
  BY <1>2, <1>3, DispatchCalls DEF Refetched, QueueCall
<1>4. ASSUME RefuseSecondRun PROVE QueueCall
  BY <1>2, <1>4, OneCall DEF RefuseSecondRun
<1>5. ASSUME Provision PROVE QueueCall
  BY <1>2, <1>5, FailRunCalls DEF Provision, QueueCall
<1>6. ASSUME Converge PROVE QueueCall
  BY <1>2, <1>6, OneCall DEF Converge, QueueCall
<1>7. ASSUME FailAdapterImageConflict \/ FailRunStalled PROVE QueueCall
  BY <1>2, <1>7, FailRunCalls DEF FailAdapterImageConflict, FailRunStalled
<1>8. ASSUME ObserveAndStamp \/ ObserveTerminal \/ ArchiveGate \/ ReapFailed \/ ReapFinalized
             \/ RemoveFinalizer \/ DeferReap \/ ReapSettled \/ ForceReap \/ FailedCall
      PROVE  QueueCall
  BY <1>8 DEF ObserveAndStamp, ObserveTerminal, ArchiveGate, ReapFailed, ReapFinalized,
              RemoveFinalizer, DeferReap, ReapSettled, ForceReap, ReapJobs, FailedCall, QueueCall
<1> QED BY <1>3, <1>4, <1>5, <1>6, <1>7, <1>8 DEF PassStepTaken, StallWindowPasses, ForceWindowPasses

LEMMA ControllerCalls == IInv /\ [Next]_vars => [QueueNext]_queueVars
<1> SUFFICES ASSUME IInv, Next PROVE QueueCall
  BY DEF QueueCall, vars, queueVars
<1>1. ASSUME NEW r \in Run, Begin(r) PROVE QueueCall
  <2>1. CASE NotFound(r) \/ AddFinalizer(r)
    BY <2>1 DEF NotFound, AddFinalizer, QueueCall
  <2>2. CASE StartFinalize(r)
    BY <2>2, OneCall DEF StartFinalize
  <2>3. CASE Dispatch(r, seen[r], wake \ {r})
    BY <2>3, DispatchCalls
  <2> QED BY <1>1, <2>1, <2>2, <2>3 DEF Begin, Reconcile
<1>2. ASSUME NEW r \in Run, ClusterStep(r) \/ World(r) PROVE QueueCall
  <2>1. UNCHANGED operatorVars
    BY <1>2 DEF ClusterStep, World, CreateRun, DeleteRun, ForceDelete, CollectOrphan, RunPod, PodSync, EndPod, CrashPod,
                RegisterRun, EndRun, PauseOrStop, Resume, PinMoves, CastleMoves
  <2> QED BY <2>1 DEF operatorVars, QueueCall
<1>3. ASSUME RestartOperator PROVE QueueCall
  <2> DEFINE listed == {r \in Run : cr[r].life = "live" /\ ~IsTerminalPhase(cr[r].phase)}
  <2>1. listed \in SUBSET Run /\ listed \in SUBSET Born
    BY DEF Born
  <2>2. IsFiniteSet(listed)
    BY <2>1, FS_Subset DEF IInv
  <2>3. Recover(listed)
    BY <1>3 DEF RestartOperator
  <2> HIDE DEF listed
  <2> QED BY <2>1, <2>2, <2>3 DEF QueueCall, QueueNext, Restart
<1>4. ASSUME CacheSync PROVE QueueCall
  BY <1>4 DEF CacheSync, operatorVars, QueueCall
<1> QED BY <1>1, <1>2, <1>3, <1>4, PassCalls DEF Next

(* The queue inside the controller behaves as the queue by itself, so what *)
(* is proved of RunQueue holds of the operator: its lines are the abstract *)
(* lock's, and a slot passes in order, whatever path a pass takes and      *)
(* whichever call of it fails.                                             *)
THEOREM ControllerKeepsTheQueue == Spec => QueueSpec /\ ImplementsLock /\ SlotPassesInOrder
<1>1. Init => QueueInit
  BY DEF Init
<1>2. Spec => QueueSpec
  BY <1>1, IInvInit, IInvStep, ControllerCalls, PTL DEF Spec, QueueSpec
<1> QED BY <1>2, QueueImplementsLock, SlotPassesOn

-----------------------------------------------------------------------------
(* How the cache lags: what the controller reads is an earlier state of the *)
(* API server, so what has been true of an object for good once it was seen *)
(* is true now.                                                            *)
\* The run is over for good: deleted, or stored as finished.
Over(o) == o.life \in {"deleting", "gone"} \/ (o.life = "live" /\ IsTerminalPhase(o.phase))

\* b can be what became of a.
Before(a, b) ==
  /\ a.life # "unborn" => b.life # "unborn"
  /\ Exists(a) => Exists(b) \/ b.life = "gone"
  /\ a.life = "gone" => b.life = "gone"
  /\ Over(a) => Over(b)
  /\ Exists(a) /\ Has(a, "finalizer") /\ Exists(b) => Has(b, "finalizer")
Later(c, d) == \A r \in Run : Before(c[r], d[r])
Chain ==
  /\ Later(seen, cr)
  /\ \A i \in DOMAIN watch : Later(seen, watch[i]) /\ Later(watch[i], cr)
  /\ \A i, j \in DOMAIN watch : i < j => Later(watch[i], watch[j])

\* What can be stored of a run: nothing before the finalizer, and the marks of
\* the cleanup only on a run that is over.
Sound(o) ==
  /\ ~Exists(o) \/ ~Has(o, "finalizer") => o.phase = "" /\ o.marks = {}
  /\ o.life = "deleting" => Has(o, "finalizer")
  /\ Has(o, "archived") \/ Has(o, "terminalCleanup") => Over(o)
\* Runs are created in the order of their timestamps.
BornInOrder(c) ==
  \A r \in Run :
    c[r].life # "unborn" =>
      /\ r \in scene.runs
      /\ \A o \in scene.runs : CreatedAt[o] < CreatedAt[r] => c[o].life # "unborn"
Snapshot(c) == BornInOrder(c) /\ \A r \in Run : Sound(c[r])
Snapshots == Snapshot(cr) /\ Snapshot(seen) /\ \A i \in DOMAIN watch : Snapshot(watch[i])

\* What the pass holds and where it is, against the object and the cache.
Blank(o) == o.phase = "" /\ o.marks \subseteq {"finalizer"}
Untouched(r) == Blank(cr[r]) /\ Blank(seen[r]) /\ \A i \in DOMAIN watch : Blank(watch[i][r])
Closing(p) ==
  \/ p.step \in {"observeTerminal", "archive", "reap", "unfinalize"}
  \/ p.step = "converge" /\ IsTerminalPhase(p.view.phase)
PassOrder ==
  pass.step # "idle" =>
    /\ Exists(pass.view) /\ seen[pass.run].life # "unborn"
    /\ Exists(cr[pass.run]) => Has(cr[pass.run], "finalizer")
    /\ Has(pass.view, "archived") \/ Has(pass.view, "terminalCleanup") => Over(seen[pass.run])
    /\ pass.step = "refetch" => Untouched(pass.run)
    /\ pass.step \in {"admitted", "observe"} => ~IsTerminalPhase(pass.view.phase) /\ ~SpecRefused(pass.run)
    /\ pass.step = "observeTerminal" => IsTerminalPhase(pass.view.phase)
    /\ Closing(pass) => Over(cr[pass.run])
    /\ pass.step = "reap" /\ On("archive") => Over(seen[pass.run])

\* A Job that was created is there, or its run is seen to be over.
InPass(r) == pass.step # "idle" /\ pass.run = r
Kept(r) == job[r] # "none" \/ cr[r].life = "gone"
Held(r) == Kept(r) \/ Over(seen[r])
Marked(r, m) ==
  Has(cr[r], m) \/ Has(seen[r], m) \/ \E i \in DOMAIN watch : Has(watch[i][r], m)
Actuated(r) == Marked(r, "actuated") \/ (InPass(r) /\ Has(pass.view, "actuated"))
NoSecondStart ==
  On("archive") => \A r \in Run :
    /\ Actuated(r) => Held(r)
    /\ IsTerminalPhase(cr[r].phase) => Held(r) \/ SpecRefused(r) \/ ConfigDrifted(r)
    /\ InPass(r) =>
         /\ pass.step = "admitted" /\ (IsTerminalPhase(cr[r].phase) \/ Has(pass.view, "actuated"))
              => Kept(r) \/ ConfigDrifted(r)
         /\ pass.step = "observe" => Kept(r)
         /\ pass.step = "converge" => Held(r)

\* A deferral that is cleared leaves no Job behind, nor will there be one.
Deferred(o) == Has(o, "terminalCleanup")
Cleared(r) == Marked(r, "terminalCleanup") /\ Exists(cr[r]) /\ ~Deferred(cr[r])
CleanupOrder ==
  \A r \in Run : Cleared(r) =>
    job[r] = "none" /\ Over(seen[r]) /\ ~(InPass(r) /\ pass.step = "admitted")

\* Whoever was provisioned has seen every older run of the ticket over.
Launched(r) == job[r] # "none" \/ Actuated(r) \/ (InPass(r) /\ pass.step = "observe")
TicketOrder ==
  \A r \in Run, o \in scene.runs :
    Launched(r) /\ TicketOf[o] = TicketOf[r] /\ CreatedAt[o] < CreatedAt[r] => Over(seen[o])

OrderInv == Chain /\ Snapshots /\ PassOrder /\ NoSecondStart /\ CleanupOrder /\ TicketOrder

-----------------------------------------------------------------------------
LEMMA BeforeIsAnOrder ==
  /\ \A a : Before(a, a)
  /\ \A a, b, c : Before(a, b) /\ Before(b, c) => Before(a, c)
<1>1. \A a : Before(a, a)
  BY DEF Before
<1>2. ASSUME NEW a, NEW b, NEW c, Before(a, b), Before(b, c)
      PROVE  Before(a, c)
  <2>1. Exists(a) /\ Exists(c) => Exists(b)
    BY <1>2 DEF Before, Exists, Over
  <2> QED BY <1>2, <2>1 DEF Before
<1> QED BY <1>1, <1>2

\* One object moves on, or none does.
Advance ==
  /\ UNCHANGED scene
  /\ Later(cr, cr')
  /\ Snapshot(cr)'
LEMMA LaterIsAnOrder ==
  ASSUME NEW a, NEW b, NEW c
  PROVE  Later(a, a) /\ (Later(a, b) /\ Later(b, c) => Later(a, c))
BY BeforeIsAnOrder DEF Later

LEMMA SnapshotKept ==
  ASSUME NEW c, NEW d, UNCHANGED scene, Snapshot(c), d = c
  PROVE  Snapshot(d)'
BY DEF Snapshot, BornInOrder

\* What the watch and the cache hold after a step.
LEMMA WatchMoves ==
  ASSUME Objects, Objects', scene \in Scene, CacheIsGood, UNCHANGED scene
  PROVE  \/ /\ seen' = seen
            /\ \A i \in DOMAIN watch' : (i \in DOMAIN watch /\ watch'[i] = watch[i]) \/ watch'[i] = cr'
            /\ \A i, j \in DOMAIN watch' : i < j => i \in DOMAIN watch /\ watch'[i] = watch[i]
         \/ seen' = cr /\ watch' = <<>> /\ cr' = cr
         \/ /\ cr' = cr /\ 1 \in DOMAIN watch /\ seen' = watch[1]
            /\ \A i \in DOMAIN watch' : i + 1 \in DOMAIN watch /\ watch'[i] = watch[i + 1]
<1>1. scene.lag \in Nat \ {0} /\ Len(watch) \in Nat /\ DOMAIN watch = 1 .. Len(watch)
      /\ watch \in Seq([Run -> CRObject]) /\ Len(watch) <= scene.lag
  BY DEF Scene, Objects
<1>2. CASE UNCHANGED seen /\ Watched
  <2>1. CASE cr' = cr
    BY <1>1, <1>2, <2>1 DEF Watched
  <2>2. CASE cr' # cr /\ Len(watch) < scene.lag
    <3>1. watch' = Append(watch, cr')
      BY <1>2, <2>2 DEF Watched
    <3>2. cr' \in [Run -> CRObject]
      BY DEF Objects
    <3>3. /\ DOMAIN watch' = 1 .. Len(watch) + 1
          /\ \A i \in 1 .. Len(watch) + 1 : watch'[i] = IF i <= Len(watch) THEN watch[i] ELSE cr'
      BY <1>1, <3>1, <3>2
    <3> QED BY <1>1, <1>2, <3>3
  <2>3. CASE cr' # cr /\ ~(Len(watch) < scene.lag)
    <3>1. watch' = [watch EXCEPT ![scene.lag] = cr'] /\ Len(watch) = scene.lag
      BY <1>1, <1>2, <2>3 DEF Watched
    <3> QED BY <1>1, <1>2, <3>1
  <2> QED BY <2>1, <2>2, <2>3
<1>3. CASE UNCHANGED cr /\ watch # <<>> /\ seen' = Head(watch) /\ watch' = Tail(watch)
  <2>1. Len(watch) # 0
    BY <1>1, <1>3
  <2> QED BY <1>1, <1>3, <2>1
<1> QED BY <1>2, <1>3 DEF CacheIsGood

LEMMA OrderKept ==
  ASSUME IInv, IInv', Chain, Snapshots, CacheIsGood, Advance
  PROVE  /\ Chain' /\ Snapshots'
         /\ Later(seen, seen')
         /\ \A r \in Run : \A m : Marked(r, m)' => Marked(r, m) \/ Has(cr'[r], m)
<1>1. Objects /\ Objects' /\ scene \in Scene /\ UNCHANGED scene /\ Later(cr, cr') /\ Snapshot(cr)'
  BY DEF IInv, BudgetType, Advance
<1>2. CASE /\ seen' = seen
           /\ \A i \in DOMAIN watch' : (i \in DOMAIN watch /\ watch'[i] = watch[i]) \/ watch'[i] = cr'
           /\ \A i, j \in DOMAIN watch' : i < j => i \in DOMAIN watch /\ watch'[i] = watch[i]
  <2>1. Later(seen', cr') /\ Later(seen, seen')
    BY <1>1, <1>2, LaterIsAnOrder DEF Chain
  <2>2. ASSUME NEW i \in DOMAIN watch'
        PROVE  Later(seen', watch'[i]) /\ Later(watch'[i], cr') /\ Snapshot(watch[i])'
    <3>1. CASE i \in DOMAIN watch /\ watch'[i] = watch[i]
      BY <1>1, <1>2, <3>1, LaterIsAnOrder, SnapshotKept DEF Chain, Snapshots
    <3>2. CASE watch'[i] = cr'
      BY <1>1, <2>1, <3>2, LaterIsAnOrder DEF Snapshot, BornInOrder
    <3> QED BY <1>2, <3>1, <3>2
  <2>3. ASSUME NEW i \in DOMAIN watch', NEW j \in DOMAIN watch', i < j
        PROVE  Later(watch'[i], watch'[j])
    <3>1. i \in DOMAIN watch /\ watch'[i] = watch[i]
      BY <1>2, <2>3
    <3>2. CASE j \in DOMAIN watch /\ watch'[j] = watch[j]
      BY <2>3, <3>1, <3>2 DEF Chain
    <3>3. CASE watch'[j] = cr'
      BY <2>2, <3>3
    <3> QED BY <1>2, <3>2, <3>3
  <2>4. Chain'
    BY <2>1, <2>2, <2>3 DEF Chain, Later
  <2>5. Snapshots'
    BY <1>1, <1>2, <2>2, SnapshotKept DEF Snapshots
  <2>6. ASSUME NEW r \in Run, NEW m, Marked(r, m)'
        PROVE  Marked(r, m) \/ Has(cr'[r], m)
    BY <1>2, <2>6 DEF Marked, Has
  <2> QED BY <2>1, <2>4, <2>5, <2>6
<1>3. CASE seen' = cr /\ watch' = <<>> /\ cr' = cr
  <2>1. Chain' /\ Later(seen, seen')
    BY <1>3, LaterIsAnOrder DEF Chain, Later
  <2>2. Snapshots'
    BY <1>1, <1>3, SnapshotKept DEF Snapshots
  <2>3. ASSUME NEW r \in Run, NEW m, Marked(r, m)'
        PROVE  Marked(r, m)
    BY <1>3, <2>3 DEF Marked, Has
  <2> QED BY <2>1, <2>2, <2>3
<1>4. CASE /\ cr' = cr /\ 1 \in DOMAIN watch /\ seen' = watch[1]
           /\ \A i \in DOMAIN watch' : i + 1 \in DOMAIN watch /\ watch'[i] = watch[i + 1]
  <2>1. DOMAIN watch = 1 .. Len(watch) /\ DOMAIN watch' = 1 .. Len(watch') /\ Len(watch) \in Nat /\ Len(watch') \in Nat
    BY <1>1 DEF Objects
  <2>2. Later(seen, seen') /\ Later(seen', cr')
    BY <1>4 DEF Chain
  <2>3. ASSUME NEW i \in DOMAIN watch'
        PROVE  Later(seen', watch'[i]) /\ Later(watch'[i], cr') /\ Snapshot(watch[i])'
    <3>1. i + 1 \in DOMAIN watch /\ watch'[i] = watch[i + 1] /\ 1 < i + 1
      BY <1>4, <2>1
    <3> QED BY <1>1, <1>4, <3>1, SnapshotKept DEF Chain, Snapshots
  <2>4. ASSUME NEW i \in DOMAIN watch', NEW j \in DOMAIN watch', i < j
        PROVE  Later(watch'[i], watch'[j])
    <3>1. /\ i + 1 \in DOMAIN watch /\ watch'[i] = watch[i + 1]
          /\ j + 1 \in DOMAIN watch /\ watch'[j] = watch[j + 1] /\ i + 1 < j + 1
      BY <1>4, <2>1, <2>4
    <3> QED BY <3>1 DEF Chain
  <2>5. Chain'
    BY <2>2, <2>3, <2>4 DEF Chain, Later
  <2>6. Snapshots'
    BY <1>1, <1>4, <2>3, SnapshotKept DEF Snapshots
  <2>7. ASSUME NEW r \in Run, NEW m, Marked(r, m)'
        PROVE  Marked(r, m)
    BY <1>4, <2>7 DEF Marked, Has
  <2> QED BY <2>2, <2>5, <2>6, <2>7
<1> QED BY <1>1, <1>2, <1>3, <1>4, WatchMoves

-----------------------------------------------------------------------------
(* A step of the controller about run r, as far as the invariant goes.     *)
StepFrame(r) ==
  /\ pass.step = "idle" \/ pass.run = r
  /\ pass'.step = "idle" \/ pass'.run = r
  /\ \A q \in Run \ {r} : cr'[q] = cr[q] /\ job'[q] = job[q]
  /\ UNCHANGED <<seen, scene, drift>>

ObjectMoves(r) ==
  /\ Before(cr[r], cr'[r]) /\ Sound(cr'[r])
  /\ cr[r].life = "unborn" => cr'[r].life = "unborn"

MarksMove(r) ==
  /\ Has(cr'[r], "actuated") \/ (pass'.step # "idle" /\ Has(pass'.view, "actuated"))
       => Actuated(r) \/ (InPass(r) /\ pass.step = "observe")
  /\ Deferred(cr[r]) /\ Exists(cr'[r]) /\ ~Deferred(cr'[r])
       => job'[r] = "none" /\ Over(seen[r]) /\ pass'.step # "admitted"

JobChanges(r) ==
  /\ job'[r] = "none" /\ job[r] # "none" => (On("archive") => Over(seen[r]))
  /\ job'[r] # "none" /\ job[r] = "none" =>
       /\ pass.step = "admitted" /\ pass'.step = "observe" /\ ~ConfigDrifted(r)
       /\ Has(pass.view, "actuated") \/ SingleActiveBlockers(r) = {}
  /\ IsTerminalPhase(cr'[r].phase) /\ ~IsTerminalPhase(cr[r].phase) /\ On("archive")
       => Held(r) \/ SpecRefused(r) \/ ConfigDrifted(r)

PassMoves(r) ==
  /\ pass'.step = "refetch" => pass.step = "idle" /\ Exists(cr[r]) /\ ~Has(cr[r], "finalizer") /\ Blank(cr'[r])
  /\ pass'.step = "admitted" =>
       /\ pass.step \in {"idle", "refetch"} /\ pass'.view = seen[r] /\ UNCHANGED <<job, cr>>
       /\ pass.step = "idle" => seen[r].life = "live"
  /\ pass'.step = "observe" => pass.step = "admitted" /\ job'[r] # "none"
  /\ pass'.step = "converge" /\ On("archive") =>
       (pass.step = "observe" /\ UNCHANGED job) \/ Over(seen[r])

PassHolds(r) ==
  pass'.step # "idle" =>
    /\ Exists(pass'.view) /\ seen[r].life # "unborn"
    /\ Exists(cr'[r]) => Has(cr'[r], "finalizer")
    /\ Has(pass'.view, "archived") \/ Has(pass'.view, "terminalCleanup") => Over(seen[r])
    /\ pass'.step \in {"admitted", "observe"} => ~IsTerminalPhase(pass'.view.phase) /\ ~SpecRefused(r)
    /\ pass'.step = "observeTerminal" => IsTerminalPhase(pass'.view.phase)
    /\ Closing(pass') => Over(cr'[r])
    /\ pass'.step = "reap" /\ On("archive") => Over(seen[r])

RunStep(r) ==
  StepFrame(r) /\ ObjectMoves(r) /\ MarksMove(r) /\ JobChanges(r) /\ PassMoves(r) /\ PassHolds(r)

LEMMA RunStepAdvances ==
  ASSUME IInv, IInv', Snapshots, NEW r \in Run, StepFrame(r), ObjectMoves(r)
  PROVE  Advance
<1>1. ASSUME NEW q \in Run
      PROVE  /\ Before(cr[q], cr'[q]) /\ Sound(cr'[q])
             /\ cr[q].life = "unborn" <=> cr'[q].life = "unborn"
  <2>1. CASE q = r
    BY <2>1 DEF ObjectMoves, Before
  <2>2. CASE q # r
    BY <2>2, BeforeIsAnOrder DEF StepFrame, Snapshots, Snapshot
  <2> QED BY <2>1, <2>2
<1>2. BornInOrder(cr)'
  <2>1. BornInOrder(cr) /\ scene \in Scene /\ UNCHANGED scene
    BY DEF Snapshots, Snapshot, IInv, BudgetType, StepFrame
  <2>2. scene.runs \subseteq Run
    BY <2>1 DEF Scene
  <2> QED BY <1>1, <2>1, <2>2 DEF BornInOrder
<1> QED BY <1>1, <1>2 DEF Advance, Later, Snapshot, StepFrame

\* Terms of the invariant about another run do not change.
LEMMA OthersStay ==
  ASSUME IInv, IInv', OrderInv, NEW r \in Run, StepFrame(r), ObjectMoves(r), CacheIsGood,
         NEW q \in Run, q # r
  PROVE  /\ cr'[q] = cr[q] /\ job'[q] = job[q] /\ seen'[q] = seen[q] /\ ~InPass(q)'
         /\ \A m : Marked(q, m)' => Marked(q, m)
         /\ (Held(q) => Held(q)') /\ (Actuated(q)' => Actuated(q)) /\ (Cleared(q)' => Cleared(q))
         /\ (Launched(q)' => Launched(q))
<1>1. /\ cr'[q] = cr[q] /\ job'[q] = job[q] /\ seen'[q] = seen[q]
      /\ pass'.step = "idle" \/ pass'.run = r
  BY DEF StepFrame
<1>2. ~InPass(q)'
  BY <1>1 DEF InPass
<1>3. \A m : Marked(q, m)' => Marked(q, m)
  <2>1. \A m : Marked(q, m)' => Marked(q, m) \/ Has(cr'[q], m)
    BY OrderKept, RunStepAdvances DEF OrderInv
  <2> QED BY <1>1, <2>1 DEF Marked, Has
<1>4. Held(q) => Held(q)'
  BY <1>1 DEF Held, Kept
<1>5. (Actuated(q)' => Actuated(q)) /\ (Cleared(q)' => Cleared(q))
  BY <1>1, <1>2, <1>3 DEF Actuated, Cleared, Deferred, Has, Exists
<1> QED BY <1>1, <1>2, <1>3, <1>4, <1>5 DEF Launched

LEMMA NoSecondStartKept ==
  ASSUME IInv, IInv', OrderInv, NEW r \in Run, RunStep(r), CacheIsGood
  PROVE  NoSecondStart'
<1> SUFFICES ASSUME On("archive"), NEW q \in Run
             PROVE  /\ Actuated(q)' => Held(q)'
                    /\ IsTerminalPhase(cr'[q].phase) => Held(q)' \/ SpecRefused(q) \/ ConfigDrifted(q)
                    /\ InPass(q)' =>
                         /\ pass'.step = "admitted" /\ (IsTerminalPhase(cr'[q].phase) \/ Has(pass'.view, "actuated"))
                              => Kept(q)' \/ ConfigDrifted(q)
                         /\ pass'.step = "observe" => Kept(q)'
                         /\ pass'.step = "converge" => Held(q)'
  BY DEF NoSecondStart, On, SpecRefused, ConfigDrifted, RunStep, StepFrame, Has
<1>1. /\ Actuated(q) => Held(q)
      /\ IsTerminalPhase(cr[q].phase) => Held(q) \/ SpecRefused(q) \/ ConfigDrifted(q)
      /\ InPass(q) /\ pass.step = "observe" => Kept(q)
  BY DEF OrderInv, NoSecondStart
<1>2. CASE q # r
  BY <1>1, <1>2, OthersStay DEF RunStep
<1>3. CASE q = r
  <2>1. seen' = seen /\ UNCHANGED drift /\ Before(cr[r], cr'[r])
    BY DEF RunStep, StepFrame, ObjectMoves
  <2>2. Held(r) => Held(r)'
    BY <2>1 DEF Held, Kept, RunStep, JobChanges, Before
  <2>3. Actuated(r)' => Held(r)'
    <3>1. Marked(r, "actuated")' => Marked(r, "actuated") \/ Has(cr'[r], "actuated")
      BY OrderKept, RunStepAdvances DEF OrderInv, RunStep
    <3>2. Actuated(r)' => Actuated(r) \/ (InPass(r) /\ pass.step = "observe")
      BY <3>1 DEF Actuated, InPass, RunStep, MarksMove, Has
    <3> QED BY <1>1, <1>3, <2>2, <3>2 DEF Held
  <2>4. IsTerminalPhase(cr'[r].phase) => Held(r)' \/ SpecRefused(r) \/ ConfigDrifted(r)
    BY <1>1, <1>3, <2>2 DEF RunStep, JobChanges
  <2>5. pass'.step = "admitted" /\ (IsTerminalPhase(cr'[r].phase) \/ Has(pass'.view, "actuated"))
          => Kept(r)' \/ ConfigDrifted(r)
    <3> SUFFICES ASSUME pass'.step = "admitted", IsTerminalPhase(cr'[r].phase) \/ Has(pass'.view, "actuated")
                 PROVE  Kept(r)' \/ ConfigDrifted(r)
      OBVIOUS
    <3>1. /\ pass.step \in {"idle", "refetch"} /\ pass'.view = seen[r] /\ UNCHANGED <<job, cr>>
          /\ pass.step = "idle" => seen[r].life = "live"
          /\ ~IsTerminalPhase(seen[r].phase) /\ ~SpecRefused(r)
      BY DEF RunStep, PassMoves, PassHolds
    <3>2. CASE pass.step = "refetch"
      <4>1. Blank(cr[r]) /\ Blank(seen[r])
        BY <3>2 DEF OrderInv, PassOrder, Untouched, RunStep, StepFrame
      <4>2. cr'[r].phase = ""
        BY <3>1, <4>1 DEF Blank
      <4>3. pass'.view.marks \subseteq {"finalizer"}
        BY <3>1, <4>1 DEF Blank
      <4> QED BY <4>2, <4>3 DEF IsTerminalPhase, Has
    <3>3. CASE pass.step = "idle"
      <4>1. ~Over(seen[r])
        BY <3>1, <3>3 DEF Over
      <4>2. Has(seen[r], "actuated") => Actuated(r)
        BY DEF Actuated, Marked
      <4>3. cr' = cr /\ job' = job
        BY <3>1
      <4>4. IsTerminalPhase(cr[r].phase) \/ Has(seen[r], "actuated")
        BY <3>1, <4>3 DEF Has
      <4>5. ~SpecRefused(r)
        BY <3>1
      <4>6. Held(r) \/ ConfigDrifted(r)
        BY <1>1, <1>3, <4>2, <4>4, <4>5
      <4>7. Kept(r) => Kept(r)'
        BY <4>3 DEF Kept
      <4> QED BY <4>1, <4>6, <4>7 DEF Held
    <3> QED BY <3>1, <3>2, <3>3
  <2>6. pass'.step = "observe" => Kept(r)'
    BY DEF RunStep, PassMoves, Kept
  <2>7. pass'.step = "converge" => Held(r)'
    BY <1>1, <1>3, <2>1 DEF RunStep, PassMoves, StepFrame, InPass, Kept, Held, Before
  <2> QED BY <1>3, <2>3, <2>4, <2>5, <2>6, <2>7
<1> QED BY <1>2, <1>3

LEMMA CleanupOrderKept ==
  ASSUME IInv, IInv', OrderInv, NEW r \in Run, RunStep(r), CacheIsGood
  PROVE  CleanupOrder'
<1> SUFFICES ASSUME NEW q \in Run, Cleared(q)'
             PROVE  job'[q] = "none" /\ Over(seen'[q]) /\ ~(InPass(q)' /\ pass'.step = "admitted")
  BY DEF CleanupOrder
<1>1. Cleared(q) => job[q] = "none" /\ Over(seen[q]) /\ ~(InPass(q) /\ pass.step = "admitted")
  BY DEF OrderInv, CleanupOrder
<1>2. CASE q # r
  BY <1>1, <1>2, OthersStay DEF RunStep
<1>3. CASE q = r
  <2>1. seen' = seen /\ Exists(cr'[r]) /\ ~Deferred(cr'[r]) /\ Marked(r, "terminalCleanup")
    <3>1. Marked(r, "terminalCleanup")' => Marked(r, "terminalCleanup") \/ Has(cr'[r], "terminalCleanup")
      BY OrderKept, RunStepAdvances DEF OrderInv, RunStep
    <3> QED BY <1>3, <3>1 DEF Cleared, Deferred, RunStep, StepFrame, Has, Exists
  <2>2. CASE Deferred(cr[r])
    BY <1>3, <2>1, <2>2 DEF RunStep, MarksMove
  <2>3. CASE ~Deferred(cr[r])
    <3>1. Exists(cr[r])
      <4>1. cr[r] \in CRObject
        BY DEF IInv, Objects
      <4> QED BY <2>1, <4>1 DEF RunStep, ObjectMoves, Before, Exists, CRObject
    <3>2. job[r] = "none" /\ Over(seen[r]) /\ ~(InPass(r) /\ pass.step = "admitted")
      BY <1>1, <1>3, <2>1, <2>3, <3>1 DEF Cleared
    <3>3. job'[r] = "none"
      BY <3>2 DEF RunStep, JobChanges, StepFrame, InPass
    <3>4. pass'.step # "admitted"
      <4> SUFFICES ASSUME pass'.step = "admitted" PROVE FALSE
        OBVIOUS
      <4>1. /\ pass.step \in {"idle", "refetch"} /\ ~IsTerminalPhase(seen[r].phase)
            /\ pass.step = "idle" => seen[r].life = "live"
        BY DEF RunStep, PassMoves, PassHolds
      <4>2. pass.step = "refetch"
        BY <3>2, <4>1 DEF Over
      <4>3. Untouched(r)
        BY <4>2 DEF OrderInv, PassOrder, RunStep, StepFrame
      <4> QED BY <2>1, <4>3 DEF Untouched, Blank, Marked, Has
    <3> QED BY <1>3, <2>1, <3>2, <3>3, <3>4
  <2> QED BY <2>2, <2>3
<1> QED BY <1>2, <1>3

LEMMA TicketOrderKept ==
  ASSUME IInv, IInv', OrderInv, NEW r \in Run, RunStep(r), CacheIsGood
  PROVE  TicketOrder'
<1>1. UNCHANGED <<seen, scene>> /\ scene.runs \subseteq Run
  BY DEF RunStep, StepFrame, IInv, BudgetType, Scene
<1> SUFFICES ASSUME NEW q \in Run, NEW o \in scene.runs, Launched(q)',
                    TicketOf[o] = TicketOf[q], CreatedAt[o] < CreatedAt[q]
             PROVE  Over(seen[o])
  BY <1>1 DEF TicketOrder
<1>2. Launched(q) => Over(seen[o])
  BY DEF OrderInv, TicketOrder
<1>3. CASE q # r
  BY <1>2, <1>3, OthersStay DEF RunStep
<1>4. CASE q = r
  <2>1. Marked(r, "actuated")' => Marked(r, "actuated") \/ Has(cr'[r], "actuated")
    BY OrderKept, RunStepAdvances DEF OrderInv, RunStep
  <2>2. Actuated(r)' => Launched(r)
    BY <2>1 DEF Actuated, InPass, Launched, RunStep, MarksMove, Has
  <2>3. CASE Launched(r)
    BY <1>2, <1>4, <2>3
  <2>4. CASE ~Launched(r)
    <3>1. job[r] = "none" /\ job'[r] # "none"
      BY <1>4, <2>2, <2>4 DEF Launched, RunStep, PassMoves, InPass
    <3>2. pass.step = "admitted" /\ InPass(r) /\ (Has(pass.view, "actuated") \/ SingleActiveBlockers(r) = {})
      BY <3>1 DEF RunStep, JobChanges, StepFrame, InPass
    <3>3. SingleActiveBlockers(r) = {}
      BY <2>4, <3>2 DEF Launched, Actuated
    <3>4. seen[r].life # "unborn" /\ BornInOrder(seen)
      BY <3>2 DEF OrderInv, PassOrder, InPass, Snapshots, Snapshot
    <3>5. seen[o].life # "unborn"
      BY <1>4, <3>4 DEF BornInOrder
    <3>6. RunOlder(o, r) /\ o \in Run \ {r}
      <4>1. CreatedAt[o] \in Nat /\ CreatedAt[r] \in Nat /\ o \in Run
        BY <1>1, ReconcilerAssumption DEF ReconcilerAssumption
      <4> QED BY <1>4, <4>1 DEF RunOlder
    <3>7. ~(seen[o].life = "live" /\ ~IsTerminalPhase(seen[o].phase))
      BY <1>4, <3>3, <3>6 DEF SingleActiveBlockers
    <3>8. seen[o] \in CRObject
      BY <3>6 DEF IInv, Objects
    <3> QED BY <3>5, <3>7, <3>8 DEF Over, CRObject
  <2> QED BY <2>3, <2>4
<1> QED BY <1>3, <1>4

LEMMA PassOrderKept ==
  ASSUME IInv, IInv', OrderInv, NEW r \in Run, RunStep(r), CacheIsGood
  PROVE  PassOrder'
<1> SUFFICES ASSUME pass'.step # "idle" PROVE PassOrder'
  BY DEF PassOrder
<1>1. pass'.run = r /\ UNCHANGED <<seen, scene>>
  BY DEF RunStep, StepFrame
<1>2. CASE pass'.step # "refetch"
  BY <1>1, <1>2 DEF RunStep, PassHolds, PassOrder, SpecRefused, On, Exists, Has
<1>3. CASE pass'.step = "refetch"
  <2>1. Exists(cr[r]) /\ ~Has(cr[r], "finalizer") /\ Blank(cr'[r])
    BY <1>3 DEF RunStep, PassMoves
  <2>2. ASSUME NEW c, c[r] = cr[r] \/ Later(c, cr), Snapshot(c)
        PROVE  Blank(c[r])
    <3>1. Before(c[r], cr[r]) /\ Sound(c[r])
      BY <2>2, BeforeIsAnOrder DEF Later, Snapshot
    <3> QED BY <2>1, <3>1 DEF Before, Sound, Blank, Exists
  <2>3. Blank(seen[r]) /\ \A i \in DOMAIN watch : Blank(watch[i][r])
    BY <2>2 DEF OrderInv, Chain, Snapshots
  <2>4. \A i \in DOMAIN watch' : (i \in DOMAIN watch /\ watch'[i] = watch[i]) \/ watch'[i] = cr'
                                  \/ (i + 1 \in DOMAIN watch /\ watch'[i] = watch[i + 1])
    BY <1>1, WatchMoves DEF IInv, BudgetType
  <2>5. Untouched(r)'
    BY <1>1, <2>1, <2>3, <2>4 DEF Untouched, Blank
  <2> QED BY <1>1, <1>3, <2>5 DEF RunStep, PassHolds, PassOrder, SpecRefused, On, Exists, Has
<1> QED BY <1>2, <1>3

LEMMA RunStepKeepsOrder ==
  ASSUME IInv, IInv', OrderInv, NEW r \in Run, RunStep(r), CacheIsGood
  PROVE  OrderInv'
BY RunStepAdvances, OrderKept, PassOrderKept, NoSecondStartKept, CleanupOrderKept, TicketOrderKept
   DEF OrderInv, RunStep

-----------------------------------------------------------------------------
(* What the steps of a pass need of the invariant.                         *)
LEMMA Fetched ==
  ASSUME IInv, OrderInv, NEW r \in Run
  PROVE  /\ seen[r] \in CRObject /\ cr[r] \in CRObject
         /\ Before(seen[r], cr[r]) /\ Sound(seen[r]) /\ Sound(cr[r])
         /\ Has(seen[r], "actuated") \/ Has(cr[r], "actuated") => Actuated(r)
         /\ On("archive") /\ Actuated(r) => Held(r)
<1>1. seen[r] \in CRObject /\ cr[r] \in CRObject
  BY DEF IInv, Objects
<1>2. Before(seen[r], cr[r]) /\ Sound(seen[r]) /\ Sound(cr[r])
  BY DEF OrderInv, Chain, Later, Snapshots, Snapshot
<1>3. Has(seen[r], "actuated") \/ Has(cr[r], "actuated") => Actuated(r)
  BY DEF Actuated, Marked
<1>4. On("archive") /\ Actuated(r) => Held(r)
  BY DEF OrderInv, NoSecondStart
<1> QED BY <1>1, <1>2, <1>3, <1>4

LEMMA PassKnows ==
  ASSUME IInv, OrderInv, pass.step # "idle", NEW r \in Run, r = pass.run
  PROVE  /\ pass.view \in CRObject /\ Exists(pass.view) /\ seen[r].life # "unborn" /\ InPass(r)
         /\ Exists(cr[r]) => Has(cr[r], "finalizer")
         /\ Has(pass.view, "archived") \/ Has(pass.view, "terminalCleanup") => Over(seen[r])
         /\ pass.step \in {"admitted", "observe"} => ~IsTerminalPhase(pass.view.phase) /\ ~SpecRefused(r)
         /\ pass.step = "observeTerminal" => IsTerminalPhase(pass.view.phase)
         /\ Closing(pass) => Over(cr[r])
         /\ pass.step = "reap" /\ On("archive") => Over(seen[r])
         /\ Has(pass.view, "actuated") => Actuated(r)
         /\ On("archive") =>
              /\ pass.step = "observe" => Kept(r)
              /\ pass.step = "converge" => Held(r)
<1>1. pass.view \in CRObject
  BY PassView
<1>2. InPass(r)
  BY DEF InPass
<1>3. Has(pass.view, "actuated") => Actuated(r)
  BY <1>2 DEF Actuated
<1>4. On("archive") => /\ pass.step = "observe" => Kept(r)
                       /\ pass.step = "converge" => Held(r)
  BY <1>2 DEF OrderInv, NoSecondStart
<1> QED BY <1>1, <1>2, <1>3, <1>4 DEF OrderInv, PassOrder

\* A write over the object as it is.
LEMMA OverWrite ==
  ASSUME IInv, OrderInv, NEW r \in Run, NEW o \in CRObject, o.life = cr[r].life, Exists(o),
         Has(o, "finalizer"), IsTerminalPhase(cr[r].phase) => IsTerminalPhase(o.phase),
         Has(o, "archived") \/ Has(o, "terminalCleanup") => Over(cr[r]) \/ Over(o),
         cr' = [cr EXCEPT ![r] = o]
  PROVE  ObjectMoves(r) /\ cr'[r] = o /\ (\A q \in Run \ {r} : cr'[q] = cr[q]) /\ (Over(cr[r]) => Over(o))
<1>1. cr'[r] = o /\ \A q \in Run \ {r} : cr'[q] = cr[q]
  BY DEF IInv, Objects
<1>2. Over(cr[r]) => Over(o)
  BY DEF Over
<1>3. Before(cr[r], o)
  BY <1>2 DEF Before, Exists
<1>4. Sound(o)
  BY <1>2 DEF Sound
<1> QED BY <1>1, <1>2, <1>3, <1>4 DEF ObjectMoves, Exists

LEMMA NoWrite ==
  ASSUME IInv, OrderInv, NEW r \in Run, UNCHANGED cr
  PROVE  ObjectMoves(r) /\ cr'[r] = cr[r] /\ \A q \in Run \ {r} : cr'[q] = cr[q]
BY Fetched, BeforeIsAnOrder DEF ObjectMoves

\* The pass returns, having written at most marks and a phase.
LEMMA ReturnStep ==
  ASSUME IInv, OrderInv, NEW r \in Run, pass.step = "idle" \/ pass.run = r, pass'.step = "idle",
         ObjectMoves(r), \A q \in Run \ {r} : cr'[q] = cr[q],
         Has(cr'[r], "actuated") => Actuated(r),
         Deferred(cr[r]) => Deferred(cr'[r]),
         IsTerminalPhase(cr'[r].phase) => IsTerminalPhase(cr[r].phase),
         UNCHANGED <<seen, scene, drift, job>>
  PROVE  RunStep(r)
<1>1. StepFrame(r) /\ MarksMove(r) /\ JobChanges(r)
  BY DEF StepFrame, MarksMove, JobChanges
<1>2. PassMoves(r) /\ PassHolds(r)
  BY DEF PassMoves, PassHolds
<1> QED BY <1>1, <1>2 DEF RunStep

LEMMA QuietReturn ==
  ASSUME IInv, OrderInv, NEW r \in Run, pass.step = "idle" \/ pass.run = r, pass'.step = "idle",
         UNCHANGED <<cr, seen, scene, drift, job>>
  PROVE  RunStep(r)
BY NoWrite, Fetched, ReturnStep DEF Deferred

\* The fail-closed paths.
LEMMA FailRunStep ==
  ASSUME IInv, OrderInv, NEW r \in Run, pass.step = "idle" \/ pass.run = r,
         NEW base \in CRObject, NEW update \in CRObject, NEW obs, NEW woken,
         FailRun(r, base, update, obs, woken),
         Exists(base), update.life = base.life, base.marks \subseteq update.marks,
         Has(update, "archived") \/ Has(update, "terminalCleanup")
           => (Has(base, "archived") \/ Has(base, "terminalCleanup")) /\ Over(seen[r]),
         Has(update, "actuated") => Actuated(r) \/ (InPass(r) /\ pass.step = "observe"),
         On("archive") => SpecRefused(r) \/ ConfigDrifted(r) \/ Held(r) \/ IsTerminalPhase(base.phase),
         seen[r].life # "unborn", Exists(cr[r]) => Has(cr[r], "finalizer"),
         UNCHANGED <<seen, scene, drift, job>>
  PROVE  RunStep(r)
<1> DEFINE failed == [update EXCEPT !.phase = "Failed"]
<1>1. failed \in CRObject /\ failed.life = update.life /\ failed.marks = update.marks /\ failed.phase = "Failed"
  BY PhaseChange DEF Phase
<1>2. CASE Stale(r, base) /\ pass' = IdlePass /\ UNCHANGED cr
  BY <1>2, QuietReturn, PassTypes
<1>3. CASE /\ Write(r, base, failed)
           /\ pass' = [PassAt("archive", r, failed) EXCEPT !.goal = "fail", !.obs = obs]
  <2> HIDE DEF failed
  <2>1. cr[r] = base /\ cr' = [cr EXCEPT ![r] = failed]
    BY <1>3 DEF Write, Stale
  <2>2. Exists(failed) /\ Over(failed) /\ IsTerminalPhase(failed.phase)
    BY <1>1 DEF Exists, Over, IsTerminalPhase
  <2>3. Has(failed, "finalizer")
    BY <1>1, <2>1 DEF Has, Exists
  <2>4. ObjectMoves(r) /\ cr'[r] = failed /\ \A q \in Run \ {r} : cr'[q] = cr[q]
    BY <1>1, <2>1, <2>2, <2>3, OverWrite
  <2>5. /\ pass'.step = "archive" /\ pass'.run = r /\ pass'.view = failed
    <3>1. /\ PassAt("archive", r, failed) \in PassRecord /\ PassAt("archive", r, failed).step = "archive"
          /\ PassAt("archive", r, failed).run = r /\ PassAt("archive", r, failed).view = failed
      BY <1>1, PassTypes DEF PassStep
    <3> QED BY <1>3, <3>1 DEF PassRecord
  <2>6. StepFrame(r)
    BY <2>4, <2>5 DEF StepFrame
  <2>7. MarksMove(r)
    BY <1>1, <2>1, <2>4, <2>5 DEF MarksMove, Deferred, Has
  <2>8. JobChanges(r)
    BY <2>1 DEF JobChanges
  <2>9. PassMoves(r)
    BY <2>5 DEF PassMoves
  <2>10. PassHolds(r)
    BY <1>1, <2>2, <2>3, <2>4, <2>5 DEF PassHolds, Closing, Has
  <2> QED BY <2>4, <2>6, <2>7, <2>8, <2>9, <2>10 DEF RunStep
<1> QED BY <1>2, <1>3 DEF FailRun

-----------------------------------------------------------------------------
(* The steps of a pass, one by one.                                        *)
LEMMA DispatchSteps ==
  ASSUME IInv, OrderInv, NEW r \in Run, NEW woken,
         \/ pass.step = "idle" /\ seen[r].life = "live" /\ Has(seen[r], "finalizer")
         \/ pass.step = "refetch" /\ pass.run = r /\ Exists(seen[r]),
         Dispatch(r, seen[r], woken), UNCHANGED <<seen, scene, drift, job>>
  PROVE  RunStep(r)
<1>1. /\ seen[r] \in CRObject /\ Before(seen[r], cr[r]) /\ Sound(seen[r]) /\ Exists(seen[r])
      /\ Has(seen[r], "actuated") => Actuated(r)
      /\ seen[r].life # "unborn" /\ (pass.step = "idle" \/ pass.run = r)
  BY Fetched DEF Exists
<1>2. Exists(cr[r]) => Has(cr[r], "finalizer")
  BY <1>1, PassKnows DEF Before
<1>3. CASE IsTerminalPhase(seen[r].phase) /\ pass' = PassAt("observeTerminal", r, seen[r]) /\ UNCHANGED cr
  <2>1. ObjectMoves(r) /\ cr'[r] = cr[r] /\ \A q \in Run \ {r} : cr'[q] = cr[q]
    BY <1>3, NoWrite
  <2>2. pass'.step = "observeTerminal" /\ pass'.run = r /\ pass'.view = seen[r]
    BY <1>1, <1>3, PassTypes DEF PassStep
  <2>3. Over(seen[r]) /\ Over(cr[r])
    BY <1>1, <1>3 DEF Over, Exists, Before
  <2>4. StepFrame(r) /\ JobChanges(r)
    BY <1>1, <2>1, <2>2 DEF StepFrame, JobChanges
  <2>5. MarksMove(r)
    BY <1>1, <2>1, <2>2, Fetched DEF MarksMove
  <2>6. PassMoves(r)
    BY <2>2 DEF PassMoves
  <2>7. PassHolds(r)
    BY <1>1, <1>2, <1>3, <2>1, <2>2, <2>3 DEF PassHolds
  <2> QED BY <2>1, <2>4, <2>5, <2>6, <2>7 DEF RunStep
<1>4. CASE SpecRefused(r) /\ FailRun(r, seen[r], seen[r], "off", woken)
  BY <1>1, <1>2, <1>4, FailRunStep DEF Sound
<1>5. CASE /\ ~IsTerminalPhase(seen[r].phase) /\ ~SpecRefused(r)
           /\ pass' = PassAt("admitted", r, seen[r]) /\ UNCHANGED cr
  <2>1. ObjectMoves(r) /\ cr'[r] = cr[r] /\ \A q \in Run \ {r} : cr'[q] = cr[q]
    BY <1>5, NoWrite
  <2>2. pass'.step = "admitted" /\ pass'.run = r /\ pass'.view = seen[r]
    BY <1>1, <1>5, PassTypes DEF PassStep
  <2>3. StepFrame(r) /\ JobChanges(r)
    BY <1>1, <2>1, <2>2 DEF StepFrame, JobChanges
  <2>4. MarksMove(r)
    BY <1>1, <2>1, <2>2, Fetched DEF MarksMove
  <2>5. PassMoves(r)
    BY <1>1, <1>5, <2>2 DEF PassMoves
  <2>6. PassHolds(r)
    BY <1>1, <1>2, <1>5, <2>1, <2>2 DEF PassHolds, Closing, Sound
  <2> QED BY <2>1, <2>3, <2>4, <2>5, <2>6 DEF RunStep
<1>6. CASE /\ ~IsTerminalPhase(seen[r].phase) /\ pass' = IdlePass
           /\ LET queued == [Without(seen[r], {"actuated"}) EXCEPT !.phase = "Pending"]
              IN IF Stale(r, seen[r]) THEN UNCHANGED cr ELSE Write(r, seen[r], queued)
  <2> DEFINE bare == Without(seen[r], {"actuated"})
             queued == [bare EXCEPT !.phase = "Pending"]
  <2>1. CASE UNCHANGED cr
    BY <1>1, <1>6, <2>1, QuietReturn, PassTypes
  <2>2. CASE Write(r, seen[r], queued)
    <3>1. bare \in CRObject /\ bare.life = seen[r].life /\ bare.marks = seen[r].marks \ {"actuated"}
      <4>1. {"actuated"} \in SUBSET Mark /\ "" \in Phase
        BY DEF Mark, Phase
      <4> HIDE DEF queued
      <4> QED BY <1>1, <4>1, WithoutChange
    <3> HIDE DEF bare
    <3>2. queued \in CRObject /\ queued.life = seen[r].life /\ queued.marks = seen[r].marks \ {"actuated"}
      BY <3>1, PhaseChange DEF Phase
    <3>3. cr[r] = seen[r] /\ cr' = [cr EXCEPT ![r] = queued]
      BY <2>2 DEF Write, Stale
    <3> HIDE DEF queued
    <3>4. Has(queued, "finalizer") /\ Exists(queued)
      BY <1>1, <1>2, <3>2, <3>3 DEF Has, Exists
    <3>5. Has(queued, "archived") \/ Has(queued, "terminalCleanup") => Over(cr[r])
      BY <1>1, <3>2, <3>3 DEF Has, Sound
    <3>6. ObjectMoves(r) /\ cr'[r] = queued /\ \A q \in Run \ {r} : cr'[q] = cr[q]
      BY <1>6, <3>2, <3>3, <3>4, <3>5, OverWrite
    <3>7. ~Has(queued, "actuated") /\ (Deferred(cr[r]) => Deferred(queued)) /\ Over(cr[r]) = Over(cr[r])
      BY <3>2, <3>3 DEF Has, Deferred
    <3>8. pass'.step = "idle"
      BY <1>6, PassTypes
    <3>9. ~IsTerminalPhase(queued.phase)
      BY <3>2 DEF IsTerminalPhase, queued, bare, CRObject, Without
    <3> QED BY <1>1, <3>6, <3>7, <3>8, <3>9, ReturnStep
  <2> QED BY <1>6, <2>1, <2>2
<1> QED BY <1>3, <1>4, <1>5, <1>6 DEF Dispatch, RefuseSpec

LEMMA ReconcileSteps ==
  ASSUME IInv, OrderInv, NEW r \in Run, Reconcile(r)
  PROVE  RunStep(r)
<1>1. UNCHANGED <<seen, scene, drift, job>> /\ pass.step = "idle"
  BY DEF Reconcile, clusterVars, budgetVars
<1>2. /\ seen[r] \in CRObject /\ cr[r] \in CRObject /\ Before(seen[r], cr[r])
      /\ Sound(seen[r]) /\ Sound(cr[r])
      /\ Has(seen[r], "actuated") \/ Has(cr[r], "actuated") => Actuated(r)
  BY Fetched
<1>3. CASE NotFound(r)
  BY <1>1, <1>3, QuietReturn DEF NotFound
<1>4. CASE StartFinalize(r)
  <2>1. /\ pass'.step = "archive" /\ pass'.run = r /\ pass'.view = seen[r] /\ UNCHANGED cr
        /\ seen[r].life = "deleting"
    <3>1. /\ PassAt("archive", r, seen[r]) \in PassRecord /\ PassAt("archive", r, seen[r]).step = "archive"
          /\ PassAt("archive", r, seen[r]).run = r /\ PassAt("archive", r, seen[r]).view = seen[r]
      BY <1>2, PassTypes DEF PassStep
    <3> QED BY <1>4, <3>1 DEF StartFinalize, PassRecord
  <2>2. ObjectMoves(r) /\ cr'[r] = cr[r] /\ \A q \in Run \ {r} : cr'[q] = cr[q]
    BY <2>1, NoWrite
  <2>3. StepFrame(r) /\ JobChanges(r) /\ PassMoves(r)
    BY <1>1, <2>1, <2>2 DEF StepFrame, JobChanges, PassMoves
  <2>4. MarksMove(r)
    BY <1>2, <2>1, <2>2 DEF MarksMove
  <2>5. PassHolds(r)
    BY <1>2, <2>1, <2>2 DEF PassHolds, Over, Before, Sound, Exists
  <2> QED BY <2>2, <2>3, <2>4, <2>5 DEF RunStep
<1>5. CASE AddFinalizer(r)
  <2> DEFINE marked == With(seen[r], {"finalizer"})
  <2>1. seen[r].life = "live" /\ ~Has(seen[r], "finalizer")
    BY <1>5 DEF AddFinalizer
  <2>2. CASE UNCHANGED <<cr, pass>>
    BY <1>1, <2>2, QuietReturn
  <2>3. CASE Write(r, seen[r], marked) /\ pass' = PassAt("refetch", r, seen[r])
    <3>1. {"finalizer"} \in SUBSET Mark /\ "" \in Phase
      BY DEF Mark, Phase
    <3>2. /\ marked \in CRObject /\ marked.life = seen[r].life /\ marked.phase = seen[r].phase
          /\ marked.marks = seen[r].marks \cup {"finalizer"}
      BY <1>2, <3>1, WithChange
    <3>3. cr' = [cr EXCEPT ![r] = marked] /\ cr[r] = seen[r]
      BY <2>3 DEF Write, Stale
    <3> HIDE DEF marked
    <3>4. seen[r].phase = "" /\ seen[r].marks = {}
      BY <1>2, <2>1 DEF Sound
    <3>5. Has(marked, "finalizer") /\ Exists(marked) /\ Blank(marked) /\ ~IsTerminalPhase(marked.phase)
      BY <2>1, <3>2, <3>4 DEF Has, Exists, Blank, IsTerminalPhase
    <3>6. ~Has(marked, "archived") /\ ~Has(marked, "terminalCleanup") /\ ~Has(marked, "actuated")
      BY <3>2, <3>4 DEF Has
    <3>7. ObjectMoves(r) /\ cr'[r] = marked /\ \A q \in Run \ {r} : cr'[q] = cr[q]
      BY <3>2, <3>3, <3>4, <3>5, <3>6, OverWrite DEF IsTerminalPhase
    <3>8. pass'.step = "refetch" /\ pass'.run = r /\ pass'.view = seen[r]
      BY <1>2, <2>3, PassTypes DEF PassStep
    <3>9. StepFrame(r) /\ JobChanges(r)
      BY <1>1, <3>5, <3>7, <3>8 DEF StepFrame, JobChanges
    <3>10. MarksMove(r)
      BY <3>3, <3>4, <3>6, <3>7, <3>8 DEF MarksMove, Deferred, Has
    <3>11. PassMoves(r)
      BY <1>1, <2>1, <3>3, <3>5, <3>7, <3>8 DEF PassMoves, Exists
    <3>12. PassHolds(r)
      BY <2>1, <3>4, <3>5, <3>7, <3>8 DEF PassHolds, Closing, Exists, Has
    <3> QED BY <3>7, <3>9, <3>10, <3>11, <3>12 DEF RunStep
  <2> QED BY <1>5, <2>2, <2>3 DEF AddFinalizer
<1>6. CASE seen[r].life = "live" /\ Has(seen[r], "finalizer") /\ Dispatch(r, seen[r], wake \ {r})
  BY <1>1, <1>6, DispatchSteps
<1> QED BY <1>3, <1>4, <1>5, <1>6 DEF Reconcile

LEMMA RefetchedSteps ==
  ASSUME IInv, OrderInv, NEW r \in Run, r = pass.run, Refetched
  PROVE  RunStep(r)
<1>1. UNCHANGED <<seen, scene, drift, job>> /\ pass.step = "refetch"
  BY DEF Refetched, clusterVars, budgetVars
<1>2. CASE Exists(seen[r])
  BY <1>1, <1>2, DispatchSteps DEF Refetched
<1>3. CASE ~Exists(seen[r])
  BY <1>1, <1>3, QuietReturn, PassTypes DEF Refetched, EndPass
<1> QED BY <1>2, <1>3

LEMMA ProvisionSteps ==
  ASSUME IInv, OrderInv, NEW r \in Run, r = pass.run, Provision
  PROVE  RunStep(r)
<1>1. UNCHANGED <<seen, scene, drift>> /\ pass.step = "admitted" /\ pass \in PassRecord /\ ClusterType
  BY PassView DEF Provision, budgetVars, IInv
<1>2. /\ pass.view \in CRObject /\ Exists(pass.view) /\ seen[r].life # "unborn"
      /\ Exists(cr[r]) => Has(cr[r], "finalizer")
      /\ Has(pass.view, "archived") \/ Has(pass.view, "terminalCleanup") => Over(seen[r])
      /\ ~IsTerminalPhase(pass.view.phase) /\ ~SpecRefused(r)
      /\ Has(pass.view, "actuated") => Actuated(r)
  BY <1>1, PassKnows
<1>3. Has(pass.view, "actuated") \/ SingleActiveBlockers(r) = {}
  BY DEF Provision
<1>4. PICK probed \in BOOLEAN :
          \/ /\ PinMismatch(r, probed)
             /\ FailRun(r, pass.view, pass.view, "off", wake)
             /\ UNCHANGED job
          \/ /\ ~PinMismatch(r, probed)
             /\ job' = [job EXCEPT ![r] = IF @ = "none" THEN "pending" ELSE @]
             /\ pass' = [pass EXCEPT !.step = "observe",
                                     !.jobPhase = DerivePhase(job'[r]),
                                     !.provisioned = job[r] = "none"]
             /\ UNCHANGED <<queueVars, cr>>
  BY DEF Provision
<1>5. CASE PinMismatch(r, probed) /\ FailRun(r, pass.view, pass.view, "off", wake) /\ UNCHANGED job
  <2>1. On("archive") => ConfigDrifted(r) \/ Held(r)
    <3>1. RunnerImageMismatch(r) => job[r] # "none" \/ Has(pass.view, "actuated")
      BY DEF RunnerImageMismatch
    <3>2. On("archive") /\ Actuated(r) => Held(r)
      BY Fetched
    <3> QED BY <1>2, <1>5, <3>1, <3>2 DEF PinMismatch, Held, Kept
  <2> QED BY <1>1, <1>2, <1>5, <2>1, FailRunStep
<1>6. CASE /\ ~PinMismatch(r, probed)
           /\ job' = [job EXCEPT ![r] = IF @ = "none" THEN "pending" ELSE @]
           /\ pass' = [pass EXCEPT !.step = "observe",
                                   !.jobPhase = DerivePhase(job'[r]),
                                   !.provisioned = job[r] = "none"]
           /\ UNCHANGED cr
  <2>1. ObjectMoves(r) /\ cr'[r] = cr[r] /\ \A q \in Run \ {r} : cr'[q] = cr[q]
    BY <1>6, NoWrite
  <2>2. pass'.step = "observe" /\ pass'.run = r /\ pass'.view = pass.view
    BY <1>1, <1>6 DEF PassRecord
  <2>3. job'[r] # "none" /\ \A q \in Run \ {r} : job'[q] = job[q]
    BY <1>1, <1>6 DEF ClusterType
  <2>4. StepFrame(r)
    BY <1>1, <2>1, <2>2, <2>3 DEF StepFrame
  <2>5. MarksMove(r)
    BY <1>2, <2>1, <2>2, Fetched DEF MarksMove
  <2>6. JobChanges(r)
    BY <1>1, <1>3, <1>6, <2>1, <2>2, <2>3 DEF JobChanges, PinMismatch
  <2>7. PassMoves(r)
    BY <1>1, <2>2, <2>3 DEF PassMoves
  <2>8. PassHolds(r)
    BY <1>2, <2>1, <2>2 DEF PassHolds, Closing
  <2> QED BY <2>1, <2>4, <2>5, <2>6, <2>7, <2>8 DEF RunStep
<1> QED BY <1>4, <1>5, <1>6

\* What a pending status adds to the object of the pass.
LEMMA ObservationMarks ==
  ASSUME NEW o \in CRObject, NEW c
  PROVE  /\ o.marks \subseteq WithObservation(o, c).marks
         /\ WithObservation(o, c).marks \subseteq o.marks \cup {"castleTerminalObserved"}
         /\ IsTerminalPhase(o.phase) => IsTerminalPhase(WithObservation(o, c).phase)
<1>1. CASE ~CastleTerminal(c)
  BY <1>1 DEF WithObservation
<1>2. CASE CastleTerminal(c)
  <2> DEFINE w == With(o, {"castleTerminalObserved"})
             p == IF c = "succeeded" THEN "Succeeded" ELSE "Failed"
  <2>1. {"castleTerminalObserved"} \in SUBSET Mark /\ p \in Phase /\ IsTerminalPhase(p)
    BY DEF Mark, Phase, IsTerminalPhase
  <2>2. w \in CRObject /\ w.marks = o.marks \cup {"castleTerminalObserved"}
    BY <2>1, WithChange
  <2>3. WithObservation(o, c) = [w EXCEPT !.phase = p]
    BY <1>2 DEF WithObservation
  <2> HIDE DEF w, p
  <2>4. [w EXCEPT !.phase = p].marks = w.marks /\ [w EXCEPT !.phase = p].phase = p
    BY <2>1, <2>2, PhaseChange
  <2> QED BY <2>1, <2>2, <2>3, <2>4
<1> QED BY <1>1, <1>2

LEMMA PendingStatusMarks ==
  ASSUME IInv, pass.step # "idle", NEW obs
  PROVE  /\ pass.view.marks \cup {"actuated"} \subseteq PendingStatus(obs).marks
         /\ PendingStatus(obs).marks \subseteq pass.view.marks \cup {"actuated", "castleTerminalObserved"}
<1> DEFINE bare == With(pass.view, {"actuated"})
           base == [bare EXCEPT !.phase = pass.jobPhase]
<1>1. {"actuated"} \in SUBSET Mark /\ pass.jobPhase \in Phase /\ pass.view \in CRObject
  BY PassView DEF Mark, PassRecord
<1>2. bare \in CRObject /\ bare.marks = pass.view.marks \cup {"actuated"}
  BY <1>1, WithChange
<1> HIDE DEF bare
<1>3. base \in CRObject /\ base.marks = bare.marks
  BY <1>1, <1>2, PhaseChange
<1>4. PendingStatus(obs) = WithObservation(base, obs)
  BY DEF PendingStatus, bare
<1> HIDE DEF base
<1>5. /\ base.marks \subseteq PendingStatus(obs).marks
      /\ PendingStatus(obs).marks \subseteq base.marks \cup {"castleTerminalObserved"}
  BY <1>3, <1>4, ObservationMarks
<1> QED BY <1>2, <1>3, <1>5

LEMMA FailRunStalledSteps ==
  ASSUME IInv, OrderInv, NEW r \in Run, r = pass.run, FailRunStalled
  PROVE  RunStep(r)
<1> DEFINE p == PendingStatus(CastleView(r))
           update == With(p, {"stallWatchdog"})
<1>1. UNCHANGED <<seen, scene, drift, job>> /\ pass.step = "observe"
  BY DEF FailRunStalled, clusterVars, budgetVars
<1>2. /\ pass.view \in CRObject /\ Exists(pass.view) /\ seen[r].life # "unborn" /\ InPass(r)
      /\ Exists(cr[r]) => Has(cr[r], "finalizer")
      /\ Has(pass.view, "archived") \/ Has(pass.view, "terminalCleanup") => Over(seen[r])
      /\ On("archive") => Kept(r)
  BY <1>1, PassKnows
<1>3. FailRun(r, pass.view, update, CastleView(r), wake)
  BY DEF FailRunStalled
<1>4. /\ p \in CRObject /\ p.life = pass.view.life /\ pass.view.marks \subseteq p.marks
      /\ p.marks \subseteq pass.view.marks \cup {"actuated", "castleTerminalObserved"}
  BY <1>1, PendingStatusChange, PendingStatusMarks
<1>5. /\ update \in CRObject /\ update.life = pass.view.life /\ update.marks = p.marks \cup {"stallWatchdog"}
  <2>1. {"stallWatchdog"} \in SUBSET Mark /\ "" \in Phase
    BY DEF Mark, Phase
  <2> HIDE DEF p
  <2>2. With(p, {"stallWatchdog"}) \in CRObject /\ With(p, {"stallWatchdog"}).life = p.life
        /\ With(p, {"stallWatchdog"}).marks = p.marks \cup {"stallWatchdog"}
    BY <1>4, <2>1, WithChange
  <2> QED BY <1>4, <2>2
<1> HIDE DEF p, update
<1>6. /\ pass.view.marks \subseteq update.marks
      /\ Has(update, "archived") \/ Has(update, "terminalCleanup")
           => Has(pass.view, "archived") \/ Has(pass.view, "terminalCleanup")
  BY <1>4, <1>5 DEF Has
<1> QED BY <1>1, <1>2, <1>3, <1>5, <1>6, FailRunStep DEF Held

LEMMA StatusWriteSteps ==
  ASSUME IInv, OrderInv, NEW r \in Run, r = pass.run, pass.step \in {"observe", "observeTerminal"},
         NEW update \in CRObject, update.life = pass.view.life, pass.view.marks \subseteq update.marks,
         Has(update, "archived") \/ Has(update, "terminalCleanup")
           => Has(pass.view, "archived") \/ Has(pass.view, "terminalCleanup"),
         Has(update, "actuated") => Actuated(r) \/ pass.step = "observe",
         IsTerminalPhase(pass.view.phase) => IsTerminalPhase(update.phase),
         NEW step \in {"archive", "converge"}, NEW goal, NEW obs,
         step = "archive" => IsTerminalPhase(update.phase),
         step = "converge" => pass.step = "observe",
         StatusWrite(update, step, goal, obs), UNCHANGED <<seen, scene, drift, job>>
  PROVE  RunStep(r)
<1>1. pass.step # "idle" /\ pass \in PassRecord
  BY PassView
<1>2. /\ pass.view \in CRObject /\ Exists(pass.view) /\ seen[r].life # "unborn" /\ InPass(r)
      /\ Exists(cr[r]) => Has(cr[r], "finalizer")
      /\ Has(pass.view, "archived") \/ Has(pass.view, "terminalCleanup") => Over(seen[r])
      /\ pass.step = "observe" => ~IsTerminalPhase(pass.view.phase)
      /\ pass.step = "observeTerminal" => IsTerminalPhase(pass.view.phase) /\ Over(cr[r])
      /\ On("archive") /\ pass.step = "observe" => Held(r)
  BY <1>1, PassKnows DEF Closing, Held
<1>3. CASE EndPass(TRUE) /\ UNCHANGED cr
  BY <1>3, QuietReturn, PassTypes DEF EndPass
<1>4. CASE /\ update # pass.view => ~Stale(pass.run, pass.view)
           /\ cr' = IF update = pass.view THEN cr ELSE [cr EXCEPT ![pass.run] = update]
           /\ pass' = [pass EXCEPT !.step = step, !.goal = goal, !.view = update, !.obs = obs]
  <2>1. pass'.step = step /\ pass'.run = r /\ pass'.view = update
    BY <1>1, <1>4 DEF PassRecord
  <2>2. /\ ObjectMoves(r) /\ (\A q \in Run \ {r} : cr'[q] = cr[q])
        /\ cr'[r] = update \/ (cr'[r] = cr[r] /\ update = pass.view)
        /\ cr'[r] = cr[r] \/ cr[r] = pass.view
    <3>1. CASE update = pass.view
      BY <1>4, <3>1, NoWrite
    <3>2. CASE update # pass.view
      <4>1. cr[r] = pass.view /\ cr' = [cr EXCEPT ![r] = update]
        BY <1>4, <3>2 DEF Stale
      <4>2. Exists(update) /\ Has(update, "finalizer")
        BY <1>2, <4>1 DEF Exists, Has
      <4>3. Has(update, "archived") \/ Has(update, "terminalCleanup") => Over(cr[r])
        BY <4>1, Fetched DEF Sound
      <4> QED BY <4>1, <4>2, <4>3, OverWrite
    <3> QED BY <3>1, <3>2
  <2>3. StepFrame(r)
    BY <2>1, <2>2 DEF StepFrame
  <2>4. MarksMove(r)
    <3>1. Has(cr'[r], "actuated") => Actuated(r) \/ pass.step = "observe"
      BY <2>2, Fetched
    <3>2. Deferred(cr[r]) => Deferred(cr'[r])
      BY <2>2 DEF Deferred, Has
    <3> QED BY <1>2, <2>1, <3>1, <3>2 DEF MarksMove
  <2>5. JobChanges(r)
    BY <1>2, <2>2 DEF JobChanges
  <2>6. PassMoves(r)
    BY <2>1 DEF PassMoves
  <2>7. Exists(cr'[r]) => Has(cr'[r], "finalizer")
    BY <1>2, <2>2 DEF Exists, Has
  <2>8. Closing(pass') => Over(cr'[r])
    <3>1. Closing(pass') => IsTerminalPhase(update.phase)
      BY <2>1 DEF Closing
    <3>2. IsTerminalPhase(update.phase) => Over(update)
      BY <1>2 DEF Over, Exists
    <3> QED BY <1>2, <2>2, <3>1, <3>2
  <2>9. Exists(update)
    BY <1>2 DEF Exists
  <2>10. PassHolds(r)
    BY <1>2, <2>1, <2>7, <2>8, <2>9 DEF PassHolds
  <2> QED BY <2>2, <2>3, <2>4, <2>5, <2>6, <2>10 DEF RunStep
<1> QED BY <1>3, <1>4 DEF StatusWrite

LEMMA ObserveAndStampSteps ==
  ASSUME IInv, OrderInv, NEW r \in Run, r = pass.run, ObserveAndStamp
  PROVE  RunStep(r)
<1>1. UNCHANGED <<seen, drift, job>> /\ pass.step = "observe"
  BY DEF ObserveAndStamp, clusterVars
<1>2. PICK obs \in {CastleView(pass.run), "error"} :
        LET known == IF obs = "unknown" THEN "error" ELSE obs
            update == PendingStatus(known)
            reap == IsTerminalPhase(update.phase) /\ ~pass.provisioned
        IN /\ IF obs = CastleView(pass.run) THEN NoFault ELSE On("castle") /\ Fault
           /\ IF update # pass.view /\ Stale(pass.run, pass.view)
              THEN EndPass(TRUE) /\ UNCHANGED cr
              ELSE /\ cr' = IF update = pass.view THEN cr ELSE [cr EXCEPT ![pass.run] = update]
                   /\ pass' = [pass EXCEPT !.step = IF reap THEN "archive" ELSE "converge",
                                           !.goal = IF reap THEN "complete" ELSE "",
                                           !.view = update, !.obs = known]
                   /\ UNCHANGED wake
  BY DEF ObserveAndStamp
<1> DEFINE known == IF obs = "unknown" THEN "error" ELSE obs
           update == PendingStatus(known)
           reap == IsTerminalPhase(update.phase) /\ ~pass.provisioned
           step == IF reap THEN "archive" ELSE "converge"
           goal == IF reap THEN "complete" ELSE ""
<1>3. UNCHANGED scene
  BY <1>2 DEF Fault, NoFault, budgetVars
<1>4. /\ update \in CRObject /\ update.life = pass.view.life
      /\ pass.view.marks \cup {"actuated"} \subseteq update.marks
      /\ update.marks \subseteq pass.view.marks \cup {"actuated", "castleTerminalObserved"}
  BY <1>1, PendingStatusChange, PendingStatusMarks
<1>5. /\ Has(update, "archived") \/ Has(update, "terminalCleanup")
           => Has(pass.view, "archived") \/ Has(pass.view, "terminalCleanup")
  BY <1>4 DEF Has
<1>6. ~IsTerminalPhase(pass.view.phase)
  BY <1>1, PassKnows
<1>7. StatusWrite(update, step, goal, known)
  BY <1>2 DEF StatusWrite
<1>8. step \in {"archive", "converge"} /\ (step = "archive" => IsTerminalPhase(update.phase))
  OBVIOUS
<1> HIDE DEF known, update, step, goal
<1> QED BY <1>1, <1>3, <1>4, <1>5, <1>6, <1>7, <1>8, StatusWriteSteps

LEMMA ObserveTerminalSteps ==
  ASSUME IInv, OrderInv, NEW r \in Run, r = pass.run, ObserveTerminal
  PROVE  RunStep(r)
<1> DEFINE update == WithObservation(pass.view, CastleView(pass.run))
<1>1. UNCHANGED <<seen, drift, job>> /\ pass.step = "observeTerminal"
  BY DEF ObserveTerminal, clusterVars
<1>2. Fault \/ NoFault
  BY DEF ObserveTerminal
<1>3. UNCHANGED scene
  BY <1>2 DEF Fault, NoFault, budgetVars
<1>4. pass.view \in CRObject /\ IsTerminalPhase(pass.view.phase) /\ (Has(pass.view, "actuated") => Actuated(r))
  BY <1>1, PassKnows
<1>5. /\ update \in CRObject /\ update.life = pass.view.life /\ pass.view.marks \subseteq update.marks
      /\ update.marks \subseteq pass.view.marks \cup {"castleTerminalObserved"}
      /\ IsTerminalPhase(update.phase)
  BY <1>4, ObservationChange, ObservationMarks
<1>6. \/ EndPass(TRUE) /\ UNCHANGED cr
      \/ StatusWrite(update, "archive", "terminal", CastleView(pass.run))
  BY DEF ObserveTerminal, StatusWrite
<1> HIDE DEF update
<1>7. /\ Has(update, "archived") \/ Has(update, "terminalCleanup")
           => Has(pass.view, "archived") \/ Has(pass.view, "terminalCleanup")
      /\ Has(update, "actuated") => Actuated(r)
  BY <1>4, <1>5 DEF Has
<1>8. CASE EndPass(TRUE) /\ UNCHANGED cr
  BY <1>1, <1>3, <1>8, QuietReturn, PassTypes DEF EndPass
<1>9. CASE StatusWrite(update, "archive", "terminal", CastleView(pass.run))
  BY <1>1, <1>3, <1>5, <1>7, <1>9, StatusWriteSteps
<1> QED BY <1>6, <1>8, <1>9

\* A stamp on the object as the cache shows it, or none, while the run is over.
LEMMA StampSteps ==
  ASSUME IInv, OrderInv, NEW r \in Run, r = pass.run, pass.step \in {"archive", "reap"},
         NEW o \in CRObject, o.life = seen[r].life, o.phase = seen[r].phase,
         \A m \in {"finalizer", "actuated"} : Has(o, m) <=> Has(seen[r], m),
         cr' = cr \/ (cr' = [cr EXCEPT ![r] = o] /\ cr[r] = seen[r] /\ Exists(seen[r]))
  PROVE  /\ ObjectMoves(r) /\ \A q \in Run \ {r} : cr'[q] = cr[q]
         /\ cr'[r] = cr[r] \/ (cr'[r] = o /\ cr[r] = seen[r])
         /\ Over(cr'[r]) /\ (Exists(cr'[r]) => Has(cr'[r], "finalizer"))
         /\ Has(cr'[r], "actuated") => Actuated(r)
         /\ IsTerminalPhase(cr'[r].phase) => IsTerminalPhase(cr[r].phase)
<1>1. Over(cr[r]) /\ (Exists(cr[r]) => Has(cr[r], "finalizer")) /\ (Has(cr[r], "actuated") => Actuated(r))
  BY PassKnows, Fetched DEF Closing
<1>2. CASE cr' = cr
  BY <1>1, <1>2, NoWrite
<1>3. CASE cr' = [cr EXCEPT ![r] = o] /\ cr[r] = seen[r] /\ Exists(seen[r])
  <2>1. Exists(o) /\ Has(o, "finalizer") /\ Over(o) /\ (Has(o, "actuated") => Actuated(r))
    BY <1>1, <1>3 DEF Exists, Over
  <2>2. ObjectMoves(r) /\ cr'[r] = o /\ \A q \in Run \ {r} : cr'[q] = cr[q]
    BY <1>3, <2>1, OverWrite
  <2> QED BY <1>3, <2>1, <2>2
<1> QED BY <1>2, <1>3

LEMMA ArchiveGateSteps ==
  ASSUME IInv, OrderInv, NEW r \in Run, r = pass.run, ArchiveGate
  PROVE  RunStep(r)
<1>1. UNCHANGED <<seen, drift, job>> /\ pass.step = "archive" /\ pass.step # "idle" /\ pass \in PassRecord
  BY PassView DEF ArchiveGate
<1>2. Fault \/ NoFault
  BY DEF ArchiveGate
<1>3. UNCHANGED scene
  BY <1>2 DEF Fault, NoFault, budgetVars
<1>4. /\ pass.view \in CRObject /\ Exists(pass.view) /\ seen[r].life # "unborn"
      /\ Exists(cr[r]) => Has(cr[r], "finalizer")
      /\ Has(pass.view, "archived") \/ Has(pass.view, "terminalCleanup") => Over(seen[r])
      /\ Over(cr[r]) /\ (Has(pass.view, "actuated") => Actuated(r))
  BY <1>1, PassKnows DEF Closing
<1>5. seen[r] \in CRObject /\ Sound(seen[r])
  BY Fetched
<1>6. "" \in Phase /\ {"archived"} \in SUBSET Mark /\ {"archivePending"} \in SUBSET Mark
  BY DEF Phase, Mark
<1>7. CASE EndPass(TRUE) /\ UNCHANGED cr
  BY <1>1, <1>3, <1>7, QuietReturn, PassTypes DEF EndPass
<1>8. CASE MarkTerminalArchivePending(r) /\ EndPass(TRUE)
  <2> DEFINE pending == With(seen[r], {"archivePending"})
  <2>1. /\ pending \in CRObject /\ pending.life = seen[r].life /\ pending.phase = seen[r].phase
        /\ pending.marks = seen[r].marks \cup {"archivePending"}
    BY <1>5, <1>6, WithChange
  <2>2. cr' = cr \/ (cr' = [cr EXCEPT ![r] = pending] /\ cr[r] = seen[r] /\ Exists(seen[r]))
    BY <1>8 DEF MarkTerminalArchivePending, Stampable, Stamp, Stale
  <2> HIDE DEF pending
  <2>3. \A m \in {"finalizer", "actuated"} : Has(pending, m) <=> Has(seen[r], m)
    BY <2>1 DEF Has
  <2>4. /\ ObjectMoves(r) /\ \A q \in Run \ {r} : cr'[q] = cr[q]
        /\ cr'[r] = cr[r] \/ (cr'[r] = pending /\ cr[r] = seen[r])
        /\ Has(cr'[r], "actuated") => Actuated(r)
        /\ IsTerminalPhase(cr'[r].phase) => IsTerminalPhase(cr[r].phase)
    BY <1>1, <2>1, <2>2, <2>3, StampSteps
  <2>5. Deferred(cr[r]) => Deferred(cr'[r])
    BY <2>1, <2>4 DEF Deferred, Has
  <2>6. pass'.step = "idle"
    BY <1>8, PassTypes DEF EndPass
  <2> QED BY <1>1, <1>3, <2>4, <2>5, <2>6, ReturnStep
<1>9. ASSUME pass' = [pass EXCEPT !.step = "reap"],
             ObjectMoves(r), \A q \in Run \ {r} : cr'[q] = cr[q],
             Over(cr'[r]), Exists(cr'[r]) => Has(cr'[r], "finalizer"),
             Has(cr'[r], "actuated") => Actuated(r),
             IsTerminalPhase(cr'[r].phase) => IsTerminalPhase(cr[r].phase),
             Deferred(cr[r]) => Deferred(cr'[r]),
             On("archive") => Over(seen[r])
      PROVE  RunStep(r)
  <2>1. pass'.step = "reap" /\ pass'.run = r /\ pass'.view = pass.view
    BY <1>1, <1>9 DEF PassRecord
  <2>2. StepFrame(r) /\ JobChanges(r) /\ PassMoves(r)
    BY <1>1, <1>3, <1>9, <2>1 DEF StepFrame, JobChanges, PassMoves
  <2>3. MarksMove(r)
    BY <1>4, <1>9, <2>1 DEF MarksMove
  <2>4. PassHolds(r)
    BY <1>4, <1>9, <2>1 DEF PassHolds
  <2> QED BY <1>9, <2>2, <2>3, <2>4 DEF RunStep
<1>10. CASE ~ArchiveOwed(pass.view) /\ pass' = [pass EXCEPT !.step = "reap"] /\ UNCHANGED cr
  <2>1. On("archive") => Over(seen[r])
    BY <1>4, <1>10 DEF ArchiveOwed
  <2> QED BY <1>4, <1>9, <1>10, <2>1, NoWrite, Fetched
<1>11. CASE MarkTerminalArchived(r) /\ ~(EndPass(TRUE) /\ UNCHANGED cr)
  <2> DEFINE bare == Without(seen[r], {"archivePending"})
             stored == With(bare, {"archived"})
  <2>1. /\ bare \in CRObject /\ bare.life = seen[r].life /\ bare.phase = seen[r].phase
        /\ bare.marks = seen[r].marks \ {"archivePending"}
    <3> HIDE DEF stored
    <3> QED BY <1>5, <1>6, WithoutChange
  <2>2. /\ Stampable(r, stored) /\ Stamp(r, stored) /\ pass' = [pass EXCEPT !.step = "reap"]
    BY <1>11 DEF MarkTerminalArchived
  <2> HIDE DEF bare
  <2>3. /\ stored \in CRObject /\ stored.life = seen[r].life /\ stored.phase = seen[r].phase
        /\ stored.marks = (seen[r].marks \ {"archivePending"}) \cup {"archived"}
    <3>1. /\ stored \in CRObject /\ stored.life = bare.life /\ stored.phase = bare.phase
          /\ stored.marks = bare.marks \cup {"archived"}
      BY <1>6, <2>1, WithChange
    <3> QED BY <2>1, <3>1
  <2> HIDE DEF stored
  <2>4. cr' = cr \/ (cr' = [cr EXCEPT ![r] = stored] /\ cr[r] = seen[r] /\ Exists(seen[r]))
    BY <2>2 DEF Stampable, Stamp, Stale
  <2>5. \A m \in {"finalizer", "actuated"} : Has(stored, m) <=> Has(seen[r], m)
    BY <2>3 DEF Has
  <2>6. /\ ObjectMoves(r) /\ \A q \in Run \ {r} : cr'[q] = cr[q]
        /\ cr'[r] = cr[r] \/ (cr'[r] = stored /\ cr[r] = seen[r])
        /\ Over(cr'[r]) /\ (Exists(cr'[r]) => Has(cr'[r], "finalizer"))
        /\ Has(cr'[r], "actuated") => Actuated(r)
        /\ IsTerminalPhase(cr'[r].phase) => IsTerminalPhase(cr[r].phase)
    BY <1>1, <2>3, <2>4, <2>5, StampSteps
  <2>7. Deferred(cr[r]) => Deferred(cr'[r])
    BY <2>3, <2>6 DEF Deferred, Has
  <2>8. Over(seen[r])
    <3>1. CASE stored = seen[r]
      <4>1. Has(seen[r], "archived")
        BY <2>3, <3>1 DEF Has
      <4> QED BY <1>5, <4>1 DEF Sound
    <3>2. CASE cr[r] = seen[r]
      BY <1>4, <3>2
    <3> QED BY <2>2, <3>1, <3>2 DEF Stampable, Stale
  <2> QED BY <1>9, <2>2, <2>6, <2>7, <2>8
<1> QED BY <1>7, <1>8, <1>10, <1>11 DEF ArchiveGate

\* Taking the Job of a run whose record is stored.
LEMMA DropsJob ==
  ASSUME IInv, NEW r \in Run, DropRunnerJob(r)
  PROVE  job'[r] = "none" /\ \A q \in Run \ {r} : job'[q] = job[q]
BY DropGood DEF IInv

LEMMA ReapFailedSteps ==
  ASSUME IInv, OrderInv, NEW r \in Run, r = pass.run, ReapFailed
  PROVE  RunStep(r)
<1>1. /\ UNCHANGED <<cr, seen, scene, drift>> /\ pass.step = "reap" /\ pass'.step = "idle"
      /\ DropRunnerJob(r)
  BY PassTypes DEF ReapFailed, budgetVars, EndPass
<1>2. On("archive") => Over(seen[r])
  BY <1>1, PassKnows
<1>3. ObjectMoves(r) /\ cr'[r] = cr[r] /\ \A q \in Run \ {r} : cr'[q] = cr[q]
  BY <1>1, NoWrite
<1>4. StepFrame(r)
  BY <1>1, <1>3, DropsJob DEF StepFrame
<1>5. MarksMove(r) /\ JobChanges(r)
  BY <1>1, <1>2, <1>3, DropsJob, Fetched DEF MarksMove, JobChanges
<1>6. PassMoves(r) /\ PassHolds(r)
  BY <1>1 DEF PassMoves, PassHolds
<1> QED BY <1>3, <1>4, <1>5, <1>6 DEF RunStep

LEMMA ReapFinalizedSteps ==
  ASSUME IInv, OrderInv, NEW r \in Run, r = pass.run, ReapFinalized
  PROVE  RunStep(r)
<1>1. UNCHANGED <<cr, seen, scene, drift>> /\ pass.step = "reap" /\ pass \in PassRecord
  BY PassView DEF ReapFinalized, budgetVars
<1>2. CASE ~Exists(seen[r])
  BY <1>1, <1>2, QuietReturn, PassTypes DEF ReapFinalized, EndPass
<1>3. CASE Exists(seen[r])
  <2>1. DropRunnerJob(r) /\ pass' = [pass EXCEPT !.step = "unfinalize", !.view = seen[r]]
    BY <1>3 DEF ReapFinalized
  <2>2. pass'.step = "unfinalize" /\ pass'.run = r /\ pass'.view = seen[r]
    BY <1>1, <2>1 DEF PassRecord
  <2>3. /\ On("archive") => Over(seen[r])
        /\ Over(cr[r]) /\ seen[r].life # "unborn" /\ (Exists(cr[r]) => Has(cr[r], "finalizer"))
    BY <1>1, PassKnows DEF Closing
  <2>4. ObjectMoves(r) /\ cr'[r] = cr[r] /\ \A q \in Run \ {r} : cr'[q] = cr[q]
    BY <1>1, NoWrite
  <2>5. StepFrame(r)
    BY <1>1, <2>1, <2>2, <2>4, DropsJob DEF StepFrame
  <2>6. MarksMove(r) /\ JobChanges(r)
    BY <2>1, <2>2, <2>3, <2>4, DropsJob, Fetched DEF MarksMove, JobChanges
  <2>7. PassMoves(r)
    BY <2>2 DEF PassMoves
  <2>8. PassHolds(r)
    BY <1>3, <2>2, <2>3, <2>4, Fetched DEF PassHolds, Sound
  <2> QED BY <2>4, <2>5, <2>6, <2>7, <2>8 DEF RunStep
<1> QED BY <1>2, <1>3

LEMMA RemoveFinalizerSteps ==
  ASSUME IInv, OrderInv, NEW r \in Run, r = pass.run, RemoveFinalizer
  PROVE  RunStep(r)
<1> DEFINE nothing == [life |-> "gone", phase |-> "", marks |-> {}]
<1>1. UNCHANGED <<seen, scene, drift, job>> /\ pass.step = "unfinalize" /\ pass'.step = "idle"
  BY PassTypes DEF RemoveFinalizer, clusterVars, budgetVars, EndPass
<1>2. CASE UNCHANGED cr
  BY <1>1, <1>2, QuietReturn
<1>3. CASE Write(r, pass.view, nothing)
  <2>1. cr'[r] = nothing /\ cr[r] = pass.view /\ \A q \in Run \ {r} : cr'[q] = cr[q]
    BY <1>3 DEF Write, Stale, IInv, Objects
  <2>2. cr'[r].life = "gone" /\ cr'[r].phase = "" /\ cr'[r].marks = {}
    <3>1. nothing.life = "gone" /\ nothing.phase = "" /\ nothing.marks = {}
      OBVIOUS
    <3>2. cr'[r] = nothing
      BY <2>1
    <3> HIDE DEF nothing
    <3> QED BY <3>1, <3>2
  <2> HIDE DEF nothing
  <2>3. Exists(cr[r])
    BY <1>1, <2>1, PassKnows
  <2>4. Before(cr[r], cr'[r])
    BY <2>2, <2>3 DEF Before, Over, Exists
  <2>5. Sound(cr'[r])
    BY <2>2 DEF Sound, Exists, Has
  <2>6. ObjectMoves(r)
    BY <2>3, <2>4, <2>5 DEF ObjectMoves, Exists
  <2>7. MarksMove(r) /\ JobChanges(r)
    BY <1>1, <2>2 DEF MarksMove, JobChanges, Has, Exists, IsTerminalPhase
  <2>8. StepFrame(r) /\ PassMoves(r) /\ PassHolds(r)
    BY <1>1, <2>1 DEF StepFrame, PassMoves, PassHolds
  <2> QED BY <2>6, <2>7, <2>8 DEF RunStep
<1> QED BY <1>2, <1>3 DEF RemoveFinalizer

LEMMA DeferReapSteps ==
  ASSUME IInv, OrderInv, NEW r \in Run, r = pass.run, DeferReap
  PROVE  RunStep(r)
<1> DEFINE deferred == With(seen[r], {"terminalCleanup"})
<1>1. UNCHANGED <<seen, scene, drift, job>> /\ pass.step = "reap" /\ pass'.step = "idle"
  BY PassTypes DEF DeferReap, Reaping, NoFault, Fault, clusterVars, budgetVars, EndPass
<1>2. cr' = cr \/ (cr' = [cr EXCEPT ![r] = deferred] /\ cr[r] = seen[r] /\ Exists(seen[r]))
  BY DEF DeferReap, Stale
<1>3. /\ deferred \in CRObject /\ deferred.life = seen[r].life /\ deferred.phase = seen[r].phase
      /\ deferred.marks = seen[r].marks \cup {"terminalCleanup"}
  <2>1. {"terminalCleanup"} \in SUBSET Mark /\ "" \in Phase /\ seen[r] \in CRObject
    BY Fetched DEF Mark, Phase
  <2> QED BY <2>1, WithChange
<1> HIDE DEF deferred
<1>4. \A m \in {"finalizer", "actuated"} : Has(deferred, m) <=> Has(seen[r], m)
  BY <1>3 DEF Has
<1>5. /\ ObjectMoves(r) /\ \A q \in Run \ {r} : cr'[q] = cr[q]
      /\ cr'[r] = cr[r] \/ (cr'[r] = deferred /\ cr[r] = seen[r])
      /\ Has(cr'[r], "actuated") => Actuated(r)
      /\ IsTerminalPhase(cr'[r].phase) => IsTerminalPhase(cr[r].phase)
  BY <1>1, <1>2, <1>3, <1>4, StampSteps
<1>6. Deferred(cr[r]) => Deferred(cr'[r])
  BY <1>3, <1>5 DEF Deferred, Has
<1> QED BY <1>1, <1>5, <1>6, ReturnStep

LEMMA ReapJobsSteps ==
  ASSUME IInv, OrderInv, NEW r \in Run, r = pass.run, Reaping, ReapJobs
  PROVE  RunStep(r)
<1> DEFINE cleared == Without(seen[r], {"terminalCleanup"})
<1>1. /\ UNCHANGED <<seen, scene, drift>> /\ pass.step = "reap" /\ pass \in PassRecord /\ DropRunnerJob(r)
      /\ r = pass.run
  BY PassView DEF ReapJobs, Reaping, budgetVars
<1>2. cr' = cr \/ (cr' = [cr EXCEPT ![r] = cleared] /\ cr[r] = seen[r] /\ Exists(seen[r]))
  BY DEF ReapJobs, Stale
<1>3. /\ cleared \in CRObject /\ cleared.life = seen[r].life /\ cleared.phase = seen[r].phase
      /\ cleared.marks = seen[r].marks \ {"terminalCleanup"}
  <2>1. {"terminalCleanup"} \in SUBSET Mark /\ "" \in Phase /\ seen[r] \in CRObject
    BY Fetched DEF Mark, Phase
  <2> QED BY <2>1, WithoutChange
<1>4. pass'.step = "idle" \/ (pass'.step = "converge" /\ pass'.run = r /\ pass'.view = pass.view)
  <2>1. \/ \E q : EndPass(q)
        \/ pass' = [pass EXCEPT !.step = "converge"]
    BY DEF ReapJobs
  <2> QED BY <1>1, <2>1, PassTypes DEF EndPass, PassRecord
<1> HIDE DEF cleared
<1>5. \A m \in {"finalizer", "actuated"} : Has(cleared, m) <=> Has(seen[r], m)
  BY <1>3 DEF Has
<1>6. /\ ObjectMoves(r) /\ \A q \in Run \ {r} : cr'[q] = cr[q]
      /\ cr'[r] = cr[r] \/ (cr'[r] = cleared /\ cr[r] = seen[r])
      /\ Over(cr'[r]) /\ (Exists(cr'[r]) => Has(cr'[r], "finalizer"))
      /\ Has(cr'[r], "actuated") => Actuated(r)
      /\ IsTerminalPhase(cr'[r].phase) => IsTerminalPhase(cr[r].phase)
  BY <1>1, <1>2, <1>3, <1>5, StampSteps
<1>7. /\ pass.view \in CRObject /\ Exists(pass.view) /\ seen[r].life # "unborn"
      /\ Has(pass.view, "archived") \/ Has(pass.view, "terminalCleanup") => Over(seen[r])
      /\ Over(cr[r]) /\ (Has(pass.view, "actuated") => Actuated(r))
      /\ On("archive") => Over(seen[r])
  BY <1>1, PassKnows DEF Closing
<1>8. StepFrame(r)
  BY <1>1, <1>4, <1>6, DropsJob DEF StepFrame
<1>9. MarksMove(r)
  BY <1>1, <1>4, <1>6, <1>7, DropsJob DEF MarksMove
<1>10. JobChanges(r)
  BY <1>1, <1>6, <1>7, DropsJob DEF JobChanges
<1>11. PassMoves(r)
  BY <1>4, <1>7 DEF PassMoves
<1>12. PassHolds(r)
  BY <1>4, <1>6, <1>7 DEF PassHolds
<1> QED BY <1>6, <1>8, <1>9, <1>10, <1>11, <1>12 DEF RunStep

LEMMA FailAdapterImageConflictSteps ==
  ASSUME IInv, OrderInv, NEW r \in Run, r = pass.run, FailAdapterImageConflict
  PROVE  RunStep(r)
<1>1. UNCHANGED <<seen, scene, drift, job>> /\ pass.step = "converge"
  BY DEF FailAdapterImageConflict, clusterVars, budgetVars
<1>2. /\ pass.view \in CRObject /\ Exists(pass.view) /\ seen[r].life # "unborn"
      /\ Exists(cr[r]) => Has(cr[r], "finalizer")
      /\ Has(pass.view, "archived") \/ Has(pass.view, "terminalCleanup") => Over(seen[r])
      /\ (Has(pass.view, "actuated") => Actuated(r)) /\ (On("archive") => Held(r))
  BY <1>1, PassKnows
<1>3. FailRun(r, pass.view, pass.view, pass.obs, wake)
  BY DEF FailAdapterImageConflict
<1> QED BY <1>1, <1>2, <1>3, FailRunStep

LEMMA PassSteps ==
  ASSUME IInv, OrderInv, NEW r \in Run, r = pass.run,
         PassStepTaken \/ StallWindowPasses \/ ForceWindowPasses \/ FailedCall
  PROVE  RunStep(r)
<1>1. CASE RefuseSecondRun
  BY <1>1, QuietReturn, PassTypes DEF RefuseSecondRun, EndPass, clusterVars, budgetVars
<1>2. CASE Converge
  BY <1>2, QuietReturn, PassTypes DEF Converge, EndPass, budgetVars
<1>3. CASE FailedCall
  BY <1>3, QuietReturn, PassTypes DEF FailedCall, EndPass, Fault, clusterVars
<1>4. CASE Refetched \/ Provision \/ ObserveAndStamp \/ ObserveTerminal \/ ArchiveGate
  BY <1>4, RefetchedSteps, ProvisionSteps, ObserveAndStampSteps, ObserveTerminalSteps, ArchiveGateSteps
<1>5. CASE ReapFailed \/ ReapFinalized \/ RemoveFinalizer \/ DeferReap \/ ReapSettled \/ ForceReap
  BY <1>5, ReapFailedSteps, ReapFinalizedSteps, RemoveFinalizerSteps, DeferReapSteps, ReapJobsSteps
     DEF ReapSettled, ForceReap
<1>6. CASE FailAdapterImageConflict \/ FailRunStalled
  BY <1>6, FailAdapterImageConflictSteps, FailRunStalledSteps
<1> QED BY <1>1, <1>2, <1>3, <1>4, <1>5, <1>6 DEF PassStepTaken, StallWindowPasses, ForceWindowPasses

-----------------------------------------------------------------------------
(* The world, the cache and a restart.                                     *)
LEMMA MarkedWasBorn ==
  ASSUME OrderInv, NEW r \in Run, NEW m, Marked(r, m)
  PROVE  cr[r].life # "unborn"
<1>1. ASSUME NEW c, c = cr \/ Later(c, cr), Snapshot(c), Has(c[r], m)
      PROVE  cr[r].life # "unborn"
  <2>1. Sound(c[r]) /\ (c[r] = cr[r] \/ Before(c[r], cr[r]))
    BY <1>1 DEF Later, Snapshot
  <2>2. Exists(c[r])
    BY <1>1, <2>1 DEF Sound, Has
  <2> QED BY <2>1, <2>2 DEF Exists, Before
<1> QED BY <1>1 DEF Marked, OrderInv, Chain, Snapshots

\* Nothing is written into an object but its life, no Job comes and none goes
\* but with its object, a drifted config stays so, and a pass goes nowhere.
WorldMoves ==
  /\ Advance /\ Later(seen, seen')
  /\ \A q \in Run :
       /\ cr'[q].marks \subseteq cr[q].marks /\ cr'[q].phase \in {cr[q].phase, ""}
       /\ Exists(cr'[q]) /\ Deferred(cr[q]) => Deferred(cr'[q])
       /\ job'[q] # "none" => job[q] # "none"
       /\ job[q] # "none" => job'[q] # "none" \/ cr[q].life = "gone"
       /\ ConfigDrifted(q) => ConfigDrifted(q)'
  /\ pass' = pass \/ pass'.step = "idle"

LEMMA WorldKeepsOrder ==
  ASSUME IInv, IInv', OrderInv, CacheIsGood, WorldMoves
  PROVE  OrderInv'
<1>1. /\ Chain' /\ Snapshots' /\ UNCHANGED scene
      /\ \A r \in Run : Before(cr[r], cr'[r]) /\ Before(seen[r], seen'[r])
      /\ \A r \in Run : \A m : Marked(r, m)' => Marked(r, m)
  <2>1. /\ Chain' /\ Snapshots'
        /\ \A r \in Run : \A m : Marked(r, m)' => Marked(r, m) \/ Has(cr'[r], m)
    BY OrderKept DEF OrderInv, WorldMoves
  <2>2. \A r \in Run : \A m : Has(cr'[r], m) => Marked(r, m)
    BY DEF WorldMoves, Marked, Has
  <2> QED BY <2>1, <2>2 DEF WorldMoves, Advance, Later
<1>2. \A r \in Run : (Kept(r) => Kept(r)') /\ (Over(seen[r]) => Over(seen'[r])) /\ (Held(r) => Held(r)')
  BY <1>1 DEF Kept, Held, WorldMoves, Before
<1>3. \A r \in Run : (InPass(r)' => InPass(r) /\ pass' = pass) /\ (Actuated(r)' => Actuated(r)) /\ (Launched(r)' => Launched(r))
  <2> SUFFICES ASSUME NEW r \in Run
               PROVE  (InPass(r)' => InPass(r) /\ pass' = pass) /\ (Actuated(r)' => Actuated(r)) /\ (Launched(r)' => Launched(r))
    OBVIOUS
  <2>1. InPass(r)' => InPass(r) /\ pass' = pass
    BY DEF WorldMoves, InPass
  <2>2. Actuated(r)' => Actuated(r)
    BY <1>1, <2>1 DEF Actuated, Has
  <2>3. Launched(r)' => Launched(r)
    BY <2>1, <2>2 DEF Launched, WorldMoves
  <2> QED BY <2>1, <2>2, <2>3
<1>4. PassOrder'
  <2> SUFFICES ASSUME pass'.step # "idle", pass' = pass PROVE PassOrder'
    BY DEF WorldMoves, PassOrder
  <2> DEFINE r == pass.run
  <2>1. r \in Run /\ pass \in PassRecord /\ Before(cr[r], cr'[r]) /\ Before(seen[r], seen'[r])
    BY <1>1, PassView
  <2>2. PassOrder
    BY DEF OrderInv
  <2>3. Exists(cr'[r]) => Has(cr'[r], "finalizer")
    <3>1. seen[r].life # "unborn" /\ Before(seen[r], cr[r])
      BY <2>1, <2>2, Fetched DEF PassOrder
    <3>2. Exists(cr'[r]) => Exists(cr[r])
      BY <2>1, <3>1 DEF Before, Exists, IInv, Objects, CRObject
    <3> QED BY <2>1, <2>2, <3>2 DEF PassOrder, Before
  <2>4. pass.step = "refetch" => Untouched(r)'
    <3> SUFFICES ASSUME pass.step = "refetch" PROVE Untouched(r)'
      OBVIOUS
    <3>1. Untouched(r)
      BY <2>2 DEF PassOrder
    <3>2. Blank(cr'[r])
      BY <2>1, <3>1 DEF Untouched, Blank, WorldMoves
    <3>3. /\ seen' = seen \/ seen' = cr \/ (1 \in DOMAIN watch /\ seen' = watch[1])
          /\ \A i \in DOMAIN watch' : \/ i \in DOMAIN watch /\ watch'[i] = watch[i]
                                      \/ watch'[i] = cr'
                                      \/ i + 1 \in DOMAIN watch /\ watch'[i] = watch[i + 1]
      BY <1>1, WatchMoves DEF IInv, BudgetType
    <3>4. Blank(seen'[r])
      BY <3>1, <3>3 DEF Untouched
    <3>5. \A i \in DOMAIN watch' : Blank(watch'[i][r])
      BY <3>1, <3>2, <3>3 DEF Untouched
    <3> QED BY <3>2, <3>4, <3>5 DEF Untouched, Blank
  <2>5. /\ Exists(pass.view) /\ seen'[r].life # "unborn"
        /\ Has(pass.view, "archived") \/ Has(pass.view, "terminalCleanup") => Over(seen'[r])
        /\ Closing(pass) => Over(cr'[r])
        /\ pass.step = "reap" /\ On("archive") => Over(seen'[r])
    BY <2>1, <2>2 DEF PassOrder, Before
  <2>6. /\ pass.step \in {"admitted", "observe"} => ~IsTerminalPhase(pass.view.phase) /\ ~SpecRefused(r)
        /\ pass.step = "observeTerminal" => IsTerminalPhase(pass.view.phase)
    BY <2>2 DEF PassOrder
  <2> QED BY <1>1, <2>3, <2>4, <2>5, <2>6 DEF PassOrder, SpecRefused, On, Exists, Has
<1>5. NoSecondStart'
  <2> SUFFICES ASSUME On("archive"), NEW r \in Run
               PROVE  /\ Actuated(r)' => Held(r)'
                      /\ IsTerminalPhase(cr'[r].phase) => Held(r)' \/ SpecRefused(r) \/ ConfigDrifted(r)'
                      /\ InPass(r)' =>
                           /\ pass'.step = "admitted" /\ (IsTerminalPhase(cr'[r].phase) \/ Has(pass'.view, "actuated"))
                                => Kept(r)' \/ ConfigDrifted(r)'
                           /\ pass'.step = "observe" => Kept(r)'
                           /\ pass'.step = "converge" => Held(r)'
    BY <1>1 DEF NoSecondStart, On, SpecRefused, Has
  <2>1. IsTerminalPhase(cr'[r].phase) => IsTerminalPhase(cr[r].phase)
    BY DEF WorldMoves, IsTerminalPhase
  <2>2. ConfigDrifted(r) => ConfigDrifted(r)'
    BY DEF WorldMoves
  <2>3. /\ Actuated(r) => Held(r)
        /\ IsTerminalPhase(cr[r].phase) => Held(r) \/ SpecRefused(r) \/ ConfigDrifted(r)
        /\ InPass(r) =>
             /\ pass.step = "admitted" /\ (IsTerminalPhase(cr[r].phase) \/ Has(pass.view, "actuated"))
                  => Kept(r) \/ ConfigDrifted(r)
             /\ pass.step = "observe" => Kept(r)
             /\ pass.step = "converge" => Held(r)
    BY DEF OrderInv, NoSecondStart
  <2> QED BY <1>2, <1>3, <2>1, <2>2, <2>3
<1>6. CleanupOrder'
  <2> SUFFICES ASSUME NEW r \in Run, Cleared(r)'
               PROVE  job'[r] = "none" /\ Over(seen'[r]) /\ ~(InPass(r)' /\ pass'.step = "admitted")
    BY DEF CleanupOrder
  <2>1. Marked(r, "terminalCleanup") /\ Exists(cr'[r]) /\ ~Deferred(cr'[r])
    BY <1>1 DEF Cleared, Exists, Deferred, Has
  <2>2. Exists(cr[r])
    <3>1. cr[r].life # "unborn" /\ cr[r] \in CRObject
      BY <2>1, MarkedWasBorn, Fetched
    <3> QED BY <1>1, <2>1, <3>1 DEF Before, Exists, CRObject
  <2>3. Cleared(r)
    BY <2>1, <2>2 DEF Cleared, WorldMoves
  <2>4. job[r] = "none" /\ Over(seen[r]) /\ ~(InPass(r) /\ pass.step = "admitted")
    BY <2>3 DEF OrderInv, CleanupOrder
  <2> QED BY <1>2, <1>3, <2>4 DEF WorldMoves
<1>7. TicketOrder'
  <2>1. TicketOrder /\ scene.runs \subseteq Run
    BY DEF OrderInv, IInv, BudgetType, Scene
  <2> QED BY <1>1, <1>2, <1>3, <2>1 DEF TicketOrder
<1> QED BY <1>1, <1>4, <1>5, <1>6, <1>7 DEF OrderInv

\* The steps that leave the objects alone.
LEMMA NothingWritten ==
  ASSUME IInv, OrderInv, UNCHANGED <<cr, scene>>
  PROVE  Advance /\ \A q \in Run : /\ cr'[q].marks \subseteq cr[q].marks /\ cr'[q].phase \in {cr[q].phase, ""}
                                   /\ Exists(cr'[q]) /\ Deferred(cr[q]) => Deferred(cr'[q])
<1>1. Snapshot(cr)'
  BY SnapshotKept DEF OrderInv, Snapshots
<1> QED BY <1>1, LaterIsAnOrder DEF Advance

LEMMA UsersMove ==
  ASSUME IInv, OrderInv, NEW r \in Run, CreateRun(r) \/ DeleteRun(r) \/ ForceDelete(r)
  PROVE  WorldMoves
<1>1. UNCHANGED <<seen, pass, job, drift, scene>>
  BY DEF CreateRun, DeleteRun, ForceDelete, operatorVars, clusterVars, budgetVars
<1>2. cr \in [Run -> CRObject] /\ scene.runs \subseteq Run /\ Sound(cr[r]) /\ BornInOrder(cr)
      /\ \A q \in Run : Sound(cr[q])
  BY Fetched DEF IInv, Objects, BudgetType, Scene, OrderInv, Snapshots, Snapshot
<1>3. /\ \A q \in Run \ {r} : cr'[q] = cr[q]
      /\ \/ /\ CreateRun(r) /\ cr[r].life = "unborn" /\ cr'[r].life = "live"
            /\ cr'[r].phase = cr[r].phase /\ cr'[r].marks = cr[r].marks
         \/ /\ Has(cr[r], "finalizer") /\ cr[r].life = "live" /\ cr'[r].life = "deleting"
            /\ cr'[r].phase = cr[r].phase /\ cr'[r].marks = cr[r].marks
         \/ Exists(cr[r]) /\ cr'[r].life = "gone" /\ cr'[r].phase = "" /\ cr'[r].marks = {}
  <2>1. CASE CreateRun(r)
    <3>1. cr' = [cr EXCEPT ![r] = [cr[r] EXCEPT !.life = "live"]] /\ cr[r].life = "unborn"
      BY <1>2, <2>1 DEF CreateRun
    <3>2. cr'[r] = [cr[r] EXCEPT !.life = "live"] /\ \A q \in Run \ {r} : cr'[q] = cr[q]
      BY <1>2, <3>1
    <3> QED BY <1>2, <2>1, <3>1, <3>2 DEF CRObject
  <2>2. CASE DeleteRun(r) /\ Has(cr[r], "finalizer")
    <3>1. cr' = [cr EXCEPT ![r] = [cr[r] EXCEPT !.life = "deleting"]] /\ cr[r].life = "live"
      BY <1>2, <2>2 DEF DeleteRun
    <3>2. cr'[r] = [cr[r] EXCEPT !.life = "deleting"] /\ \A q \in Run \ {r} : cr'[q] = cr[q]
      BY <1>2, <3>1
    <3> QED BY <1>2, <2>2, <3>1, <3>2 DEF CRObject
  <2>3. CASE (DeleteRun(r) /\ ~Has(cr[r], "finalizer")) \/ ForceDelete(r)
    <3> DEFINE nothing == [life |-> "gone", phase |-> "", marks |-> {}]
    <3>1. cr' = [cr EXCEPT ![r] = nothing] /\ Exists(cr[r])
      BY <2>3 DEF DeleteRun, ForceDelete, Exists
    <3>2. nothing.life = "gone" /\ nothing.phase = "" /\ nothing.marks = {}
      OBVIOUS
    <3> HIDE DEF nothing
    <3>3. cr'[r] = nothing /\ \A q \in Run \ {r} : cr'[q] = cr[q]
      BY <1>2, <3>1
    <3> QED BY <3>1, <3>2, <3>3
  <2> QED BY <2>1, <2>2, <2>3
<1>4. Before(cr[r], cr'[r])
  BY <1>3 DEF Before, Over, Exists, Has
<1>5. Sound(cr'[r])
  BY <1>2, <1>3 DEF Sound, Over, Exists, Has
<1>6. Later(cr, cr')
  BY <1>3, <1>4, BeforeIsAnOrder DEF Later
<1>7. BornInOrder(cr)'
  <2> SUFFICES ASSUME NEW q \in Run, cr'[q].life # "unborn"
               PROVE  q \in scene.runs /\ \A o \in scene.runs : CreatedAt[o] < CreatedAt[q] => cr'[o].life # "unborn"
    BY <1>1 DEF BornInOrder
  <2>1. q \in scene.runs /\ \A o \in scene.runs : CreatedAt[o] < CreatedAt[q] => cr[o].life # "unborn"
    <3>1. CASE q = r /\ CreateRun(r) /\ cr[r].life = "unborn"
      BY <3>1 DEF CreateRun
    <3>2. CASE cr[q].life # "unborn"
      BY <1>2, <3>2 DEF BornInOrder
    <3> QED BY <1>3, <3>1, <3>2 DEF Exists
  <2>2. \A o \in Run : cr[o].life # "unborn" => cr'[o].life # "unborn"
    BY <1>3
  <2> QED BY <1>2, <2>1, <2>2
<1>8. Advance
  BY <1>1, <1>2, <1>3, <1>5, <1>6, <1>7 DEF Advance, Snapshot
<1>9. \A q \in Run : /\ cr'[q].marks \subseteq cr[q].marks /\ cr'[q].phase \in {cr[q].phase, ""}
                     /\ Exists(cr'[q]) /\ Deferred(cr[q]) => Deferred(cr'[q])
  BY <1>3 DEF Exists, Deferred, Has
<1> QED BY <1>1, <1>8, <1>9, LaterIsAnOrder DEF WorldMoves, ConfigDrifted

LEMMA ClusterMoves ==
  ASSUME IInv, OrderInv, NEW r \in Run,
         \/ CollectOrphan(r) \/ RunPod(r) \/ PodSync(r) \/ EndPod(r) \/ CrashPod(r)
         \/ RegisterRun(r) \/ EndRun(r) \/ PauseOrStop(r) \/ Resume(r) \/ PinMoves(r)
  PROVE  WorldMoves
<1>1. UNCHANGED <<cr, seen, pass, scene>>
  BY DEF CollectOrphan, RunPod, PodSync, EndPod, CrashPod, RegisterRun, EndRun, PauseOrStop, Resume,
         PinMoves, CastleMoves, operatorVars, budgetVars
<1>2. ClusterType
  BY DEF IInv
<1>3. CASE CollectOrphan(r)
  <2>1. DropRunnerJob(r) /\ UNCHANGED drift /\ cr'[r].life = "gone"
    BY <1>1, <1>3 DEF CollectOrphan
  <2> QED BY <1>1, <2>1, DropsJob, NothingWritten, LaterIsAnOrder DEF WorldMoves, ConfigDrifted
<1>4. CASE RunPod(r) \/ PodSync(r) \/ EndPod(r) \/ CrashPod(r)
  <2>1. UNCHANGED drift /\ (UNCHANGED job \/ \E from, to \in JobStatus \ {"none"} : JobMoves(r, from, to))
    BY <1>4 DEF RunPod, PodSync, EndPod, CrashPod, StartJob, SchedulePod, StartContainer, CompleteJob, TearDownPod,
                ExitContainer, ExceedBackoff, CrashContainer, JobStatus
  <2>2. \A q \in Run : job'[q] = "none" <=> job[q] = "none"
    BY <1>2, <2>1 DEF ClusterType, JobMoves
  <2> QED BY <1>1, <2>1, <2>2, NothingWritten, LaterIsAnOrder DEF WorldMoves, ConfigDrifted
<1>5. CASE RegisterRun(r) \/ EndRun(r) \/ PauseOrStop(r) \/ Resume(r) \/ PinMoves(r)
  <2>1. UNCHANGED job /\ (UNCHANGED drift \/ (drift[r] = "none" /\ \E pin : drift' = [drift EXCEPT ![r] = pin]))
    BY <1>5 DEF RegisterRun, EndRun, PauseOrStop, Resume, PinMoves, CastleMoves
  <2>2. \A q \in Run : ConfigDrifted(q) => ConfigDrifted(q)'
    BY <1>2, <2>1 DEF ClusterType, ConfigDrifted
  <2> QED BY <1>1, <2>1, <2>2, NothingWritten, LaterIsAnOrder DEF WorldMoves
<1> QED BY <1>3, <1>4, <1>5

LEMMA CacheMoves ==
  ASSUME IInv, OrderInv, CacheSync \/ RestartOperator
  PROVE  WorldMoves
<1>1. UNCHANGED <<cr, scene, job, drift>> /\ (pass' = pass \/ pass'.step = "idle")
  BY PassTypes DEF CacheSync, RestartOperator, operatorVars, clusterVars, budgetVars
<1>2. Later(seen, seen')
  <2>1. CASE RestartOperator
    BY <2>1 DEF RestartOperator, OrderInv, Chain
  <2>2. CASE CacheSync
    <3>1. 1 \in DOMAIN watch /\ seen' = watch[1]
      BY <2>2 DEF CacheSync, IInv, Objects
    <3> QED BY <3>1 DEF OrderInv, Chain
  <2> QED BY <2>1, <2>2
<1> QED BY <1>1, <1>2, NothingWritten DEF WorldMoves, ConfigDrifted

-----------------------------------------------------------------------------
LEMMA OrderInit == Init => OrderInv
<1> SUFFICES ASSUME Init PROVE OrderInv
  OBVIOUS
<1>1. /\ \A r \in Run : cr[r] = Unborn /\ job[r] = "none"
      /\ seen = cr /\ watch = <<>> /\ pass.step = "idle" /\ DOMAIN watch = {}
  BY PassTypes DEF Init
<1>2. \A r \in Run : cr[r].life = "unborn" /\ cr[r].phase = "" /\ cr[r].marks = {}
  <2>1. Unborn.life = "unborn" /\ Unborn.phase = "" /\ Unborn.marks = {}
    BY DEF Unborn
  <2> QED BY <1>1, <2>1
<1>3. Chain
  BY <1>1, LaterIsAnOrder DEF Chain
<1>4. Snapshots
  <2>1. Snapshot(cr)
    BY <1>2 DEF Snapshot, BornInOrder, Sound, Has, Exists
  <2> QED BY <1>1, <2>1 DEF Snapshots
<1>5. \A r \in Run : \A m : ~Marked(r, m) /\ ~Actuated(r) /\ ~InPass(r) /\ ~IsTerminalPhase(cr[r].phase)
  BY <1>2, <1>1 DEF Marked, Actuated, InPass, Has, IsTerminalPhase
<1>6. PassOrder
  BY <1>1 DEF PassOrder
<1>7. NoSecondStart
  BY <1>5 DEF NoSecondStart
<1>8. CleanupOrder
  BY <1>5 DEF CleanupOrder, Cleared
<1>9. TicketOrder
  BY <1>1, <1>5 DEF TicketOrder, Launched
<1> QED BY <1>3, <1>4, <1>6, <1>7, <1>8, <1>9 DEF OrderInv

\* Every step is one of the controller about a run, or one of its world.
LEMMA NextMoves ==
  ASSUME IInv, OrderInv, Next
  PROVE  WorldMoves \/ \E r \in Run : RunStep(r)
<1>1. ASSUME NEW r \in Run, Begin(r) PROVE RunStep(r)
  BY <1>1, ReconcileSteps DEF Begin
<1>2. ASSUME NEW r \in Run, ClusterStep(r) \/ World(r) PROVE WorldMoves
  BY <1>2, UsersMove, ClusterMoves DEF ClusterStep, World
<1>3. CASE PassStepTaken \/ StallWindowPasses \/ ForceWindowPasses \/ FailedCall
  <2>1. pass.step # "idle"
    BY <1>3 DEF PassStepTaken, StallWindowPasses, ForceWindowPasses, FailedCall, Refetched, RefuseSecondRun,
                Provision, ObserveAndStamp, ObserveTerminal, ArchiveGate, ReapFailed, ReapFinalized,
                RemoveFinalizer, DeferReap, ReapSettled, ForceReap, Reaping, Converge,
                FailAdapterImageConflict, FailRunStalled
  <2>2. pass.run \in Run
    BY <2>1, PassView
  <2> QED BY <1>3, <2>2, PassSteps
<1>4. CASE CacheSync \/ RestartOperator
  BY <1>4, CacheMoves
<1> QED BY <1>1, <1>2, <1>3, <1>4 DEF Next

LEMMA OrderStep == IInv /\ OrderInv /\ [Next]_vars => OrderInv'
<1>1. IInv /\ OrderInv /\ Next => OrderInv'
  BY IInvStep, EveryStepIsGood, NextMoves, RunStepKeepsOrder, WorldKeepsOrder
<1>2. ASSUME IInv, OrderInv, UNCHANGED vars PROVE OrderInv'
  <2>1. UNCHANGED <<cr, seen, watch, job, drift, pass, scene>>
    BY <1>2 DEF vars, clusterVars, budgetVars
  <2>2. IInv'
    BY <1>2, IInvStep
  <2>3. CacheIsGood
    BY <2>1 DEF CacheIsGood, Watched
  <2>4. WorldMoves
    BY <1>2, <2>1, NothingWritten, LaterIsAnOrder DEF WorldMoves, ConfigDrifted
  <2> QED BY <1>2, <2>2, <2>3, <2>4, WorldKeepsOrder
<1> QED BY <1>1, <1>2

-----------------------------------------------------------------------------
(* Without an informer that is up to date: no Job is created for a finished *)
(* run, for every number of runs, lag, faults and restarts.                *)
THEOREM NoJobForFinishedRun == Spec => FinishedRunIsNotRerun
<1>1. ASSUME IInv, OrderInv, Next, On("archive"), NEW r \in Run, job[r] = "none", job'[r] # "none"
      PROVE  cr[r].phase \notin {"Succeeded", "Failed"}
  <2>1. ~WorldMoves
    BY <1>1 DEF WorldMoves
  <2>2. PICK q \in Run : RunStep(q)
    BY <1>1, <2>1, NextMoves
  <2>3. q = r
    BY <1>1, <2>2 DEF RunStep, StepFrame
  <2>4. pass.step = "admitted" /\ ~ConfigDrifted(r) /\ InPass(r)
    BY <1>1, <2>2, <2>3 DEF RunStep, StepFrame, JobChanges, InPass
  <2>5. IsTerminalPhase(cr[r].phase) => cr[r].life = "gone"
    BY <1>1, <2>4 DEF OrderInv, NoSecondStart, Kept
  <2>6. cr[r].life = "gone" => cr[r].phase = ""
    BY <1>1, Fetched DEF Sound, Exists
  <2> QED BY <2>5, <2>6 DEF IsTerminalPhase
<1>2. IInv /\ OrderInv /\ [Next]_vars =>
        [On("archive") =>
           \A r \in Run :
             job[r] = "none" /\ job'[r] # "none" => cr[r].phase \notin {"Succeeded", "Failed"}]_vars
  BY <1>1
<1> QED BY <1>2, IInvInit, IInvStep, OrderInit, OrderStep, PTL DEF Spec, FinishedRunIsNotRerun

(* KB-302: however far the cached CriteriaRun is behind, the Job goes from  *)
(* under a pod shown to be able to start again only when the deferral is on *)
(* record.                                                                 *)
THEOREM DeferralComesFirst == Spec => RestartGuardHolds
<1>1. ASSUME IInv, OrderInv, Next, NEW r \in Run,
             Reaped(r), Reaping, CachedPod(r) \notin {"none", "pending", "done", "terminating"}, Exists(cr[r])
      PROVE  Has(cr[r], "terminalCleanup")
  <2>1. pass.step = "reap" /\ pass.goal \in {"terminal", "complete"}
    BY <1>1 DEF Reaping
  <2>2. ~WorldMoves
    BY <1>1 DEF WorldMoves, Reaped, Exists
  <2>3. \/ \E q \in Run : Begin(q)
        \/ PassStepTaken \/ StallWindowPasses \/ ForceWindowPasses \/ FailedCall
    BY <1>1, <2>2, UsersMove, ClusterMoves, CacheMoves DEF Next, ClusterStep, World
  <2>4. DeferReap \/ ReapSettled \/ ForceReap \/ FailedCall
    BY <2>1, <2>3 DEF Begin, Reconcile, PassStepTaken, StallWindowPasses, ForceWindowPasses, Refetched,
         RefuseSecondRun, Provision, ObserveAndStamp, ObserveTerminal, ArchiveGate, ReapFailed,
         ReapFinalized, RemoveFinalizer, Converge, FailAdapterImageConflict, FailRunStalled
  <2>5. ReapSettled \/ ForceReap
    BY <1>1, <2>4 DEF DeferReap, FailedCall, clusterVars, Reaped
  <2>6. DropRunnerJob(pass.run) /\ pass.run \in Run
    BY <2>1, <2>5, PassView, <1>1 DEF ReapSettled, ForceReap, ReapJobs
  <2>7. r = pass.run
    BY <1>1, <2>6, DropsJob DEF Reaped
  <2>8. CachedPod(r) \in PodStatus
    BY <1>1 DEF IInv, ClusterType, CachedPod
  <2>9. RunnerRestartPending(r)
    BY <1>1, <2>8 DEF RunnerRestartPending, PodStatus
  <2>10. Has(seen[r], "terminalCleanup")
    BY <2>5, <2>7, <2>9 DEF ReapSettled, ForceReap
  <2>11. ~Cleared(r)
    BY <1>1 DEF Reaped, OrderInv, CleanupOrder
  <2> QED BY <1>1, <2>10, <2>11 DEF Cleared, Deferred, Marked
<1>2. IInv /\ OrderInv /\ [Next]_vars =>
        [\A r \in Run :
           Reaped(r) /\ Reaping /\ CachedPod(r) \notin {"none", "pending", "done", "terminating"}
             => Has(cr[r], "terminalCleanup") \/ ~Exists(cr[r])]_vars
  BY <1>1
<1> QED BY <1>2, IInvInit, IInvStep, OrderInit, OrderStep, PTL DEF Spec, RestartGuardHolds

-----------------------------------------------------------------------------
(* CRI-221 for every lag, number of faults and restarts, without a condition *)
(* on the clock: two runs of one ticket that are active together were       *)
(* created in the same second.                                              *)
ActiveTogether(r, q) == Active(r) /\ Active(q) /\ TicketOf[r] = TicketOf[q]
OnlyTiesMeet == \A r, q \in Run : ActiveTogether(r, q) => CreatedAt[r] = CreatedAt[q]

THEOREM TicketOrderHolds == Spec => []OnlyTiesMeet
<1>1. ASSUME IInv, OrderInv, NEW r \in Run, NEW q \in Run, ActiveTogether(r, q),
             CreatedAt[q] < CreatedAt[r]
      PROVE  FALSE
  <2>1. cr[q].life = "live" /\ ~IsTerminalPhase(cr[q].phase) /\ Launched(r)
    BY <1>1 DEF ActiveTogether, Active, Launched
  <2>2. q \in scene.runs
    BY <1>1, <2>1 DEF OrderInv, Snapshots, Snapshot, BornInOrder
  <2>3. Over(seen[q])
    BY <1>1, <2>1, <2>2 DEF OrderInv, TicketOrder, ActiveTogether
  <2> QED BY <1>1, <2>1, <2>3, Fetched DEF Before, Over
<1>2. IInv /\ OrderInv => OnlyTiesMeet
  <2>1. \A r, q \in Run : CreatedAt[r] = CreatedAt[q] \/ CreatedAt[r] < CreatedAt[q] \/ CreatedAt[q] < CreatedAt[r]
    BY ReconcilerAssumption DEF ReconcilerAssumption
  <2>2. \A r, q \in Run : ActiveTogether(r, q) => ActiveTogether(q, r)
    BY DEF ActiveTogether
  <2> QED BY <1>1, <2>1, <2>2 DEF OnlyTiesMeet
<1> QED BY <1>2, IInvInit, IInvStep, OrderInit, OrderStep, PTL DEF Spec

\* The timestamps of a ticket's runs differ. The API server's have the
\* resolution of a second: in a tie RunOlder compares the names, a run created
\* after an active one can be the older of the two, and both are started.
DistinctTimes ==
  \A r, q \in Run : TicketOf[r] = TicketOf[q] /\ CreatedAt[r] = CreatedAt[q] => r = q

(* The lock as the run checks it: no two runs of a ticket are ever active   *)
(* together, as long as no two of them were created in the same second.     *)
THEOREM TicketLock ==
  ASSUME DistinctTimes
  PROVE  Spec => []OneActivePerTicket
<1>1. OnlyTiesMeet => OneActivePerTicket
  BY DEF OnlyTiesMeet, ActiveTogether, OneActivePerTicket, DistinctTimes
<1> QED BY <1>1, TicketOrderHolds, PTL

-----------------------------------------------------------------------------
(* The slot: as long as the process is the one that admitted it, a run with *)
(* a Job that is not over holds the slot of its key.                       *)
Holds(r) == job[r] # "none" /\ cr[r].life = "live" /\ ~IsTerminalPhase(cr[r].phase)
JobsAreBorn == \A r \in Run : job[r] # "none" => cr[r].life # "unborn"
SlotIsHeld ==
  restarts = 0 =>
    /\ \A r \in Run : Holds(r) => running[KeyOf[r]] = r
    /\ pass.step = "admitted" => running[KeyOf[pass.run]] = pass.run

\* What a step of the controller about r does to the slots.
SlotMoves(r) ==
  /\ \A q \in Run \ {r} : running[KeyOf[q]] = q => running'[KeyOf[q]] = q
  /\ running[KeyOf[r]] = r => running'[KeyOf[r]] = r \/ ~Holds(r)'
  /\ pass'.step = "admitted" => running'[KeyOf[r]] = r
  /\ UNCHANGED restarts

LEMMA ReleaseSlot ==
  ASSUME QueueInv, NEW r \in Run, Release(r), NEW q \in Run \ {r}, running[KeyOf[q]] = q
  PROVE  running'[KeyOf[q]] = q
<1>1. q # NoRun /\ q # r /\ KeyOf[q] \in QueueKey
  BY RunQueueAssumption DEF RunQueueAssumption
<1>2. CASE UNCHANGED queueVars
  BY <1>2 DEF queueVars
<1>3. CASE \E entries : running' = [running EXCEPT ![KeyOf[r]] =
                                      AdmitHead(entries, IF @ = r THEN NoRun ELSE @)]
  BY <1>1, <1>3 DEF AdmitHead, QueueInv
<1> QED BY <1>2, <1>3 DEF Release

LEMMA EnqueueSlot ==
  ASSUME QueueInv, NEW r \in Run, Enqueue(r), NEW q \in Run, running[KeyOf[q]] = q
  PROVE  running'[KeyOf[q]] = q
<1>1. q # NoRun /\ KeyOf[q] \in QueueKey
  BY RunQueueAssumption DEF RunQueueAssumption
<1>2. \E entries : running' = [running EXCEPT ![KeyOf[r]] = AdmitHead(entries, @)]
  BY DEF Enqueue
<1> QED BY <1>1, <1>2 DEF AdmitHead, QueueInv

LEMMA QuietSlot ==
  ASSUME NEW r \in Run, UNCHANGED <<queueVars, restarts>>, pass'.step # "admitted"
  PROVE  SlotMoves(r)
BY DEF SlotMoves, queueVars

\* A release of a run that is over, or is not active after the step.
LEMMA ReleasedSlot ==
  ASSUME QueueInv, NEW r \in Run, Release(r), UNCHANGED restarts, pass'.step # "admitted", ~Holds(r)'
  PROVE  SlotMoves(r)
BY ReleaseSlot DEF SlotMoves

LEMMA OverIsNotHeld ==
  ASSUME IInv, OrderInv, NEW r \in Run, Over(cr[r]), UNCHANGED cr
  PROVE  ~Holds(r)'
BY DEF Over, Holds

LEMMA FailRunSlot ==
  ASSUME IInv, NEW r \in Run, NEW base, NEW update \in CRObject, NEW obs, NEW woken,
         FailRun(r, base, update, obs, woken), UNCHANGED restarts
  PROVE  SlotMoves(r)
<1> DEFINE failed == [update EXCEPT !.phase = "Failed"]
<1>1. failed \in CRObject /\ failed.phase = "Failed"
  BY PhaseChange DEF Phase
<1>2. CASE Stale(r, base) /\ pass' = IdlePass /\ UNCHANGED queueVars
  BY <1>2, QuietSlot, PassTypes
<1>3. CASE /\ Write(r, base, failed) /\ Release(r)
           /\ pass' = [PassAt("archive", r, failed) EXCEPT !.goal = "fail", !.obs = obs]
  <2> HIDE DEF failed
  <2>1. cr'[r] = failed
    BY <1>3 DEF Write, IInv, Objects
  <2>2. ~Holds(r)'
    BY <1>1, <2>1 DEF Holds, IsTerminalPhase
  <2>3. pass'.step = "archive"
    <3>1. PassAt("archive", r, failed) \in PassRecord /\ PassAt("archive", r, failed).step = "archive"
      BY <1>1, PassTypes DEF PassStep
    <3> QED BY <1>3, <3>1 DEF PassRecord
  <2> QED BY <1>3, <2>2, <2>3, ReleasedSlot DEF IInv
<1> QED BY <1>2, <1>3 DEF FailRun

LEMMA DispatchSlot ==
  ASSUME IInv, OrderInv, NEW r \in Run, NEW woken, Exists(seen[r]),
         Dispatch(r, seen[r], woken), UNCHANGED restarts
  PROVE  SlotMoves(r)
<1>1. seen[r] \in CRObject /\ Before(seen[r], cr[r]) /\ QueueInv
  BY Fetched DEF IInv
<1>2. CASE IsTerminalPhase(seen[r].phase) /\ Release(r) /\ pass' = PassAt("observeTerminal", r, seen[r]) /\ UNCHANGED cr
  <2>1. pass'.step = "observeTerminal"
    BY <1>1, <1>2, PassTypes DEF PassStep
  <2>2. Over(cr[r])
    BY <1>1, <1>2 DEF Over, Exists, Before
  <2> QED BY <1>1, <1>2, <2>1, <2>2, OverIsNotHeld, ReleasedSlot
<1>3. CASE FailRun(r, seen[r], seen[r], "off", woken)
  BY <1>1, <1>3, FailRunSlot
<1>4. CASE Enqueue(r) /\ (pass' = IdlePass \/ running'[KeyOf[r]] = r)
  BY <1>1, <1>4, EnqueueSlot, PassTypes DEF SlotMoves
<1> QED BY <1>2, <1>3, <1>4 DEF Dispatch, RefuseSpec

LEMMA ReconcileSlot ==
  ASSUME IInv, OrderInv, NEW r \in Run, Reconcile(r)
  PROVE  SlotMoves(r)
<1>1. UNCHANGED restarts /\ pass.step = "idle" /\ seen[r] \in CRObject /\ Before(seen[r], cr[r]) /\ QueueInv
  BY Fetched DEF Reconcile, budgetVars, IInv
<1>2. CASE NotFound(r)
  BY <1>1, <1>2, QuietSlot DEF NotFound
<1>3. CASE StartFinalize(r)
  <2>1. pass'.step = "archive" /\ UNCHANGED cr /\ Release(r)
    <3>1. PassAt("archive", r, seen[r]) \in PassRecord /\ PassAt("archive", r, seen[r]).step = "archive"
      BY <1>1, PassTypes DEF PassStep
    <3> QED BY <1>3, <3>1 DEF StartFinalize, PassRecord
  <2>2. Over(cr[r])
    BY <1>1, <1>3 DEF StartFinalize, Over, Before
  <2> QED BY <1>1, <2>1, <2>2, OverIsNotHeld, ReleasedSlot
<1>4. CASE AddFinalizer(r)
  <2>1. pass'.step # "admitted" /\ UNCHANGED queueVars
    BY <1>1, <1>4, PassTypes DEF AddFinalizer, PassStep
  <2> QED BY <1>1, <2>1, QuietSlot
<1>5. CASE seen[r].life = "live" /\ Dispatch(r, seen[r], wake \ {r})
  BY <1>1, <1>5, DispatchSlot DEF Exists
<1> QED BY <1>2, <1>3, <1>4, <1>5 DEF Reconcile

\* The ticket rule never refuses, and so never takes the slot of, a run that
\* is active: every older run of the ticket was seen over, and a younger one
\* was actuated only after this one was.
LEMMA RefusedIsNotHeld ==
  ASSUME DistinctTimes, IInv, OrderInv, NEW r \in Run, r = pass.run, RefuseSecondRun
  PROVE  ~Holds(r)
<1> SUFFICES ASSUME Holds(r) PROVE FALSE
  OBVIOUS
<1>1. pass.step = "admitted" /\ SingleActiveBlockers(r) # {}
  BY DEF RefuseSecondRun
<1>2. PICK o \in Run \ {r} :
        /\ TicketOf[o] = TicketOf[r] /\ seen[o].life = "live" /\ ~IsTerminalPhase(seen[o].phase)
        /\ Has(seen[o], "actuated") \/ RunOlder(o, r)
  BY <1>1 DEF SingleActiveBlockers
<1>3. CreatedAt[o] \in Nat /\ CreatedAt[r] \in Nat /\ CreatedAt[o] # CreatedAt[r]
  BY <1>2, ReconcilerAssumption DEF ReconcilerAssumption, DistinctTimes
<1>4. ~Over(seen[o]) /\ o \in scene.runs
  BY <1>2 DEF Over, OrderInv, Snapshots, Snapshot, BornInOrder
<1>5. ~(CreatedAt[o] < CreatedAt[r])
  BY <1>2, <1>4 DEF Holds, Launched, OrderInv, TicketOrder
<1>6. Has(seen[o], "actuated")
  BY <1>2, <1>3, <1>5 DEF RunOlder
<1>7. Launched(o)
  BY <1>6, Fetched DEF Launched
<1>8. r \in scene.runs
  BY DEF Holds, OrderInv, Snapshots, Snapshot, BornInOrder
<1>9. Over(seen[r])
  BY <1>2, <1>3, <1>5, <1>7, <1>8 DEF OrderInv, TicketOrder
<1> QED BY <1>9, Fetched DEF Before, Over, Holds

LEMMA PassSlot ==
  ASSUME DistinctTimes, IInv, OrderInv, NEW r \in Run, r = pass.run,
         PassStepTaken \/ StallWindowPasses \/ ForceWindowPasses \/ FailedCall
  PROVE  SlotMoves(r)
<1>1. pass.step # "idle" => pass.view \in CRObject /\ pass \in PassRecord
  BY PassView
<1>2. CASE Refetched
  <2>1. UNCHANGED restarts
    BY <1>2 DEF Refetched, budgetVars
  <2>2. CASE Exists(seen[r])
    BY <1>2, <2>1, <2>2, DispatchSlot DEF Refetched
  <2>3. CASE ~Exists(seen[r])
    BY <1>2, <2>1, <2>3, QuietSlot, PassTypes DEF Refetched, EndPass
  <2> QED BY <2>2, <2>3
<1>3. CASE RefuseSecondRun
  <2>1. UNCHANGED <<restarts, cr, job>> /\ pass'.step = "idle" /\ Release(r) /\ QueueInv
    BY <1>3, PassTypes DEF RefuseSecondRun, EndPass, budgetVars, clusterVars, IInv
  <2>2. ~Holds(r)'
    BY <1>3, <2>1, RefusedIsNotHeld DEF Holds
  <2> QED BY <2>1, <2>2, ReleasedSlot
<1>4. CASE Provision
  <2>1. UNCHANGED restarts /\ pass.step = "admitted"
    BY <1>4 DEF Provision, budgetVars
  <2>2. \/ FailRun(r, pass.view, pass.view, "off", wake)
        \/ UNCHANGED queueVars /\ \E s : \E p : pass' = [pass EXCEPT !.step = "observe", !.jobPhase = s, !.provisioned = p]
    BY <1>4 DEF Provision
  <2>3. CASE UNCHANGED queueVars /\ \E s : \E p : pass' = [pass EXCEPT !.step = "observe", !.jobPhase = s, !.provisioned = p]
    <3>1. pass'.step = "observe"
      BY <1>1, <2>1, <2>3 DEF PassRecord
    <3> QED BY <2>1, <2>3, <3>1, QuietSlot
  <2> QED BY <1>1, <2>1, <2>2, <2>3, FailRunSlot
<1>5. CASE FailRunStalled
  <2>1. UNCHANGED restarts /\ pass.step = "observe"
    BY <1>5 DEF FailRunStalled, budgetVars
  <2>2. FailRun(r, pass.view, With(PendingStatus(CastleView(r)), {"stallWatchdog"}), CastleView(r), wake)
    BY <1>5 DEF FailRunStalled
  <2>3. With(PendingStatus(CastleView(r)), {"stallWatchdog"}) \in CRObject
    <3> DEFINE p == PendingStatus(CastleView(r))
    <3>1. p \in CRObject /\ {"stallWatchdog"} \in SUBSET Mark /\ "" \in Phase
      BY <2>1, PendingStatusChange DEF Mark, Phase
    <3> HIDE DEF p
    <3>2. With(p, {"stallWatchdog"}) \in CRObject
      BY <3>1, WithChange
    <3> QED BY <3>2 DEF p
  <2> QED BY <2>1, <2>2, <2>3, FailRunSlot
<1>6. CASE FailAdapterImageConflict
  <2>1. UNCHANGED restarts /\ pass.step # "idle" /\ FailRun(r, pass.view, pass.view, pass.obs, wake)
    BY <1>6 DEF FailAdapterImageConflict, budgetVars
  <2> QED BY <1>1, <2>1, FailRunSlot
<1>7. CASE Converge
  <2>1. UNCHANGED <<restarts, cr>> /\ pass'.step = "idle" /\ pass.step = "converge" /\ QueueInv
    BY <1>7, PassTypes DEF Converge, EndPass, budgetVars, IInv
  <2>2. CASE IsTerminalPhase(pass.view.phase) /\ Release(r)
    <3>1. Over(cr[r])
      BY <2>1, <2>2, PassKnows DEF Closing
    <3> QED BY <2>1, <2>2, <3>1, OverIsNotHeld, ReleasedSlot
  <2>3. CASE UNCHANGED queueVars
    BY <2>1, <2>3, QuietSlot
  <2> QED BY <1>7, <2>2, <2>3 DEF Converge
<1>8. CASE ObserveAndStamp \/ ObserveTerminal \/ ArchiveGate \/ ReapFailed \/ ReapFinalized
           \/ RemoveFinalizer \/ DeferReap \/ ReapSettled \/ ForceReap
  <2>1. UNCHANGED <<queueVars, restarts>> /\ pass.step \notin {"idle", "refetch"}
    <3>1. CASE ObserveAndStamp \/ ObserveTerminal
      BY <3>1 DEF ObserveAndStamp, ObserveTerminal, Fault, NoFault, budgetVars
    <3>2. CASE ArchiveGate \/ DeferReap
      BY <3>2 DEF ArchiveGate, DeferReap, Reaping, Fault, NoFault, budgetVars
    <3>3. CASE ReapFailed \/ ReapFinalized \/ RemoveFinalizer \/ ReapSettled \/ ForceReap
      BY <3>3 DEF ReapFailed, ReapFinalized, RemoveFinalizer, ReapSettled, ForceReap, Reaping, ReapJobs, budgetVars
    <3> QED BY <1>8, <3>1, <3>2, <3>3
  <2>2. RunStep(r)
    BY PassSteps
  <2>3. pass'.step # "admitted"
    BY <2>1, <2>2 DEF RunStep, PassMoves
  <2> QED BY <2>1, <2>3, QuietSlot
<1>9. CASE FailedCall
  BY <1>9, QuietSlot, PassTypes DEF FailedCall, EndPass, Fault
<1> QED BY <1>2, <1>3, <1>4, <1>5, <1>6, <1>7, <1>8, <1>9 DEF PassStepTaken, StallWindowPasses, ForceWindowPasses

\* What the steps about r do to the Jobs of runs that are not over.
LEMMA RunStepKeepsSlots ==
  ASSUME IInv, IInv', OrderInv, JobsAreBorn, SlotIsHeld, NEW r \in Run, RunStep(r), SlotMoves(r)
  PROVE  JobsAreBorn' /\ SlotIsHeld'
<1>1. ASSUME NEW q \in Run, job'[q] # "none"
      PROVE  cr'[q].life # "unborn" /\ (job[q] = "none" => q = r /\ pass.step = "admitted" /\ pass.run = r)
  <2>1. CASE q # r
    BY <1>1, <2>1 DEF RunStep, StepFrame, JobsAreBorn
  <2>2. CASE q = r /\ job[r] # "none"
    BY <2>2 DEF RunStep, ObjectMoves, Before, JobsAreBorn
  <2>3. CASE q = r /\ job[r] = "none"
    <3>1. pass.step = "admitted" /\ pass.run = r
      BY <1>1, <2>3 DEF RunStep, JobChanges, StepFrame
    <3>2. seen[r].life # "unborn"
      BY <3>1, PassKnows
    <3> QED BY <2>3, <3>1, <3>2, Fetched DEF Before, RunStep, ObjectMoves
  <2> QED BY <2>1, <2>2, <2>3
<1>2. ASSUME restarts = 0, NEW q \in Run, Holds(q)'
      PROVE  running'[KeyOf[q]] = q
  <2>1. CASE q # r
    <3>1. Holds(q)
      BY <1>2, <2>1 DEF Holds, RunStep, StepFrame
    <3> QED BY <1>2, <2>1, <3>1 DEF SlotIsHeld, SlotMoves
  <2>2. CASE q = r /\ job[r] # "none"
    <3>1. ~Over(cr[r]) /\ cr[r].life # "unborn"
      BY <1>2, <2>2 DEF Holds, RunStep, ObjectMoves, Before, Over
    <3>2. Holds(r)
      BY <2>2, <3>1, Fetched DEF Holds, Over, CRObject
    <3> QED BY <1>2, <2>2, <3>2 DEF SlotIsHeld, SlotMoves
  <2>3. CASE q = r /\ job[r] = "none"
    BY <1>1, <1>2, <2>3 DEF Holds, SlotIsHeld, SlotMoves
  <2> QED BY <2>1, <2>2, <2>3
<1>3. pass'.step = "admitted" => running'[KeyOf[r]] = r /\ pass'.run = r
  BY DEF SlotMoves, RunStep, StepFrame
<1> QED BY <1>1, <1>2, <1>3 DEF JobsAreBorn, SlotIsHeld, SlotMoves

LEMMA WorldKeepsSlots ==
  ASSUME IInv, IInv', OrderInv, JobsAreBorn, SlotIsHeld, WorldMoves,
         UNCHANGED <<queueVars, restarts>> \/ restarts' # 0
  PROVE  JobsAreBorn' /\ SlotIsHeld'
<1>1. \A q \in Run : job'[q] # "none" => job[q] # "none" /\ cr[q].life # "unborn" /\ Before(cr[q], cr'[q])
  BY DEF WorldMoves, Advance, Later, JobsAreBorn
<1>2. JobsAreBorn'
  BY <1>1 DEF JobsAreBorn, Before
<1>3. ASSUME NEW q \in Run, Holds(q)' PROVE Holds(q)
  <2>1. ~Over(cr[q]) /\ cr[q].life # "unborn"
    BY <1>1, <1>3 DEF Holds, Before, Over
  <2> QED BY <1>1, <1>3, <2>1, Fetched DEF Holds, Over, CRObject
<1>4. SlotIsHeld'
  <2>1. CASE restarts' # 0
    BY <2>1 DEF SlotIsHeld
  <2>2. CASE UNCHANGED <<queueVars, restarts>>
    <3>1. running' = running /\ restarts' = restarts
      BY <2>2 DEF queueVars
    <3>2. pass' = pass \/ pass'.step = "idle"
      BY DEF WorldMoves
    <3>3. restarts' = 0 => \A q \in Run : Holds(q)' => running'[KeyOf[q]] = q
      BY <1>3, <3>1 DEF SlotIsHeld
    <3>4. restarts' = 0 /\ pass'.step = "admitted" => running'[KeyOf[pass'.run]] = pass'.run
      BY <3>1, <3>2 DEF SlotIsHeld
    <3> QED BY <3>3, <3>4 DEF SlotIsHeld
  <2> QED BY <2>1, <2>2
<1> QED BY <1>2, <1>4

LEMMA SlotNext ==
  ASSUME DistinctTimes, IInv, IInv', OrderInv, JobsAreBorn, SlotIsHeld, Next
  PROVE  JobsAreBorn' /\ SlotIsHeld'
<1>1. ASSUME NEW r \in Run, Begin(r) PROVE RunStep(r) /\ SlotMoves(r)
  BY <1>1, ReconcileSteps, ReconcileSlot DEF Begin
<1>2. ASSUME NEW r \in Run, ClusterStep(r) \/ World(r)
      PROVE  WorldMoves /\ UNCHANGED <<queueVars, restarts>>
  <2>1. WorldMoves
    BY <1>2, UsersMove, ClusterMoves DEF ClusterStep, World
  <2>2. UNCHANGED operatorVars
    BY <1>2 DEF ClusterStep, World, CreateRun, DeleteRun, ForceDelete, CollectOrphan, RunPod, PodSync, EndPod, CrashPod,
                RegisterRun, EndRun, PauseOrStop, Resume, PinMoves, CastleMoves
  <2> QED BY <2>1, <2>2 DEF operatorVars, budgetVars
<1>3. ASSUME PassStepTaken \/ StallWindowPasses \/ ForceWindowPasses \/ FailedCall
      PROVE  \E r \in Run : RunStep(r) /\ SlotMoves(r)
  <2>1. pass.step # "idle"
    BY <1>3 DEF PassStepTaken, StallWindowPasses, ForceWindowPasses, FailedCall, Refetched, RefuseSecondRun,
                Provision, ObserveAndStamp, ObserveTerminal, ArchiveGate, ReapFailed, ReapFinalized,
                RemoveFinalizer, DeferReap, ReapSettled, ForceReap, Reaping, Converge,
                FailAdapterImageConflict, FailRunStalled
  <2>2. pass.run \in Run
    BY <2>1, PassView
  <2> QED BY <1>3, <2>2, PassSteps, PassSlot
<1>4. ASSUME CacheSync
      PROVE  WorldMoves /\ UNCHANGED <<queueVars, restarts>>
  BY <1>4, CacheMoves DEF CacheSync, operatorVars, budgetVars
<1>5. ASSUME RestartOperator
      PROVE  WorldMoves /\ restarts' # 0
  <2>1. restarts \in Nat
    BY ReconcilerAssumption DEF IInv, BudgetType, Scene
  <2> QED BY <1>5, <2>1, CacheMoves DEF RestartOperator
<1> QED BY <1>1, <1>2, <1>3, <1>4, <1>5, RunStepKeepsSlots, WorldKeepsSlots DEF Next

LEMMA SlotStep == DistinctTimes /\ IInv /\ OrderInv /\ JobsAreBorn /\ SlotIsHeld /\ [Next]_vars
                    => (JobsAreBorn /\ SlotIsHeld)'
<1>1. DistinctTimes /\ IInv /\ OrderInv /\ JobsAreBorn /\ SlotIsHeld /\ Next => (JobsAreBorn /\ SlotIsHeld)'
  BY SlotNext, IInvStep
<1>2. JobsAreBorn /\ SlotIsHeld /\ UNCHANGED vars => (JobsAreBorn /\ SlotIsHeld)'
  BY DEF JobsAreBorn, SlotIsHeld, Holds, vars, clusterVars, budgetVars
<1> QED BY <1>1, <1>2

(* The two locks together, with the types: until the process is restarted   *)
(* at most one run per key, and ever at most one per ticket, is active -    *)
(* through stale reads, conflicts, failed calls, deletions and forced       *)
(* deletions - as long as a ticket's runs have different timestamps.        *)
THEOREM LocksHold ==
  ASSUME DistinctTimes
  PROVE  Spec => [](TypeOK /\ OneActivePerTicket /\ (restarts = 0 => Inv))
<1>1. IInv => TypeOK
  BY QueueInvImplies DEF IInv, TypeOK, Objects, PassGood, PassRecord, ClusterType, BudgetType
<1>2. SlotIsHeld => (restarts = 0 => OneActivePerKey)
  <2>1. \A r \in Run : Active(r) => Holds(r)
    BY DEF Active, Holds
  <2> QED BY <2>1 DEF SlotIsHeld, OneActivePerKey
<1>3. Init => JobsAreBorn /\ SlotIsHeld
  BY PassTypes DEF Init, JobsAreBorn, SlotIsHeld, Holds
<1>4. TypeOK /\ OneActivePerTicket /\ (restarts = 0 => OneActivePerKey)
        => TypeOK /\ OneActivePerTicket /\ (restarts = 0 => Inv)
  BY DEF Inv
<1>5. DistinctTimes
  OBVIOUS
<1>6. IInv /\ OrderInv /\ JobsAreBorn /\ SlotIsHeld /\ [Next]_vars => (JobsAreBorn /\ SlotIsHeld)'
  BY <1>5, SlotStep
<1> QED BY <1>1, <1>2, <1>3, <1>4, <1>6, TicketLock, IInvInit, IInvStep, OrderInit, OrderStep, PTL DEF Spec
=============================================================================
