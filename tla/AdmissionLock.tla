---------------------------- MODULE AdmissionLock ----------------------------
(***************************************************************************)
(* What the operator's admission queue promises, without its two maps: per *)
(* queue key there is one line of runs, the run at its head is the one     *)
(* admitted, runs join at the tail, and any run may leave without          *)
(* disturbing the order of the others.  Only a restart reorders, and then  *)
(* by name.                                                                *)
(***************************************************************************)
EXTENDS Naturals, Sequences

CONSTANTS Run,        \* names of CriteriaRuns, numbered in their order
          QueueKey    \* (repoURL, class) pairs

VARIABLE line         \* line[k]: the runs of key k, first admitted first

\* The order in which the runs of s that t keeps come in t is their order in s.
KeepsOrder(s, t) ==
  \A i, j \in DOMAIN s, m, n \in DOMAIN t :
    s[i] = t[m] /\ s[j] = t[n] /\ i < j => m < n

Init == line = [k \in QueueKey |-> <<>>]

Join(k, r) ==
  /\ \A i \in DOMAIN line[k] : line[k][i] # r
  /\ line' = [line EXCEPT ![k] = Append(@, r)]

Leave(k, r) ==
  /\ \E i \in DOMAIN line[k] : line[k][i] = r
  /\ \A j \in QueueKey \ {k} : line'[j] = line[j]
  /\ Len(line'[k]) = Len(line[k]) - 1
  /\ \A i \in DOMAIN line'[k] : line'[k][i] # r
  /\ KeepsOrder(line[k], line'[k])

ByName(s) == \A i, j \in DOMAIN s : i < j => s[i] < s[j]

Restart == DOMAIN line' = QueueKey /\ \A k \in QueueKey : ByName(line'[k])

Next == \/ \E k \in QueueKey, r \in Run : Join(k, r) \/ Leave(k, r)
        \/ Restart

Spec == Init /\ [][Next]_line
=============================================================================
