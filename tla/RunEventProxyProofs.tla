------------------------- MODULE RunEventProxyProofs -------------------------
(***************************************************************************)
(* Proofs about RunEventProxy, for every set of CriteriaRuns and streams,  *)
(* every number of events, failed calls and restarts: whatever interleaving *)
(* of handlers, what an engine saw acknowledged is stored, a transcript    *)
(* holds its own run's events without a gap while it is the only one, and  *)
(* a restart of the operator alone never makes a second one.               *)
(***************************************************************************)
EXTENDS RunEventProxy, FiniteSetTheorems, SequenceTheorems, TLAPS

EntryRecord == [run : Run, castle : Nat]
CastleRecord == [run : Run, assigned : BOOLEAN, log : Seq(Nat \X Nat)]
EngineRecord == [entry : Nat, acked : Nat, stream : Streams \cup {NoStream}]
HandlerRecord == [pc : {"off", "receive", "read", "create", "stamp", "forward", "ack"},
                  entry : Nat, env : Nat \X Nat, target : Nat, run : Nat, open : BOOLEAN]
CastleFor(r, c) == c \in DOMAIN castle /\ castle[c].run = r

ProxyType ==
  /\ token \in [Run -> BOOLEAN] /\ stamp \in [Run -> Nat] /\ pod \in [Run -> BOOLEAN]
  /\ enrolled \subseteq Run /\ entries \in Seq(EntryRecord) /\ live \subseteq DOMAIN entries
  /\ castle \in Seq(CastleRecord)
  /\ engine \in [Run -> EngineRecord] /\ handler \in [Streams -> HandlerRecord]
  /\ faults \in Nat /\ restarts \in Nat

\* What is stamped, cached and logged for a CriteriaRun is castle's run of it.
Owned ==
  /\ \A r \in Run : stamp[r] # 0 => CastleFor(r, stamp[r])
  /\ \A e \in DOMAIN entries : entries[e].castle # 0 => CastleFor(entries[e].run, entries[e].castle)
  /\ \A c \in DOMAIN castle : \A i \in DOMAIN castle[c].log :
       castle[c].log[i][1] \in DOMAIN entries /\ OwnerOf(castle[c].log[i][1]) = castle[c].run
  /\ \A r \in Run : pod[r] => token[r]

\* The assignment lane's castle run of a CriteriaRun is one.
LaneRuns ==
  /\ \A r \in Dispatched : \E c \in DOMAIN castle : castle[c].assigned /\ castle[c].run = r
  /\ \A c, d \in DOMAIN castle :
       castle[c].assigned /\ castle[d].assigned /\ castle[c].run = castle[d].run => c = d

\* An engine and the handler of its stream agree on the proxy run.
EngineHears(r) ==
  /\ engine[r].entry # 0 => engine[r].entry \in DOMAIN entries /\ OwnerOf(engine[r].entry) = r
  /\ engine[r].acked # 0 => engine[r].entry # 0
  /\ engine[r].acked <= Events[r]
  /\ engine[r].stream # NoStream =>
       /\ engine[r].entry \in live
       /\ handler[engine[r].stream].pc # "off" /\ handler[engine[r].stream].open
       /\ handler[engine[r].stream].entry = engine[r].entry
Heard == \A r \in Run : EngineHears(r)

\* What a handler carries from Receive to Ack.
Stored(r, e, n) == \E c \in RunsOf(r) : Holds(c, e, n)
Carries(h) ==
  LET r == OwnerOf(h.entry)
  IN /\ h.target = h.entry /\ h.env = <<h.entry, h.env[2]>> /\ h.env[2] \in 1 .. Events[r]
     /\ h.env[2] > 1 => Stored(r, h.entry, h.env[2] - 1)
     /\ h.open => engine[r].acked = h.env[2] - 1
     /\ h.pc \in {"stamp", "forward", "ack"} => CastleFor(r, h.run)
     /\ h.pc = "ack" => Holds(h.run, h.entry, h.env[2])
HandlerServes(s) ==
  LET h == handler[s]
  IN /\ h.pc = "off" => ~h.open
     /\ h.pc # "off" => h.entry \in DOMAIN entries
     /\ h.open => engine[OwnerOf(h.entry)].stream = s /\ engine[OwnerOf(h.entry)].entry = h.entry
     /\ h.pc \notin {"off", "receive"} => Carries(h)
     /\ h.pc \in {"off", "receive", "read", "create"} => h.run = 0
Served == \A s \in Streams : HandlerServes(s)

\* Without a failed call all that was forwarded is on the recorded run.
OnRecorded ==
  faults = 0 =>
    /\ \A s \in Streams : handler[s].pc # "off" => handler[s].open
    /\ \A c \in DOMAIN castle : castle[c].log # <<>> => c = Recorded(castle[c].run)
    /\ \A e \in DOMAIN entries : entries[e].castle # 0 => entries[e].castle = Recorded(entries[e].run)
    /\ \A s \in Streams :
         /\ handler[s].pc \in {"forward", "ack"} => handler[s].run = Recorded(OwnerOf(handler[s].entry))
         /\ handler[s].pc \in {"create", "stamp"} => Recorded(OwnerOf(handler[s].entry)) = 0

PInv == ProxyType /\ Owned /\ LaneRuns /\ Heard /\ Served /\ AckedIsStored /\ TranscriptHasNoGap /\ OnRecorded


-----------------------------------------------------------------------------
(* What only grows.                                                        *)
CastleGrows ==
  /\ castle' \in Seq(CastleRecord)
  /\ \A c \in DOMAIN castle :
       /\ c \in DOMAIN castle' /\ castle'[c].run = castle[c].run /\ castle'[c].assigned = castle[c].assigned
       /\ \A i \in DOMAIN castle[c].log : i \in DOMAIN castle'[c].log /\ castle'[c].log[i] = castle[c].log[i]
  /\ \A c \in DOMAIN castle' : c \notin DOMAIN castle => ~castle'[c].assigned /\ castle'[c].log = <<>>
EntriesGrow ==
  /\ entries' \in Seq(EntryRecord)
  /\ \A e \in DOMAIN entries : e \in DOMAIN entries' /\ entries'[e].run = entries[e].run

LEMMA GrownHolds ==
  ASSUME CastleGrows, EntriesGrow
  PROVE  /\ \A r, c : CastleFor(r, c) => CastleFor(r, c)'
         /\ \A c \in DOMAIN castle : \A e, n : Holds(c, e, n) => Holds(c, e, n)'
         /\ \A r, e, n : Stored(r, e, n) => Stored(r, e, n)'
         /\ \A e \in DOMAIN entries : OwnerOf(e)' = OwnerOf(e)
<1>1. \A r, c : CastleFor(r, c) => CastleFor(r, c)'
  BY DEF CastleGrows, CastleFor
<1>2. \A c \in DOMAIN castle : \A e, n : Holds(c, e, n) => Holds(c, e, n)'
  BY DEF CastleGrows, Holds
<1>3. \A r, e, n : Stored(r, e, n) => Stored(r, e, n)'
  <2> SUFFICES ASSUME NEW r, NEW e, NEW n, Stored(r, e, n) PROVE Stored(r, e, n)'
    OBVIOUS
  <2>1. PICK c \in RunsOf(r) : Holds(c, e, n)
    BY DEF Stored
  <2>2. c \in RunsOf(r)'
    BY DEF CastleGrows, RunsOf
  <2>3. Holds(c, e, n)'
    BY <1>2, <2>1 DEF RunsOf
  <2> QED BY <2>2, <2>3 DEF Stored
<1> QED BY <1>1, <1>2, <1>3 DEF EntriesGrow, OwnerOf

LEMMA TheOnlyOne ==
  ASSUME NEW cs, NEW r, NEW c \in DOMAIN cs, cs[c].assigned, cs[c].run = r,
         \A d \in DOMAIN cs : cs[d].assigned /\ cs[d].run = r => d = c
  PROVE  (CHOOSE d \in DOMAIN cs : cs[d].assigned /\ cs[d].run = r) = c
OBVIOUS

LEMMA LaneRunStays ==
  ASSUME LaneRuns, CastleGrows
  PROVE  LaneRuns' /\ \A r \in Run : AssignmentRun(r)' = AssignmentRun(r)
<1>1. LaneRuns'
  <2>1. \A r \in Dispatched : \E c \in DOMAIN castle' : castle'[c].assigned /\ castle'[c].run = r
    BY DEF LaneRuns, CastleGrows
  <2>2. \A c \in DOMAIN castle' : castle'[c].assigned => c \in DOMAIN castle
    BY DEF CastleGrows
  <2>3. \A c, d \in DOMAIN castle' :
          castle'[c].assigned /\ castle'[d].assigned /\ castle'[c].run = castle'[d].run => c = d
    BY <2>2 DEF LaneRuns, CastleGrows
  <2> QED BY <2>1, <2>3 DEF LaneRuns
<1>2. ASSUME NEW r \in Dispatched PROVE AssignmentRun(r)' = AssignmentRun(r)
  <2>1. PICK c \in DOMAIN castle : castle[c].assigned /\ castle[c].run = r
    BY DEF LaneRuns
  <2>2. \A d \in DOMAIN castle : castle[d].assigned /\ castle[d].run = r => d = c
    BY <2>1 DEF LaneRuns
  <2>3. AssignmentRun(r) = c
    BY <2>1, <2>2, TheOnlyOne DEF AssignmentRun
  <2>4. c \in DOMAIN castle' /\ castle'[c].assigned /\ castle'[c].run = r
    BY <2>1 DEF CastleGrows
  <2>5. \A d \in DOMAIN castle' : castle'[d].assigned /\ castle'[d].run = r => d = c
    BY <1>1, <2>4 DEF LaneRuns
  <2>6. (CHOOSE d \in DOMAIN castle' : castle'[d].assigned /\ castle'[d].run = r) = c
    BY <2>4, <2>5, TheOnlyOne
  <2>7. AssignmentRun(r)' = c
    BY <2>6 DEF AssignmentRun
  <2> QED BY <2>3, <2>7
<1>3. \A r \in Run : r \notin Dispatched => AssignmentRun(r)' = AssignmentRun(r)
  BY DEF AssignmentRun
<1> QED BY <1>1, <1>2, <1>3

LEMMA LaneRunIsOwned ==
  ASSUME LaneRuns, NEW r \in Run, AssignmentRun(r) # 0
  PROVE  CastleFor(r, AssignmentRun(r))
<1>1. r \in Dispatched
  BY DEF AssignmentRun
<1>2. PICK c \in DOMAIN castle : castle[c].assigned /\ castle[c].run = r
  BY <1>1 DEF LaneRuns
<1>3. AssignmentRun(r) = CHOOSE d \in DOMAIN castle : castle[d].assigned /\ castle[d].run = r
  BY <1>1 DEF AssignmentRun
<1> QED BY <1>2, <1>3 DEF CastleFor

LEMMA CastleChanged ==
  ASSUME ProxyType, NEW k \in DOMAIN castle, NEW rec \in CastleRecord, castle' = [castle EXCEPT ![k] = rec]
  PROVE  /\ castle' \in Seq(CastleRecord) /\ DOMAIN castle' = DOMAIN castle
         /\ castle'[k] = rec /\ \A c \in DOMAIN castle : c # k => castle'[c] = castle[c]
<1>1. castle \in Seq(CastleRecord)
  BY DEF ProxyType
<1> QED BY <1>1

(* The three things that become of castle's runs.                          *)
LEMMA CastleUnchanged ==
  ASSUME ProxyType, UNCHANGED castle
  PROVE  CastleGrows
BY DEF ProxyType, CastleGrows

LEMMA CastleMade ==
  ASSUME ProxyType, NEW r \in Run, castle' = Append(castle, [run |-> r, assigned |-> FALSE, log |-> <<>>])
  PROVE  /\ CastleGrows /\ Len(castle) \in Nat /\ DOMAIN castle = 1 .. Len(castle)
         /\ Len(castle') = Len(castle) + 1 /\ Len(castle') \notin DOMAIN castle
         /\ \A c : c \in DOMAIN castle' <=> c \in DOMAIN castle \/ c = Len(castle')
         /\ \A c \in DOMAIN castle : castle'[c] = castle[c]
         /\ castle'[Len(castle')].run = r /\ castle'[Len(castle')].log = <<>>
<1>1. castle \in Seq(CastleRecord)
  BY DEF ProxyType
<1>2. PICK new \in CastleRecord : new.run = r /\ ~new.assigned /\ new.log = <<>> /\ castle' = Append(castle, new)
  <2>1. <<>> \in Seq(Nat \X Nat)
    OBVIOUS
  <2>2. [run |-> r, assigned |-> FALSE, log |-> <<>>] \in CastleRecord
    BY <2>1 DEF CastleRecord
  <2> QED BY <2>2
<1>3. /\ castle' \in Seq(CastleRecord) /\ Len(castle') = Len(castle) + 1 /\ castle'[Len(castle) + 1] = new
      /\ \A c \in 1 .. Len(castle) : castle'[c] = castle[c]
  BY <1>1, <1>2, AppendProperties
<1>4. Len(castle) \in Nat /\ DOMAIN castle = 1 .. Len(castle) /\ DOMAIN castle' = 1 .. Len(castle')
  BY <1>1, <1>3, LenProperties
<1>5. PICK n \in Nat : n = Len(castle)
  BY <1>4
<1>6. n + 1 \notin 1 .. n /\ \A c : c \in 1 .. n + 1 <=> c \in 1 .. n \/ c = n + 1
  OBVIOUS
<1>7. Len(castle') \notin DOMAIN castle /\ \A c : c \in DOMAIN castle' <=> c \in DOMAIN castle \/ c = Len(castle')
  BY <1>3, <1>4, <1>5, <1>6
<1>8. CastleGrows
  BY <1>2, <1>3, <1>4, <1>7 DEF CastleGrows
<1> QED BY <1>2, <1>3, <1>4, <1>7, <1>8

LEMMA CastleLogged ==
  ASSUME ProxyType, NEW k \in DOMAIN castle, NEW env \in Nat \X Nat,
         castle' = [castle EXCEPT ![k].log = Append(@, env)]
  PROVE  /\ CastleGrows /\ DOMAIN castle' = DOMAIN castle
         /\ \A c \in DOMAIN castle : castle'[c].run = castle[c].run
         /\ \A c \in DOMAIN castle : c # k => castle'[c].log = castle[c].log
         /\ castle[k].log \in Seq(Nat \X Nat) /\ castle'[k].log # <<>>
         /\ Len(castle[k].log) \in Nat /\ DOMAIN castle[k].log = 1 .. Len(castle[k].log)
         /\ \A i : i \in DOMAIN castle'[k].log <=> i \in DOMAIN castle[k].log \/ i = Len(castle[k].log) + 1
         /\ \A i \in DOMAIN castle[k].log : castle'[k].log[i] = castle[k].log[i]
         /\ castle'[k].log[Len(castle[k].log) + 1] = env
<1>1. castle \in Seq(CastleRecord) /\ castle[k] \in CastleRecord
  BY DEF ProxyType
<1>0. PICK S : S = Nat \X Nat
  OBVIOUS
<1>2. PICK log \in Seq(S) : log = castle[k].log
  BY <1>0, <1>1 DEF CastleRecord
<1>3. PICK new \in Seq(S) :
        /\ new = Append(log, env) /\ new # <<>> /\ Len(new) = Len(log) + 1 /\ new[Len(log) + 1] = env
        /\ \A i \in 1 .. Len(log) : new[i] = log[i]
  <2>1. \A e \in S : /\ Append(log, e) \in Seq(S) /\ Append(log, e) # <<>>
                     /\ Len(Append(log, e)) = Len(log) + 1 /\ Append(log, e)[Len(log) + 1] = e
                     /\ \A i \in 1 .. Len(log) : Append(log, e)[i] = log[i]
    BY AppendProperties
  <2> QED BY <1>0, <2>1
<1>4. Len(log) \in Nat /\ DOMAIN log = 1 .. Len(log) /\ DOMAIN new = 1 .. Len(log) + 1
  BY <1>3, LenProperties
<1>5. PICK n \in Nat : n = Len(log)
  BY <1>4
<1>6. \A c : c \in 1 .. n + 1 <=> c \in 1 .. n \/ c = n + 1
  OBVIOUS
<1>7. \A c : c \in DOMAIN new <=> c \in DOMAIN log \/ c = Len(log) + 1
  BY <1>4, <1>5, <1>6
<1>8. PICK rec \in CastleRecord : /\ castle' = [castle EXCEPT ![k] = rec] /\ rec.log = new
                                  /\ rec.run = castle[k].run /\ rec.assigned = castle[k].assigned
  <2>1. PICK rec : rec = [castle[k] EXCEPT !.log = new]
    OBVIOUS
  <2>2. rec \in CastleRecord /\ rec.log = new /\ rec.run = castle[k].run /\ rec.assigned = castle[k].assigned
    BY <1>0, <1>1, <2>1 DEF CastleRecord
  <2>3. castle' = [castle EXCEPT ![k] = rec]
    BY <1>2, <1>3, <2>1
  <2> QED BY <2>2, <2>3
<1>9. /\ castle' \in Seq(CastleRecord) /\ DOMAIN castle' = DOMAIN castle
      /\ castle'[k] = rec /\ \A c \in DOMAIN castle : c # k => castle'[c] = castle[c]
  BY <1>8, CastleChanged
<1>10. CastleGrows
  <2>1. ASSUME NEW c \in DOMAIN castle
        PROVE  /\ c \in DOMAIN castle' /\ castle'[c].run = castle[c].run /\ castle'[c].assigned = castle[c].assigned
               /\ \A i \in DOMAIN castle[c].log : i \in DOMAIN castle'[c].log /\ castle'[c].log[i] = castle[c].log[i]
    <3>1. CASE c = k
      BY <1>2, <1>3, <1>4, <1>7, <1>8, <1>9, <3>1
    <3>2. CASE c # k
      BY <1>9, <3>2
    <3> QED BY <3>1, <3>2
  <2> QED BY <1>9, <2>1 DEF CastleGrows
<1>11. castle'[k].log = new /\ castle[k].log = log
  BY <1>2, <1>8, <1>9
<1>12. \A c \in DOMAIN castle : castle'[c].run = castle[c].run
  BY <1>8, <1>9
<1> QED BY <1>0, <1>3, <1>4, <1>7, <1>9, <1>10, <1>11, <1>12

(* And of the proxy runs.                                                  *)
LEMMA EntriesUnchanged ==
  ASSUME ProxyType, UNCHANGED entries
  PROVE  EntriesGrow
BY DEF ProxyType, EntriesGrow

LEMMA EntryMinted ==
  ASSUME ProxyType, NEW r \in Run, entries' = Append(entries, [run |-> r, castle |-> 0])
  PROVE  /\ EntriesGrow /\ Len(entries') \in Nat /\ Len(entries') # 0 /\ Len(entries') \notin DOMAIN entries
         /\ \A e : e \in DOMAIN entries' <=> e \in DOMAIN entries \/ e = Len(entries')
         /\ \A e \in DOMAIN entries : entries'[e] = entries[e]
         /\ entries'[Len(entries')].run = r /\ entries'[Len(entries')].castle = 0
<1>1. entries \in Seq(EntryRecord)
  BY DEF ProxyType
<1>2. PICK new \in EntryRecord : new.run = r /\ new.castle = 0 /\ entries' = Append(entries, new)
  BY DEF EntryRecord
<1>3. /\ entries' \in Seq(EntryRecord) /\ Len(entries') = Len(entries) + 1 /\ entries'[Len(entries) + 1] = new
      /\ \A e \in 1 .. Len(entries) : entries'[e] = entries[e]
  BY <1>1, <1>2, AppendProperties
<1>4. Len(entries) \in Nat /\ DOMAIN entries = 1 .. Len(entries) /\ DOMAIN entries' = 1 .. Len(entries')
  BY <1>1, <1>3, LenProperties
<1>5. PICK n \in Nat : n = Len(entries)
  BY <1>4
<1>6. n + 1 \notin 1 .. n /\ n + 1 \in Nat /\ n + 1 # 0 /\ \A c : c \in 1 .. n + 1 <=> c \in 1 .. n \/ c = n + 1
  OBVIOUS
<1>7. /\ Len(entries') \notin DOMAIN entries /\ Len(entries') \in Nat /\ Len(entries') # 0
      /\ \A e : e \in DOMAIN entries' <=> e \in DOMAIN entries \/ e = Len(entries')
  BY <1>3, <1>4, <1>5, <1>6
<1>8. EntriesGrow
  BY <1>3, <1>4, <1>7 DEF EntriesGrow
<1> QED BY <1>2, <1>3, <1>4, <1>7, <1>8

LEMMA EntryChanged ==
  ASSUME ProxyType, NEW e \in DOMAIN entries, NEW rec \in EntryRecord, entries' = [entries EXCEPT ![e] = rec]
  PROVE  /\ entries' \in Seq(EntryRecord) /\ DOMAIN entries' = DOMAIN entries
         /\ entries'[e] = rec /\ \A d \in DOMAIN entries : d # e => entries'[d] = entries[d]
<1>1. entries \in Seq(EntryRecord)
  BY DEF ProxyType
<1> QED BY <1>1

LEMMA EntryCached ==
  ASSUME ProxyType, NEW e \in DOMAIN entries, NEW c \in Nat, Cache(e, c)
  PROVE  /\ EntriesGrow /\ DOMAIN entries' = DOMAIN entries
         /\ entries'[e].castle = c
         /\ \A d \in DOMAIN entries : entries'[d].run = entries[d].run
         /\ \A d \in DOMAIN entries : d # e => entries'[d] = entries[d]
<1>1. entries \in Seq(EntryRecord) /\ entries[e] \in EntryRecord
  BY DEF ProxyType
<1>2. PICK rec : rec = [entries[e] EXCEPT !.castle = c]
  OBVIOUS
<1>3. rec \in EntryRecord /\ rec.castle = c /\ rec.run = entries[e].run
  BY <1>1, <1>2 DEF EntryRecord
<1>4. entries' = [entries EXCEPT ![e] = rec]
  BY <1>2 DEF Cache
<1>5. /\ entries' \in Seq(EntryRecord) /\ DOMAIN entries' = DOMAIN entries
      /\ entries'[e] = rec /\ \A d \in DOMAIN entries : d # e => entries'[d] = entries[d]
  BY <1>3, <1>4, EntryChanged
<1>6. \A d \in DOMAIN entries : entries'[d].run = entries[d].run
  BY <1>3, <1>5
<1> QED BY <1>3, <1>5, <1>6 DEF EntriesGrow

LEMMA OwnersAreRuns ==
  ASSUME ProxyType
  PROVE  \A e \in DOMAIN entries : OwnerOf(e) \in Run /\ entries[e].castle \in Nat
<1> SUFFICES ASSUME NEW e \in DOMAIN entries PROVE OwnerOf(e) \in Run /\ entries[e].castle \in Nat
  OBVIOUS
<1>1. entries[e] \in EntryRecord
  BY DEF ProxyType
<1> QED BY <1>1 DEF OwnerOf, EntryRecord

LEMMA BudgetsCount ==
  ASSUME ProxyType, NoFault \/ Fault
  PROVE  faults' \in Nat /\ restarts' \in Nat /\ (faults' = 0 => faults = 0) /\ (Fault => faults' # 0)
BY DEF ProxyType, NoFault, Fault, budgets

(* What was acknowledged stays stored.                                     *)
LEMMA AckedStays ==
  ASSUME AckedIsStored, CastleGrows, EntriesGrow, ProxyType,
         \A r \in Run : engine'[r].acked = 0 \/ (engine'[r].acked = engine[r].acked /\ engine'[r].entry = engine[r].entry)
  PROVE  AckedIsStored'
<1> SUFFICES ASSUME NEW r \in Run, NEW n \in 1 .. engine'[r].acked
             PROVE  (\E c \in RunsOf(r) : Holds(c, engine[r].entry, n))'
  BY DEF AckedIsStored
<1>1. engine'[r].acked # 0
  OBVIOUS
<1>2. PICK e : e = engine'[r].entry /\ e = engine[r].entry /\ engine'[r].acked = engine[r].acked
  BY <1>1
<1>3. Stored(r, e, n)
  BY <1>2 DEF AckedIsStored, Stored
<1>4. Stored(r, e, n)'
  BY <1>3, GrownHolds
<1> QED BY <1>2, <1>4 DEF Stored, RunsOf, Holds

LEMMA CarriesStays ==
  ASSUME CastleGrows, EntriesGrow, NEW h, h.entry \in DOMAIN entries, Carries(h), h.env[2] \in Nat,
         h.open => engine'[OwnerOf(h.entry)].acked = engine[OwnerOf(h.entry)].acked,
         h.pc = "ack" => h.run \in DOMAIN castle
  PROVE  Carries(h)'
<1>1. OwnerOf(h.entry)' = OwnerOf(h.entry)
  BY GrownHolds
<1>2. PICK r : r = OwnerOf(h.entry) /\ r = OwnerOf(h.entry)'
  BY <1>1
<1>3. h.env[2] > 1 => Stored(r, h.entry, h.env[2] - 1)'
  BY <1>2, GrownHolds DEF Carries
<1>4. h.pc \in {"stamp", "forward", "ack"} => CastleFor(r, h.run)'
  BY <1>2, GrownHolds DEF Carries
<1>5. h.pc = "ack" => Holds(h.run, h.entry, h.env[2])'
  BY <1>2, GrownHolds DEF Carries
<1>6. /\ h.target = h.entry /\ h.env = <<h.entry, h.env[2]>> /\ h.env[2] \in 1 .. Events[r]
      /\ h.open => engine'[r].acked = h.env[2] - 1
  BY <1>2 DEF Carries
<1> QED BY <1>2, <1>3, <1>4, <1>5, <1>6 DEF Carries

-----------------------------------------------------------------------------
(* Engines and handlers that are not the ones of the step.                 *)
LEMMA HandlerStays ==
  ASSUME ProxyType, CastleGrows, EntriesGrow, NEW s \in Streams, HandlerServes(s), handler'[s] = handler[s],
         handler[s].open => engine'[OwnerOf(handler[s].entry)] = engine[OwnerOf(handler[s].entry)]
  PROVE  HandlerServes(s)'
<1>1. PICK h \in HandlerRecord : h = handler[s] /\ h = handler'[s]
  BY DEF ProxyType
<1>2. /\ h.pc = "off" => ~h.open
      /\ h.pc # "off" => h.entry \in DOMAIN entries
      /\ h.open => engine[OwnerOf(h.entry)].stream = s /\ engine[OwnerOf(h.entry)].entry = h.entry
      /\ h.pc \notin {"off", "receive"} => Carries(h)
      /\ h.pc \in {"off", "receive", "read", "create"} => h.run = 0
      /\ h.open => engine'[OwnerOf(h.entry)] = engine[OwnerOf(h.entry)]
  BY <1>1 DEF HandlerServes
<1>3. h.pc # "off" => h.entry \in DOMAIN entries' /\ OwnerOf(h.entry)' = OwnerOf(h.entry)
  BY <1>2, GrownHolds DEF EntriesGrow
<1>4. h.pc \notin {"off", "receive"} => Carries(h)'
  <2> SUFFICES ASSUME h.pc \notin {"off", "receive"} PROVE Carries(h)'
    OBVIOUS
  <2>1. h.env[2] \in Nat
    BY DEF HandlerRecord
  <2>2. h.pc = "ack" => h.run \in DOMAIN castle
    BY <1>2 DEF Carries, CastleFor
  <2>3. h.open => engine'[OwnerOf(h.entry)].acked = engine[OwnerOf(h.entry)].acked
    BY <1>2
  <2> QED BY <1>2, <2>1, <2>2, <2>3, CarriesStays
<1>5. h.open => (engine[OwnerOf(h.entry)].stream = s /\ engine[OwnerOf(h.entry)].entry = h.entry)'
  BY <1>2, <1>3
<1> QED BY <1>1, <1>2, <1>3, <1>4, <1>5 DEF HandlerServes

LEMMA EngineStays ==
  ASSUME EntriesGrow, NEW r \in Run, EngineHears(r), engine'[r] = engine[r], live \subseteq live',
         engine[r].stream # NoStream =>
           /\ handler'[engine[r].stream].pc # "off" /\ handler'[engine[r].stream].open
           /\ handler'[engine[r].stream].entry = engine[r].entry
  PROVE  EngineHears(r)'
<1>1. PICK g : g = engine[r] /\ g = engine'[r]
  OBVIOUS
<1>2. g.entry # 0 => g.entry \in DOMAIN entries' /\ OwnerOf(g.entry)' = r
  BY <1>1 DEF EngineHears, EntriesGrow, OwnerOf
<1> QED BY <1>1, <1>2 DEF EngineHears

LEMMA EndKeeps ==
  ASSUME ProxyType, Heard, Served, CastleGrows, EntriesGrow, live' = live, NEW s \in Streams, End(s),
         engine' = Hangup(s) \/ (engine' = engine /\ ~handler[s].open)
  PROVE  /\ Heard' /\ Served'
         /\ handler' \in [Streams -> HandlerRecord] /\ engine' \in [Run -> EngineRecord]
         /\ handler'[s] = Off /\ \A t \in Streams : t # s => handler'[t] = handler[t]
         /\ \A r \in Run : engine'[r].acked = engine[r].acked /\ engine'[r].entry = engine[r].entry
<1>1. /\ engine \in [Run -> EngineRecord] /\ handler \in [Streams -> HandlerRecord]
      /\ handler' = [handler EXCEPT ![s] = Off]
  BY DEF ProxyType, End, Step
<1>2. Off \in HandlerRecord /\ Off.pc = "off" /\ Off.open = FALSE /\ Off.run = 0
  <2>1. <<0, 0>> \in Nat \X Nat
    OBVIOUS
  <2> QED BY <2>1 DEF Off, HandlerRecord
<1>3. /\ handler' \in [Streams -> HandlerRecord] /\ handler'[s] = Off
      /\ \A t \in Streams : t # s => handler'[t] = handler[t]
  BY <1>1, <1>2
<1>4. 0 \notin Streams /\ NoStream = 0
  BY ProxyAssumption DEF ProxyAssumption, NoStream
<1>5. ASSUME NEW r \in Run
      PROVE  /\ engine'[r] \in EngineRecord
             /\ engine'[r].acked = engine[r].acked /\ engine'[r].entry = engine[r].entry
             /\ engine'[r].stream # s
             /\ engine[r].stream # s => engine'[r] = engine[r]
             /\ engine'[r].stream \in {engine[r].stream, NoStream}
  <2>1. engine[r] \in EngineRecord
    BY <1>1
  <2>2. CASE engine' = Hangup(s)
    <3>1. engine'[r] = IF engine[r].stream = s THEN [engine[r] EXCEPT !.stream = NoStream] ELSE engine[r]
      BY <2>2 DEF Hangup
    <3>2. CASE engine[r].stream = s
      <4>1. engine'[r] = [engine[r] EXCEPT !.stream = NoStream]
        BY <3>1, <3>2
      <4>2. engine'[r] \in EngineRecord /\ engine'[r].stream = NoStream
            /\ engine'[r].acked = engine[r].acked /\ engine'[r].entry = engine[r].entry
        BY <2>1, <4>1 DEF EngineRecord
      <4> QED BY <1>4, <3>2, <4>2
    <3>3. CASE engine[r].stream # s
      BY <2>1, <3>1, <3>3
    <3> QED BY <3>2, <3>3
  <2>3. CASE engine' = engine /\ ~handler[s].open
    <3>1. engine[r].stream # s
      BY <1>4, <2>3 DEF Heard, EngineHears
    <3> QED BY <2>1, <2>3, <3>1
  <2> QED BY <2>2, <2>3
<1>6. engine' \in [Run -> EngineRecord]
  <2>1. DOMAIN engine' = Run /\ engine' = [r \in Run |-> engine'[r]]
    BY <1>1 DEF Hangup
  <2> QED BY <1>5, <2>1
<1>7. ASSUME NEW r \in Run PROVE EngineHears(r)'
  <2>1. CASE engine[r].stream # s
    <3>1. engine[r].stream # NoStream =>
           /\ handler'[engine[r].stream].pc # "off" /\ handler'[engine[r].stream].open
           /\ handler'[engine[r].stream].entry = engine[r].entry
      <4>1. engine[r].stream \in Streams \cup {NoStream}
        BY <1>1 DEF EngineRecord
      <4> QED BY <1>3, <2>1, <4>1 DEF Heard, EngineHears
    <3> QED BY <1>5, <2>1, <3>1, EngineStays DEF Heard
  <2>2. CASE engine[r].stream = s
    <3>1. engine'[r].stream = NoStream
      BY <1>5, <2>2
    <3>2. PICK e : e = engine[r].entry /\ e = engine'[r].entry /\ engine'[r].acked = engine[r].acked
      BY <1>5
    <3>3. e # 0 => e \in DOMAIN entries' /\ OwnerOf(e)' = r
      BY <3>2 DEF Heard, EngineHears, EntriesGrow, OwnerOf
    <3> QED BY <3>1, <3>2, <3>3 DEF Heard, EngineHears
  <2> QED BY <2>1, <2>2
<1>8. ASSUME NEW t \in Streams PROVE HandlerServes(t)'
  <2>1. CASE t = s
    BY <1>2, <1>3, <2>1 DEF HandlerServes
  <2>2. CASE t # s
    <3>1. handler'[t] = handler[t]
      BY <1>3, <2>2
    <3>2. ASSUME handler[t].open PROVE engine'[OwnerOf(handler[t].entry)] = engine[OwnerOf(handler[t].entry)]
      <4>1. engine[OwnerOf(handler[t].entry)].stream = t /\ handler[t].entry \in DOMAIN entries
        BY <3>2 DEF Served, HandlerServes
      <4>2. OwnerOf(handler[t].entry) \in Run
        BY <4>1, OwnersAreRuns
      <4> QED BY <1>5, <2>2, <4>1, <4>2
    <3> QED BY <3>1, <3>2, HandlerStays DEF Served
  <2> QED BY <2>1, <2>2
<1> QED BY <1>3, <1>5, <1>6, <1>7, <1>8 DEF Heard, Served

LEMMA StepKeeps ==
  ASSUME ProxyType, Heard, Served, CastleGrows, EntriesGrow, UNCHANGED <<engine, live>>,
         NEW s \in Streams, NEW g \in HandlerRecord, Step(s, g), handler[s].pc # "off", g.pc # "off",
         g.entry = handler[s].entry, g.open = handler[s].open,
         g.pc # "receive" => Carries(g)',
         g.pc \in {"receive", "read", "create"} => g.run = 0
  PROVE  /\ Heard' /\ Served'
         /\ handler' \in [Streams -> HandlerRecord]
         /\ handler'[s] = g /\ \A t \in Streams : t # s => handler'[t] = handler[t]
<1>1. /\ engine \in [Run -> EngineRecord] /\ handler \in [Streams -> HandlerRecord]
      /\ handler' = [handler EXCEPT ![s] = g]
  BY DEF ProxyType, Step
<1>2. /\ handler' \in [Streams -> HandlerRecord] /\ handler'[s] = g
      /\ \A t \in Streams : t # s => handler'[t] = handler[t]
  BY <1>1
<1>3. \A t \in Streams : handler'[t].entry = handler[t].entry /\ handler'[t].open = handler[t].open
                         /\ (handler[t].pc # "off" => handler'[t].pc # "off")
  BY <1>2
<1>4. ASSUME NEW r \in Run PROVE EngineHears(r)'
  <2>1. engine[r].stream \in Streams \cup {NoStream}
    BY <1>1 DEF EngineRecord
  <2>2. engine[r].stream # NoStream =>
          /\ handler'[engine[r].stream].pc # "off" /\ handler'[engine[r].stream].open
          /\ handler'[engine[r].stream].entry = engine[r].entry
    BY <1>3, <2>1 DEF Heard, EngineHears
  <2> QED BY <2>2, EngineStays DEF Heard
<1>5. ASSUME NEW t \in Streams PROVE HandlerServes(t)'
  <2>1. CASE t # s
    BY <1>2, <2>1, HandlerStays DEF Served
  <2>2. CASE t = s
    <3>1. g.entry \in DOMAIN entries
      BY DEF Served, HandlerServes
    <3>2. g.entry \in DOMAIN entries' /\ OwnerOf(g.entry)' = OwnerOf(g.entry)
      BY <3>1, GrownHolds DEF EntriesGrow
    <3>3. g.open => engine[OwnerOf(g.entry)].stream = s /\ engine[OwnerOf(g.entry)].entry = g.entry
      BY DEF Served, HandlerServes
    <3>4. g.open => (engine[OwnerOf(g.entry)].stream = s /\ engine[OwnerOf(g.entry)].entry = g.entry)'
      BY <3>2, <3>3
    <3> QED BY <1>2, <2>2, <3>2, <3>4 DEF HandlerServes
  <2> QED BY <2>1, <2>2
<1> QED BY <1>2, <1>4, <1>5 DEF Heard, Served

(* Without a change to what castle has, its transcripts are as they were.  *)
LEMMA GapStays ==
  ASSUME TranscriptHasNoGap, UNCHANGED castle
  PROVE  TranscriptHasNoGap'
BY DEF TranscriptHasNoGap, RunsOf

LEMMA GapAfterMade ==
  ASSUME ProxyType, TranscriptHasNoGap, NEW r \in Run,
         castle' = Append(castle, [run |-> r, assigned |-> FALSE, log |-> <<>>])
  PROVE  TranscriptHasNoGap'
<1>1. /\ Len(castle') \notin DOMAIN castle /\ castle'[Len(castle')].run = r /\ castle'[Len(castle')].log = <<>>
      /\ \A c : c \in DOMAIN castle' <=> c \in DOMAIN castle \/ c = Len(castle')
      /\ \A c \in DOMAIN castle : castle'[c] = castle[c]
  BY CastleMade
<1>2. PICK k : k = Len(castle')
  OBVIOUS
<1>3. ASSUME NEW q \in Run, NEW c, RunsOf(q)' = {c}, NEW i \in DOMAIN castle'[c].log, castle'[c].log[i][2] > 1
      PROVE  \E j \in 1 .. i - 1 : castle'[c].log[j] = <<castle'[c].log[i][1], castle'[c].log[i][2] - 1>>
  <2>1. c \in DOMAIN castle' /\ castle'[c].run = q
    BY <1>3 DEF RunsOf
  <2>2. c # k
    BY <1>1, <1>2, <1>3
  <2>3. c \in DOMAIN castle /\ castle'[c] = castle[c]
    BY <1>1, <1>2, <2>1, <2>2
  <2>4. RunsOf(q) = {c}
    <3>1. \A d \in RunsOf(q) : d \in RunsOf(q)'
      BY <1>1 DEF RunsOf
    <3>2. c \in RunsOf(q)
      BY <2>1, <2>3 DEF RunsOf
    <3> QED BY <1>3, <3>1, <3>2
  <2>5. Cardinality(RunsOf(q)) = 1
    BY <2>4, FS_Singleton
  <2>6. castle'[c].log = castle[c].log
    BY <2>3
  <2>7. \E j \in 1 .. i - 1 : castle[c].log[j] = <<castle[c].log[i][1], castle[c].log[i][2] - 1>>
    BY <1>3, <2>4, <2>5, <2>6 DEF TranscriptHasNoGap
  <2> QED BY <2>6, <2>7
<1>4. ASSUME NEW q \in Run, Cardinality(RunsOf(q)') = 1, NEW c \in RunsOf(q)'
      PROVE  RunsOf(q)' = {c}
  <2>1. castle' \in Seq(CastleRecord)
    BY CastleMade DEF CastleGrows
  <2>2. IsFiniteSet(DOMAIN castle')
    BY <2>1, FS_Interval, LenProperties
  <2>3. IsFiniteSet(RunsOf(q)')
    BY <2>2, FS_Subset DEF RunsOf
  <2> QED BY <1>4, <2>3, FS_Singleton
<1>5. ASSUME NEW q \in Run, Cardinality(RunsOf(q)') = 1, NEW c \in RunsOf(q)',
             NEW i \in DOMAIN castle'[c].log, castle'[c].log[i][2] > 1
      PROVE  \E j \in 1 .. i - 1 : castle'[c].log[j] = <<castle'[c].log[i][1], castle'[c].log[i][2] - 1>>
  <2>1. RunsOf(q)' = {c}
    BY <1>4, <1>5
  <2> QED BY <1>3, <1>5, <2>1, ZenonT(60)
<1> QED BY <1>5, Zenon DEF TranscriptHasNoGap

LEMMA GapAfterLogged ==
  ASSUME ProxyType, TranscriptHasNoGap, NEW k \in DOMAIN castle, NEW env \in Nat \X Nat,
         castle' = [castle EXCEPT ![k].log = Append(@, env)],
         env[2] > 1 => Stored(castle[k].run, env[1], env[2] - 1)
  PROVE  TranscriptHasNoGap'
<1>1. /\ DOMAIN castle' = DOMAIN castle
      /\ \A c \in DOMAIN castle : castle'[c].run = castle[c].run
      /\ \A c \in DOMAIN castle : c # k => castle'[c].log = castle[c].log
      /\ Len(castle[k].log) \in Nat /\ DOMAIN castle[k].log = 1 .. Len(castle[k].log)
      /\ \A i : i \in DOMAIN castle'[k].log <=> i \in DOMAIN castle[k].log \/ i = Len(castle[k].log) + 1
      /\ \A i \in DOMAIN castle[k].log : castle'[k].log[i] = castle[k].log[i]
      /\ castle'[k].log[Len(castle[k].log) + 1] = env
  BY CastleLogged
<1>2. PICK n \in Nat : n = Len(castle[k].log)
  BY <1>1
<1>3. /\ DOMAIN castle[k].log = 1 .. n /\ castle'[k].log[n + 1] = env
      /\ \A i : i \in DOMAIN castle'[k].log <=> i \in DOMAIN castle[k].log \/ i = n + 1
  BY <1>1, <1>2
<1>4. ASSUME NEW q \in Run, Cardinality(RunsOf(q)') = 1, NEW c \in RunsOf(q)',
             NEW i \in DOMAIN castle'[c].log, castle'[c].log[i][2] > 1
      PROVE  \E j \in 1 .. i - 1 : castle'[c].log[j] = <<castle'[c].log[i][1], castle'[c].log[i][2] - 1>>
  <2>1. RunsOf(q)' = RunsOf(q)
    BY <1>1 DEF RunsOf
  <2>2. Cardinality(RunsOf(q)) = 1 /\ c \in RunsOf(q) /\ c \in DOMAIN castle /\ castle[c].run = q
    BY <1>4, <2>1 DEF RunsOf
  <2>3. \A m \in DOMAIN castle[c].log : castle[c].log[m][2] > 1 =>
          \E j \in 1 .. m - 1 : castle[c].log[j] = <<castle[c].log[m][1], castle[c].log[m][2] - 1>>
    BY <2>2 DEF TranscriptHasNoGap
  <2>4. CASE c # k
    <3>1. castle'[c].log = castle[c].log
      BY <1>1, <2>2, <2>4
    <3> QED BY <1>4, <2>3, <3>1
  <2>5. CASE c = k /\ i \in 1 .. n
    <3>1. castle'[k].log[i] = castle[k].log[i]
      BY <1>1, <1>3, <2>5
    <3>2. PICK j \in 1 .. i - 1 : castle[k].log[j] = <<castle[k].log[i][1], castle[k].log[i][2] - 1>>
      BY <1>3, <1>4, <2>3, <2>5, <3>1
    <3>3. j \in 1 .. n
      BY <2>5
    <3>4. castle'[k].log[j] = castle[k].log[j]
      BY <1>1, <1>3, <3>3
    <3> QED BY <2>5, <3>1, <3>2, <3>4
  <2>6. CASE c = k /\ i = n + 1
    <3>1. castle'[k].log[i] = env
      BY <1>3, <2>6
    <3>2. Stored(q, env[1], env[2] - 1)
      BY <1>4, <2>2, <2>6, <3>1
    <3>3. PICK d \in RunsOf(q) : Holds(d, env[1], env[2] - 1)
      BY <3>2 DEF Stored
    <3>4. IsFiniteSet(RunsOf(q))
      <4>1. Len(castle) \in Nat /\ DOMAIN castle = 1 .. Len(castle)
        BY DEF ProxyType
      <4>2. IsFiniteSet(DOMAIN castle)
        <5>1. 1 \in Int /\ Len(castle) \in Int
          BY <4>1
        <5>2. IsFiniteSet(1 .. Len(castle))
          BY <5>1, FS_Interval
        <5> QED BY <4>1, <5>2
      <4> QED BY <4>2, FS_Subset DEF RunsOf
    <3>5. d = k
      BY <2>2, <2>6, <3>3, <3>4, FS_Singleton
    <3>6. PICK j \in DOMAIN castle[k].log : castle[k].log[j] = <<env[1], env[2] - 1>>
      BY <3>3, <3>5 DEF Holds
    <3>7. castle'[k].log[j] = <<env[1], env[2] - 1>> /\ j \in 1 .. n
      BY <1>1, <1>3, <3>6
    <3>8. j \in 1 .. i - 1
      BY <2>6, <3>7
    <3> QED BY <2>6, <3>1, <3>7, <3>8
  <2> QED BY <1>3, <1>4, <2>4, <2>5, <2>6
<1> QED BY <1>4, Zenon DEF TranscriptHasNoGap

LEMMA RecordedStays ==
  ASSUME LaneRuns, CastleGrows, UNCHANGED stamp
  PROVE  \A r \in Run : Recorded(r)' = Recorded(r)
BY LaneRunStays DEF Recorded

LEMMA RecordedIsOwned ==
  ASSUME PInv, NEW r \in Run, Recorded(r) # 0
  PROVE  CastleFor(r, Recorded(r))
BY LaneRunIsOwned DEF Recorded, PInv, Owned

(* What is stamped, cached and logged stays owned, when castle grows.      *)
LEMMA OwnedStays ==
  ASSUME ProxyType, Owned, CastleGrows, EntriesGrow, UNCHANGED <<stamp, entries>>,
         \A r \in Run : pod'[r] => token'[r],
         \A c \in DOMAIN castle' : \A i \in DOMAIN castle'[c].log :
           castle'[c].log[i][1] \in DOMAIN entries /\ OwnerOf(castle'[c].log[i][1]) = castle'[c].run
  PROVE  Owned'
<1>1. \A r \in Run : stamp[r] # 0 => CastleFor(r, stamp[r])'
  BY GrownHolds DEF Owned
<1>2. \A e \in DOMAIN entries : entries[e].castle # 0 => CastleFor(entries[e].run, entries[e].castle)'
  BY GrownHolds DEF Owned
<1> QED BY <1>1, <1>2 DEF Owned, CastleFor, OwnerOf

(* OnRecorded is about what is recorded before the step, if no step stamps. *)
LEMMA OnRecordedStays ==
  ASSUME PInv, EntriesGrow, CastleGrows, UNCHANGED stamp, faults' = 0 => faults = 0,
         faults = 0 =>
           /\ \A s \in Streams : handler'[s].pc # "off" => handler'[s].open /\ handler'[s].entry \in DOMAIN entries
           /\ \A c \in DOMAIN castle' : castle'[c].log # <<>> =>
                c \in DOMAIN castle /\ c = Recorded(castle[c].run)
           /\ \A e \in DOMAIN entries' : entries'[e].castle # 0 =>
                e \in DOMAIN entries /\ entries'[e].castle = Recorded(entries[e].run)
           /\ \A s \in Streams : handler'[s].pc \in {"forward", "ack"} =>
                handler'[s].run = Recorded(OwnerOf(handler'[s].entry))
           /\ \A s \in Streams : handler'[s].pc \in {"create", "stamp"} =>
                Recorded(OwnerOf(handler'[s].entry)) = 0
  PROVE  OnRecorded'
<1> SUFFICES ASSUME faults' = 0 PROVE OnRecorded'
  BY DEF OnRecorded
<1>1. /\ \A s \in Streams : handler'[s].pc # "off" => handler'[s].open /\ handler'[s].entry \in DOMAIN entries
      /\ \A c \in DOMAIN castle' : castle'[c].log # <<>> =>
           c \in DOMAIN castle /\ c = Recorded(castle[c].run)
      /\ \A e \in DOMAIN entries' : entries'[e].castle # 0 =>
           e \in DOMAIN entries /\ entries'[e].castle = Recorded(entries[e].run)
      /\ \A s \in Streams : handler'[s].pc \in {"forward", "ack"} =>
           handler'[s].run = Recorded(OwnerOf(handler'[s].entry))
      /\ \A s \in Streams : handler'[s].pc \in {"create", "stamp"} =>
           Recorded(OwnerOf(handler'[s].entry)) = 0
  OBVIOUS
<1>2. \A q \in Run : Recorded(q)' = Recorded(q)
  BY RecordedStays DEF PInv
<1>3. \A e \in DOMAIN entries : OwnerOf(e)' = OwnerOf(e) /\ OwnerOf(e) \in Run
  BY GrownHolds, OwnersAreRuns DEF PInv
<1>4. \A c \in DOMAIN castle : castle[c].run \in Run /\ castle'[c].run = castle[c].run
  <2> SUFFICES ASSUME NEW c \in DOMAIN castle PROVE castle[c].run \in Run /\ castle'[c].run = castle[c].run
    OBVIOUS
  <2>1. castle[c] \in CastleRecord
    BY DEF PInv, ProxyType
  <2>2. castle[c].run \in Run
    BY <2>1 DEF CastleRecord
  <2> QED BY <2>2 DEF CastleGrows
<1>5. ASSUME NEW s \in Streams
      PROVE  (/\ handler[s].pc \in {"forward", "ack"} => handler[s].run = Recorded(OwnerOf(handler[s].entry))
              /\ handler[s].pc \in {"create", "stamp"} => Recorded(OwnerOf(handler[s].entry)) = 0)'
  <2>1. PICK h : h = handler'[s]
    OBVIOUS
  <2>2. CASE h.pc = "off"
    BY <2>1, <2>2
  <2>3. CASE h.pc # "off"
    <3>1. PICK q \in Run : q = OwnerOf(h.entry) /\ q = OwnerOf(h.entry)'
      BY <1>1, <1>3, <2>1, <2>3
    <3>2. PICK v : v = Recorded(q) /\ v = Recorded(q)'
      BY <1>2
    <3>3. /\ h.pc \in {"forward", "ack"} => h.run = v
          /\ h.pc \in {"create", "stamp"} => v = 0
      BY <1>1, <2>1, <3>1, <3>2
    <3> QED BY <2>1, <3>1, <3>2, <3>3
  <2> QED BY <2>2, <2>3
<1>6. ASSUME NEW c \in DOMAIN castle', castle'[c].log # <<>>
      PROVE  (c = Recorded(castle[c].run))'
  <2>1. PICK q \in Run : q = castle[c].run /\ q = castle'[c].run
    BY <1>1, <1>4, <1>6
  <2>2. PICK v : v = Recorded(q) /\ v = Recorded(q)'
    BY <1>2
  <2> QED BY <1>1, <1>6, <2>1, <2>2
<1>7. ASSUME NEW e \in DOMAIN entries', entries'[e].castle # 0
      PROVE  (entries[e].castle = Recorded(entries[e].run))'
  <2>1. PICK q \in Run : q = entries[e].run /\ q = entries'[e].run
    BY <1>1, <1>3, <1>7 DEF EntriesGrow, OwnerOf
  <2>2. PICK v : v = Recorded(q) /\ v = Recorded(q)'
    BY <1>2
  <2> QED BY <1>1, <1>7, <2>1, <2>2
<1> QED BY <1>1, <1>5, <1>6, <1>7 DEF OnRecorded

(* Steps that leave the engines, the handlers and castle alone.            *)
LEMMA QuietStep ==
  ASSUME PInv, UNCHANGED <<stamp, entries, live, castle, engine, handler>>, faults' = 0 => faults = 0
  PROVE  /\ CastleGrows /\ EntriesGrow
         /\ LaneRuns' /\ Heard' /\ Served' /\ AckedIsStored' /\ TranscriptHasNoGap' /\ OnRecorded'
<1>1. CastleGrows /\ EntriesGrow
  BY CastleUnchanged, EntriesUnchanged DEF PInv
<1>2. LaneRuns'
  BY <1>1, LaneRunStays DEF PInv
<1>3. Heard'
  BY DEF PInv, Heard, EngineHears, OwnerOf
<1>4. Served'
  BY DEF PInv, Served, HandlerServes, Carries, OwnerOf, Stored, Holds, RunsOf, CastleFor
<1>5. AckedIsStored' /\ TranscriptHasNoGap'
  BY <1>1, AckedStays, GapStays DEF PInv
<1>6. OnRecorded'
  BY DEF PInv, OnRecorded, Recorded, AssignmentRun, OwnerOf
<1> QED BY <1>1, <1>2, <1>3, <1>4, <1>5, <1>6

LEMMA EnrollStep ==
  ASSUME PInv, NEW r \in Run, Enroll(r)
  PROVE  PInv'
<1>1. /\ UNCHANGED <<stamp, entries, live, castle, engine, handler>> /\ (NoFault \/ Fault)
      /\ token' = token \/ token' = [token EXCEPT ![r] = TRUE]
      /\ enrolled' = enrolled \/ enrolled' = enrolled \cup {r}
      /\ pod' = pod \/ (pod' = [pod EXCEPT ![r] = TRUE] /\ token' = [token EXCEPT ![r] = TRUE])
  BY DEF Enroll
<1>2. faults' \in Nat /\ restarts' \in Nat /\ (faults' = 0 => faults = 0)
  BY <1>1, BudgetsCount DEF PInv
<1>3. ProxyType'
  BY <1>1, <1>2 DEF PInv, ProxyType
<1>4. \A q \in Run : pod'[q] => token'[q]
  <2>1. token \in [Run -> BOOLEAN] /\ pod \in [Run -> BOOLEAN] /\ \A q \in Run : pod[q] => token[q]
    BY DEF PInv, ProxyType, Owned
  <2> QED BY <1>1, <2>1
<1>5. Owned'
  BY <1>1, <1>4 DEF PInv, Owned, CastleFor, OwnerOf
<1> QED BY <1>1, <1>2, <1>3, <1>5, QuietStep DEF PInv

-----------------------------------------------------------------------------
(* The engine's calls.                                                     *)
LEMMA NoStreamIsNone == 0 \notin Streams /\ NoStream = 0
BY ProxyAssumption DEF ProxyAssumption, NoStream

LEMMA RegisterStep ==
  ASSUME PInv, NEW r \in Run, RegisterAndCreateRun(r)
  PROVE  PInv'
<1>1. ~Known(r) /\ UNCHANGED <<token, stamp, enrolled, castle, pod, handler>> /\ (NoFault \/ Fault)
  BY DEF RegisterAndCreateRun, annotations
<1>2. faults' \in Nat /\ restarts' \in Nat /\ (faults' = 0 => faults = 0)
  BY <1>1, BudgetsCount DEF PInv
<1>3. CASE UNCHANGED <<entries, live, engine>>
  <2>1. ProxyType' /\ Owned'
    BY <1>1, <1>2, <1>3 DEF PInv, ProxyType, Owned, CastleFor, OwnerOf
  <2> QED BY <1>1, <1>2, <1>3, <2>1, QuietStep DEF PInv
<1>4. CASE /\ entries' = Append(entries, [run |-> r, castle |-> 0])
           /\ live' = live \cup {Len(entries')}
           /\ engine' = [engine EXCEPT ![r] = [FreshEngine EXCEPT !.entry = Len(entries')]]
  <2>1. PICK e : e = Len(entries')
    OBVIOUS
  <2>2. /\ EntriesGrow /\ e \in Nat /\ e # 0 /\ e \notin DOMAIN entries
        /\ \A d : d \in DOMAIN entries' <=> d \in DOMAIN entries \/ d = e
        /\ \A d \in DOMAIN entries : entries'[d] = entries[d]
        /\ entries'[e].run = r /\ entries'[e].castle = 0
    BY <1>4, <2>1, EntryMinted DEF PInv
  <2>3. CastleGrows
    BY <1>1, CastleUnchanged DEF PInv
  <2>4. PICK g \in EngineRecord : /\ engine' = [engine EXCEPT ![r] = g]
                                  /\ g.entry = e /\ g.acked = 0 /\ g.stream = NoStream
    <3>1. PICK g : g = [FreshEngine EXCEPT !.entry = e]
      OBVIOUS
    <3>2. g \in EngineRecord /\ g.entry = e /\ g.acked = 0 /\ g.stream = NoStream
      BY <2>2, <3>1 DEF FreshEngine, EngineRecord
    <3>3. engine' = [engine EXCEPT ![r] = g]
      BY <1>4, <2>1, <3>1
    <3> QED BY <3>2, <3>3
  <2>5. /\ engine' \in [Run -> EngineRecord] /\ engine'[r] = g
        /\ \A q \in Run : q # r => engine'[q] = engine[q]
    BY <2>4 DEF PInv, ProxyType
  <2>6. ProxyType'
    <3>1. live' \subseteq DOMAIN entries'
      BY <1>4, <2>1, <2>2 DEF PInv, ProxyType
    <3> QED BY <1>1, <1>2, <2>2, <2>5, <3>1 DEF PInv, ProxyType, EntriesGrow
  <2>7. Owned'
    <3>1. \A d \in DOMAIN entries' : entries'[d].castle # 0 => CastleFor(entries'[d].run, entries'[d].castle)
      BY <2>2 DEF PInv, Owned
    <3>2. \A c \in DOMAIN castle : \A i \in DOMAIN castle[c].log :
            castle[c].log[i][1] \in DOMAIN entries' /\ entries'[castle[c].log[i][1]].run = castle[c].run
      BY <2>2 DEF PInv, Owned, OwnerOf
    <3> QED BY <1>1, <3>1, <3>2 DEF PInv, Owned, CastleFor, OwnerOf
  <2>8. engine[r].stream = NoStream
    BY <1>1 DEF PInv, Heard, EngineHears, Known
  <2>9. Heard'
    <3> SUFFICES ASSUME NEW q \in Run PROVE EngineHears(q)'
      BY DEF Heard
    <3>1. CASE q = r
      <4>1. Events[r] \in Nat
        BY ProxyAssumption DEF ProxyAssumption
      <4>2. 0 <= Events[r]
        BY <4>1
      <4> QED BY <2>2, <2>4, <2>5, <3>1, <4>2 DEF EngineHears, OwnerOf
    <3>2. CASE q # r
      <4>1. engine'[q] = engine[q] /\ live \subseteq live'
        BY <1>4, <2>5, <3>2
      <4> QED BY <1>1, <2>2, <4>1, EngineStays DEF PInv, Heard, EngineHears
    <3> QED BY <3>1, <3>2
  <2>10. Served'
    <3> SUFFICES ASSUME NEW s \in Streams PROVE HandlerServes(s)'
      BY DEF Served
    <3>1. handler[s].open => OwnerOf(handler[s].entry) # r
      BY <2>8, NoStreamIsNone DEF PInv, Served, HandlerServes
    <3>2. handler[s].open => OwnerOf(handler[s].entry) \in Run
      BY OwnersAreRuns DEF PInv, Served, HandlerServes
    <3> QED BY <1>1, <2>2, <2>3, <2>5, <3>1, <3>2, HandlerStays DEF PInv, Served
  <2>11. LaneRuns' /\ TranscriptHasNoGap'
    BY <1>1, <2>3, LaneRunStays, GapStays DEF PInv
  <2>12. AckedIsStored'
    <3>1. \A q \in Run : engine'[q].acked = 0 \/ (engine'[q].acked = engine[q].acked /\ engine'[q].entry = engine[q].entry)
      BY <2>4, <2>5
    <3> QED BY <2>2, <2>3, <3>1, AckedStays DEF PInv
  <2>13. OnRecorded'
    <3>1. \A d \in DOMAIN entries' : entries'[d].castle # 0 => d \in DOMAIN entries /\ entries'[d] = entries[d]
      BY <2>2
    <3>2. \A s \in Streams : handler[s].pc # "off" => handler[s].entry \in DOMAIN entries
      BY DEF PInv, Served, HandlerServes
    <3> QED BY <1>1, <1>2, <2>2, <2>3, <3>1, <3>2, OnRecordedStays DEF PInv, OnRecorded
  <2> QED BY <2>6, <2>7, <2>9, <2>10, <2>11, <2>12, <2>13 DEF PInv
<1> QED BY <1>3, <1>4 DEF RegisterAndCreateRun

LEMMA OpenStep ==
  ASSUME PInv, NEW r \in Run, NEW s \in Streams, OpenStream(r, s)
  PROVE  PInv'
<1>1. /\ Known(r) /\ engine[r].stream = NoStream /\ handler[s].pc = "off"
      /\ UNCHANGED <<token, stamp, enrolled, entries, live, castle, pod, faults, restarts>>
  BY DEF OpenStream, annotations, tables, budgets
<1>2. PICK e : e = engine[r].entry
  OBVIOUS
<1>3. e \in live /\ e \in DOMAIN entries /\ OwnerOf(e) = r /\ e \in Nat /\ e # 0
  <2>1. e \in live /\ e \in DOMAIN entries
    BY <1>1, <1>2 DEF Known, PInv, ProxyType
  <2>2. e \in Nat /\ e # 0
    <3>1. Len(entries) \in Nat /\ DOMAIN entries = 1 .. Len(entries)
      BY DEF PInv, ProxyType
    <3> QED BY <2>1, <3>1
  <2> QED BY <1>2, <2>1, <2>2 DEF PInv, Heard, EngineHears
<1>4. PICK h \in HandlerRecord : /\ handler' = [handler EXCEPT ![s] = h]
                                 /\ h.pc = "receive" /\ h.entry = e /\ h.open = TRUE /\ h.run = 0
  <2>1. PICK h : h = [Off EXCEPT !.pc = "receive", !.entry = e, !.open = TRUE]
    OBVIOUS
  <2>2. <<0, 0>> \in Nat \X Nat
    OBVIOUS
  <2>3. h \in HandlerRecord /\ h.pc = "receive" /\ h.entry = e /\ h.open = TRUE /\ h.run = 0
    BY <1>3, <2>1, <2>2 DEF Off, HandlerRecord
  <2>4. handler' = [handler EXCEPT ![s] = h]
    BY <1>2, <2>1 DEF OpenStream, Step
  <2> QED BY <2>3, <2>4
<1>5. PICK g \in EngineRecord : /\ engine' = [engine EXCEPT ![r] = g]
                                /\ g.entry = e /\ g.acked = engine[r].acked /\ g.stream = s
  <2>1. PICK g : g = [engine[r] EXCEPT !.stream = s]
    OBVIOUS
  <2>2. engine[r] \in EngineRecord
    BY DEF PInv, ProxyType
  <2>3. g \in EngineRecord /\ g.entry = e /\ g.acked = engine[r].acked /\ g.stream = s
    BY <1>2, <2>1, <2>2 DEF EngineRecord
  <2>4. engine' = [engine EXCEPT ![r] = g]
    BY <2>1 DEF OpenStream
  <2> QED BY <2>3, <2>4
<1>6. /\ handler' \in [Streams -> HandlerRecord] /\ handler'[s] = h
      /\ \A t \in Streams : t # s => handler'[t] = handler[t]
  BY <1>4 DEF PInv, ProxyType
<1>7. /\ engine' \in [Run -> EngineRecord] /\ engine'[r] = g
      /\ \A q \in Run : q # r => engine'[q] = engine[q]
  BY <1>5 DEF PInv, ProxyType
<1>8. CastleGrows /\ EntriesGrow
  BY <1>1, CastleUnchanged, EntriesUnchanged DEF PInv
<1>9. ProxyType'
  BY <1>1, <1>6, <1>7 DEF PInv, ProxyType
<1>10. Owned'
  BY <1>1 DEF PInv, Owned, CastleFor, OwnerOf
<1>11. Heard'
  <2> SUFFICES ASSUME NEW q \in Run PROVE EngineHears(q)'
    BY DEF Heard
  <2>1. CASE q = r
    <3>1. g.acked <= Events[r] /\ OwnerOf(e)' = r /\ e \in DOMAIN entries' /\ e \in live'
      BY <1>1, <1>3, <1>5 DEF PInv, Heard, EngineHears, OwnerOf
    <3>2. h.pc # "off" /\ h.open /\ h.entry = e
      BY <1>4
    <3> QED BY <1>3, <1>5, <1>6, <1>7, <2>1, <3>1, <3>2 DEF EngineHears
  <2>2. CASE q # r
    <3>1. engine[q].stream # s
      BY <1>1, NoStreamIsNone DEF PInv, Heard, EngineHears
    <3>2. engine[q].stream \in Streams \cup {NoStream}
      BY DEF PInv, ProxyType, EngineRecord
    <3>3. engine[q].stream # NoStream => handler'[engine[q].stream] = handler[engine[q].stream]
      BY <1>6, <3>1, <3>2
    <3>4. engine'[q] = engine[q] /\ live \subseteq live'
      BY <1>1, <1>7, <2>2
    <3> QED BY <1>8, <3>3, <3>4, EngineStays DEF PInv, Heard, EngineHears
  <2> QED BY <2>1, <2>2
<1>12. Served'
  <2> SUFFICES ASSUME NEW t \in Streams PROVE HandlerServes(t)'
    BY DEF Served
  <2>1. CASE t = s
    <3>1. e \in DOMAIN entries' /\ OwnerOf(e)' = r
      BY <1>1, <1>3 DEF OwnerOf
    <3>2. (engine[OwnerOf(e)].stream = s /\ engine[OwnerOf(e)].entry = e)'
      BY <1>5, <1>7, <3>1
    <3> QED BY <1>4, <1>6, <2>1, <3>1, <3>2 DEF HandlerServes
  <2>2. CASE t # s
    <3>1. handler'[t] = handler[t]
      BY <1>6, <2>2
    <3>2. handler[t].open => OwnerOf(handler[t].entry) # r /\ OwnerOf(handler[t].entry) \in Run
      BY <1>1, NoStreamIsNone, OwnersAreRuns DEF PInv, Served, HandlerServes
    <3> QED BY <1>7, <1>8, <3>1, <3>2, HandlerStays DEF PInv, Served
  <2> QED BY <2>1, <2>2
<1>13. LaneRuns' /\ TranscriptHasNoGap'
  BY <1>1, <1>8, LaneRunStays, GapStays DEF PInv
<1>14. AckedIsStored'
  <2>1. \A q \in Run : engine'[q].acked = engine[q].acked /\ engine'[q].entry = engine[q].entry
    BY <1>2, <1>5, <1>7
  <2> QED BY <1>8, <2>1, AckedStays DEF PInv
<1>15. OnRecorded'
  <2>1. \A t \in Streams : handler[t].pc # "off" => handler[t].entry \in DOMAIN entries
    BY DEF PInv, Served, HandlerServes
  <2>2. faults = 0 => \A t \in Streams :
          handler'[t].pc # "off" => handler'[t].open /\ handler'[t].entry \in DOMAIN entries
    BY <1>3, <1>4, <1>6, <2>1 DEF PInv, OnRecorded
  <2>3. \A t \in Streams : handler'[t].pc \in {"forward", "ack", "create", "stamp"} => handler'[t] = handler[t]
    BY <1>4, <1>6
  <2> QED BY <1>1, <1>8, <2>2, <2>3, OnRecordedStays DEF PInv, OnRecorded
<1> QED BY <1>9, <1>10, <1>11, <1>12, <1>13, <1>14, <1>15 DEF PInv

(* An engine that is gone, or whose stream is: its handler has no client.  *)
LEMMA StreamLost ==
  ASSUME PInv, NEW r \in Run, NEW g \in EngineRecord, engine' = [engine EXCEPT ![r] = g],
         g.stream = NoStream,
         (g.entry = engine[r].entry /\ g.acked = engine[r].acked) \/ (g.entry = 0 /\ g.acked = 0),
         handler' \in [Streams -> HandlerRecord],
         \A s \in Streams : handler'[s] = IF s = engine[r].stream THEN [handler[s] EXCEPT !.open = FALSE]
                                          ELSE handler[s],
         UNCHANGED <<annotations, tables, castle, pod>>, Fault
  PROVE  PInv'
<1>1. UNCHANGED <<token, stamp, enrolled, entries, live, castle, pod>>
  BY DEF annotations, tables
<1>2. faults' \in Nat /\ restarts' \in Nat /\ faults' # 0
  BY BudgetsCount DEF PInv
<1>3. /\ engine' \in [Run -> EngineRecord] /\ engine'[r] = g
      /\ \A q \in Run : q # r => engine'[q] = engine[q]
  BY DEF PInv, ProxyType
<1>4. CastleGrows /\ EntriesGrow
  BY <1>1, CastleUnchanged, EntriesUnchanged DEF PInv
<1>5. ProxyType' /\ Owned'
  BY <1>1, <1>2, <1>3 DEF PInv, ProxyType, Owned, CastleFor, OwnerOf
<1>6. Heard'
  <2> SUFFICES ASSUME NEW q \in Run PROVE EngineHears(q)'
    BY DEF Heard
  <2>1. CASE q = r
    <3>1. Events[r] \in Nat
      BY ProxyAssumption DEF ProxyAssumption
    <3>2. 0 <= Events[r]
      BY <3>1
    <3>3. EngineHears(r)
      BY DEF PInv, Heard
    <3> QED BY <1>1, <1>3, <2>1, <3>2, <3>3 DEF EngineHears, OwnerOf
  <2>2. CASE q # r
    <3>1. engine[q].stream \in Streams \cup {NoStream}
      BY DEF PInv, ProxyType, EngineRecord
    <3>2. engine[q].stream # NoStream => engine[q].stream # engine[r].stream
      <4>1. EngineHears(q) /\ EngineHears(r)
        BY DEF PInv, Heard
      <4>2. engine[q].stream # NoStream /\ engine[q].stream = engine[r].stream => engine[q].entry = engine[r].entry
        BY <4>1 DEF EngineHears
      <4>3. engine[q].stream # NoStream => engine[q].entry # 0
        <5>1. Len(entries) \in Nat /\ DOMAIN entries = 1 .. Len(entries) /\ live \subseteq DOMAIN entries
          BY DEF PInv, ProxyType
        <5> QED BY <4>1, <5>1 DEF EngineHears
      <4>4. engine[q].entry # engine[r].entry \/ engine[q].entry = 0
        BY <2>2, <4>1 DEF EngineHears
      <4> QED BY <4>2, <4>3, <4>4
    <3>3. engine[q].stream # NoStream => handler'[engine[q].stream] = handler[engine[q].stream]
      BY <3>1, <3>2
    <3>4. engine'[q] = engine[q] /\ live \subseteq live'
      BY <1>1, <1>3, <2>2
    <3> QED BY <1>4, <3>3, <3>4, EngineStays DEF PInv, Heard, EngineHears
  <2> QED BY <2>1, <2>2
<1>7. Served'
  <2> SUFFICES ASSUME NEW s \in Streams PROVE HandlerServes(s)'
    BY DEF Served
  <2>1. CASE s = engine[r].stream
    <3>1. PICK h \in HandlerRecord : h = handler'[s]
      OBVIOUS
    <3>2. handler[s] \in HandlerRecord
      BY DEF PInv, ProxyType
    <3>3. /\ h.open = FALSE /\ h.pc = handler[s].pc /\ h.entry = handler[s].entry /\ h.env = handler[s].env
          /\ h.target = handler[s].target /\ h.run = handler[s].run
      BY <2>1, <3>1, <3>2 DEF HandlerRecord
    <3>4. HandlerServes(s)
      BY DEF PInv, Served
    <3>5. h.pc # "off" => h.entry \in DOMAIN entries'
      BY <1>1, <3>3, <3>4 DEF HandlerServes
    <3>6. h.pc \notin {"off", "receive"} => Carries(h)
      BY <3>3, <3>4 DEF HandlerServes, Carries
    <3>7. h.pc \notin {"off", "receive"} => Carries(h)'
      <4> SUFFICES ASSUME h.pc \notin {"off", "receive"} PROVE Carries(h)'
        OBVIOUS
      <4>1. h.env[2] \in Nat
        BY DEF HandlerRecord
      <4>2. h.entry \in DOMAIN entries
        BY <1>1, <3>5
      <4>3. h.pc = "ack" => h.run \in DOMAIN castle
        BY <3>6 DEF Carries, CastleFor
      <4> QED BY <1>4, <3>3, <3>6, <4>1, <4>2, <4>3, CarriesStays
    <3>8. h.pc \in {"off", "receive", "read", "create"} => h.run = 0
      BY <3>3, <3>4 DEF HandlerServes
    <3> QED BY <3>1, <3>3, <3>5, <3>7, <3>8 DEF HandlerServes
  <2>2. CASE s # engine[r].stream
    <3>1. handler'[s] = handler[s]
      BY <2>2
    <3>2. handler[s].open => OwnerOf(handler[s].entry) # r /\ OwnerOf(handler[s].entry) \in Run
      BY <2>2, OwnersAreRuns DEF PInv, Served, HandlerServes
    <3> QED BY <1>3, <1>4, <3>1, <3>2, HandlerStays DEF PInv, Served
  <2> QED BY <2>1, <2>2
<1>8. LaneRuns' /\ TranscriptHasNoGap'
  BY <1>1, <1>4, LaneRunStays, GapStays DEF PInv
<1>9. AckedIsStored'
  <2>1. \A q \in Run : engine'[q].acked = 0 \/ (engine'[q].acked = engine[q].acked /\ engine'[q].entry = engine[q].entry)
    BY <1>3
  <2> QED BY <1>4, <2>1, AckedStays DEF PInv
<1>10. OnRecorded'
  BY <1>2 DEF OnRecorded
<1> QED BY <1>5, <1>6, <1>7, <1>8, <1>9, <1>10 DEF PInv

LEMMA EngineRestartsStep ==
  ASSUME PInv, NEW r \in Run, EngineRestarts(r)
  PROVE  PInv'
<1>1. PICK g : g = FreshEngine
  OBVIOUS
<1>2. g \in EngineRecord /\ g.stream = NoStream /\ g.entry = 0 /\ g.acked = 0
  BY <1>1 DEF FreshEngine, EngineRecord
<1>3. engine' = [engine EXCEPT ![r] = g]
  BY <1>1 DEF EngineRestarts
<1>4. \A s \in Streams : handler'[s] = IF s = engine[r].stream THEN [handler[s] EXCEPT !.open = FALSE]
                                       ELSE handler[s]
  BY DEF EngineRestarts
<1>5. handler' \in [Streams -> HandlerRecord]
  <2>1. ASSUME NEW s \in Streams PROVE handler'[s] \in HandlerRecord
    <3>1. handler[s] \in HandlerRecord
      BY DEF PInv, ProxyType
    <3>2. [handler[s] EXCEPT !.open = FALSE] \in HandlerRecord
      BY <3>1 DEF HandlerRecord
    <3> QED BY <1>4, <3>1, <3>2
  <2>2. handler' = [s \in Streams |-> handler'[s]]
    BY DEF EngineRestarts
  <2> QED BY <2>1, <2>2
<1>6. UNCHANGED <<annotations, tables, castle, pod>> /\ Fault
  BY DEF EngineRestarts
<1> QED BY <1>2, <1>3, <1>4, <1>5, <1>6, StreamLost

LEMMA DisconnectStep ==
  ASSUME PInv, NEW r \in Run, Disconnect(r)
  PROVE  PInv'
<1>1. engine \in [Run -> EngineRecord] /\ engine[r] \in EngineRecord /\ handler \in [Streams -> HandlerRecord]
  BY DEF PInv, ProxyType
<1>2. PICK s0 \in Streams : s0 = engine[r].stream
  BY <1>1 DEF Disconnect, EngineRecord
<1>3. PICK g : g = [engine[r] EXCEPT !.stream = NoStream]
  OBVIOUS
<1>4. g \in EngineRecord /\ g.stream = NoStream /\ g.entry = engine[r].entry /\ g.acked = engine[r].acked
  BY <1>1, <1>3 DEF EngineRecord
<1>5. engine' = [engine EXCEPT ![r] = g]
  BY <1>3 DEF Disconnect
<1>6. PICK h : h = [handler[s0] EXCEPT !.open = FALSE]
  OBVIOUS
<1>7. h \in HandlerRecord
  <2>1. handler[s0] \in HandlerRecord
    BY <1>1
  <2> QED BY <1>6, <2>1 DEF HandlerRecord
<1>8. handler' = [handler EXCEPT ![s0] = h]
  BY <1>2, <1>6 DEF Disconnect
<1>9. /\ handler' \in [Streams -> HandlerRecord] /\ handler'[s0] = h
      /\ \A s \in Streams : s # s0 => handler'[s] = handler[s]
  BY <1>1, <1>7, <1>8
<1>10. \A s \in Streams : handler'[s] = IF s = engine[r].stream THEN [handler[s] EXCEPT !.open = FALSE]
                                        ELSE handler[s]
  BY <1>2, <1>6, <1>9
<1>11. UNCHANGED <<annotations, tables, castle, pod>> /\ Fault
  BY DEF Disconnect
<1> QED BY <1>4, <1>5, <1>9, <1>10, <1>11, StreamLost

(* A handler that ends, and whatever castle has made of its last call.     *)
LEMMA EndStep ==
  ASSUME PInv, NEW s \in Streams, End(s), engine' = Hangup(s) \/ (engine' = engine /\ ~handler[s].open),
         CastleGrows, UNCHANGED <<annotations, tables, pod>>,
         faults' \in Nat, restarts' \in Nat, faults' # 0,
         TranscriptHasNoGap',
         \A c \in DOMAIN castle' : \A i \in DOMAIN castle'[c].log :
           castle'[c].log[i][1] \in DOMAIN entries /\ OwnerOf(castle'[c].log[i][1]) = castle'[c].run
  PROVE  PInv'
<1>1. UNCHANGED <<token, stamp, enrolled, entries, live, pod>>
  BY DEF annotations, tables
<1>2. EntriesGrow
  BY <1>1, EntriesUnchanged DEF PInv
<1>3. /\ Heard' /\ Served'
      /\ handler' \in [Streams -> HandlerRecord] /\ engine' \in [Run -> EngineRecord]
      /\ \A r \in Run : engine'[r].acked = engine[r].acked /\ engine'[r].entry = engine[r].entry
  BY <1>1, <1>2, EndKeeps DEF PInv
<1>4. ProxyType'
  BY <1>1, <1>3 DEF PInv, ProxyType, CastleGrows
<1>5. Owned'
  <2>1. \A r \in Run : pod'[r] => token'[r]
    BY <1>1 DEF PInv, Owned
  <2> QED BY <1>1, <1>2, <2>1, OwnedStays DEF PInv
<1>6. LaneRuns' /\ AckedIsStored'
  BY <1>2, <1>3, LaneRunStays, AckedStays DEF PInv
<1>7. OnRecorded'
  BY DEF OnRecorded
<1> QED BY <1>3, <1>4, <1>5, <1>6, <1>7 DEF PInv

(* The same with castle's runs as they were.                               *)
LEMMA EndsAlone ==
  ASSUME PInv, NEW s \in Streams, End(s), engine' = Hangup(s) \/ (engine' = engine /\ ~handler[s].open),
         UNCHANGED <<annotations, tables, castle, pod>>, Fault \/ (NoFault /\ ~handler[s].open /\ handler[s].pc # "off")
  PROVE  PInv'
<1>1. faults' \in Nat /\ restarts' \in Nat /\ (faults' = 0 => faults = 0) /\ (Fault => faults' # 0)
  BY BudgetsCount DEF PInv
<1>2. faults' # 0
  BY <1>1 DEF PInv, OnRecorded
<1>3. CastleGrows /\ TranscriptHasNoGap'
  BY CastleUnchanged, GapStays DEF PInv
<1>4. \A c \in DOMAIN castle' : \A i \in DOMAIN castle'[c].log :
        castle'[c].log[i][1] \in DOMAIN entries /\ OwnerOf(castle'[c].log[i][1]) = castle'[c].run
  BY DEF PInv, Owned
<1> QED BY <1>1, <1>2, <1>3, <1>4, EndStep

LEMMA EndOrphanStep ==
  ASSUME PInv, NEW s \in Streams, EndOrphan(s)
  PROVE  PInv'
<1>1. /\ handler[s].pc # "off" /\ ~handler[s].open /\ End(s) /\ engine' = engine
      /\ UNCHANGED <<annotations, tables, castle, pod>> /\ NoFault
  BY DEF EndOrphan, NoFault
<1> QED BY <1>1, EndsAlone

LEMMA ReceiveStep ==
  ASSUME PInv, NEW r \in Run, NEW s \in Streams, Receive(r, s)
  PROVE  PInv'
<1>1. /\ engine[r].stream = s /\ handler[s].pc = "receive" /\ handler[s].open /\ engine[r].acked < Events[r]
      /\ UNCHANGED <<annotations, tables, castle, pod>>
  BY DEF Receive
<1>2. PICK e \in live :
        /\ IF e = engine[r].entry THEN NoFault ELSE Fault
        /\ IF e \in live /\ OwnsRun(e, handler[s])
           THEN /\ Step(s, [handler[s] EXCEPT !.env = <<handler[s].entry, engine[r].acked + 1>>,
                                     !.target = e, !.run = entries[e].castle,
                                     !.pc = IF entries[e].castle # 0 THEN "forward" ELSE "read"])
                /\ UNCHANGED engine
           ELSE End(s) /\ engine' = Hangup(s)
  BY DEF Receive
<1>3. UNCHANGED <<token, stamp, enrolled, entries, live, castle, pod>>
  BY <1>1 DEF annotations, tables
<1>4. CastleGrows /\ EntriesGrow
  BY <1>3, CastleUnchanged, EntriesUnchanged DEF PInv
<1>5. r \in Run /\ s # NoStream /\ EngineHears(r) /\ HandlerServes(s)
  BY NoStreamIsNone DEF PInv, Heard, Served
<1>6. /\ handler[s].entry = engine[r].entry /\ engine[r].entry \in live /\ engine[r].entry \in DOMAIN entries
      /\ engine[r].entry # 0 /\ OwnerOf(engine[r].entry) = r
  <2>1. Len(entries) \in Nat /\ DOMAIN entries = 1 .. Len(entries) /\ live \subseteq DOMAIN entries
    BY DEF PInv, ProxyType
  <2> QED BY <1>1, <1>5, <2>1 DEF EngineHears
<1>7. CASE e = handler[s].entry
  <2>1. PICK h \in HandlerRecord : h = handler[s]
    BY DEF PInv, ProxyType
  <2>2. e = engine[r].entry /\ h.entry = e /\ e \in DOMAIN entries /\ e \in Nat /\ OwnerOf(e) = r
    BY <1>6, <1>7, <2>1 DEF HandlerRecord
  <2>3. PICK a \in Nat : a = engine[r].acked /\ a + 1 \in 1 .. Events[r]
    <3>1. engine[r] \in EngineRecord
      BY DEF PInv, ProxyType
    <3>2. engine[r].acked \in Nat /\ Events[r] \in Nat
      BY <3>1, ProxyAssumption DEF EngineRecord, ProxyAssumption
    <3> QED BY <1>1, <3>2
  <2>4. PICK c \in Nat : c = entries[e].castle
    BY <2>2, OwnersAreRuns DEF PInv
  <2>5. PICK g : g = [h EXCEPT !.env = <<e, a + 1>>, !.target = e, !.run = c,
                               !.pc = IF c # 0 THEN "forward" ELSE "read"]
    OBVIOUS
  <2>6. Step(s, g) /\ UNCHANGED engine /\ NoFault
    BY <1>2, <1>7, <2>1, <2>2, <2>3, <2>4, <2>5 DEF OwnsRun
  <2>7. <<e, a + 1>> \in Nat \X Nat
    BY <2>2
  <2>8. /\ g \in HandlerRecord /\ g.entry = e /\ g.env = <<e, a + 1>> /\ g.target = e /\ g.run = c
        /\ g.pc = (IF c # 0 THEN "forward" ELSE "read") /\ g.open = h.open
    BY <2>2, <2>5, <2>7 DEF HandlerRecord
  <2>9. g.env[2] = a + 1
    BY <2>8
  <2>10. Carries(g)
    <3>1. a + 1 > 1 => Stored(r, e, a)
      <4>1. \A n \in 1 .. a : \E d \in RunsOf(r) : Holds(d, e, n)
        BY <2>2, <2>3 DEF PInv, AckedIsStored
      <4>2. a + 1 > 1 => a \in 1 .. a
        OBVIOUS
      <4> QED BY <4>1, <4>2 DEF Stored
    <3>2. c # 0 => CastleFor(r, c)
      BY <2>2, <2>4 DEF PInv, Owned, OwnerOf
    <3>3. g.pc \in {"stamp", "forward", "ack"} => c # 0 /\ g.pc # "ack"
      BY <2>8
    <3>4. g.env[2] - 1 = a /\ g.env = <<g.entry, g.env[2]>>
      BY <2>8, <2>9
    <3>5. OwnerOf(g.entry) = r /\ g.target = g.entry /\ g.env[2] \in 1 .. Events[r]
      BY <2>2, <2>3, <2>8, <2>9
    <3>6. g.env[2] > 1 => Stored(r, g.entry, g.env[2] - 1)
      BY <2>8, <2>9, <3>1, <3>4
    <3> QED BY <2>3, <2>8, <3>2, <3>3, <3>4, <3>5, <3>6 DEF Carries
  <2>11. Carries(g)'
    <3>1. g.entry \in DOMAIN entries /\ g.env[2] \in Nat /\ g.pc # "ack"
      BY <2>2, <2>8, <2>9
    <3> QED BY <1>4, <2>6, <2>10, <3>1, CarriesStays
  <2>12. /\ Heard' /\ Served' /\ handler' \in [Streams -> HandlerRecord]
         /\ handler'[s] = g /\ \A t \in Streams : t # s => handler'[t] = handler[t]
    <3>1. g.pc # "off" /\ (g.pc \in {"receive", "read", "create"} => g.run = 0)
      BY <2>8
    <3>2. handler[s].pc # "off" /\ g.entry = handler[s].entry /\ g.open = handler[s].open
      BY <1>1, <2>1, <2>2, <2>8
    <3> QED BY <1>3, <1>4, <2>6, <2>8, <2>11, <3>1, <3>2, StepKeeps DEF PInv
  <2>13. ProxyType' /\ Owned' /\ UNCHANGED <<faults, restarts>>
    <3>1. UNCHANGED <<faults, restarts>>
      BY <2>6 DEF NoFault, budgets
    <3> QED BY <1>3, <2>6, <2>12, <3>1 DEF PInv, ProxyType, Owned, CastleFor, OwnerOf
  <2>14. LaneRuns' /\ TranscriptHasNoGap' /\ AckedIsStored'
    BY <1>3, <1>4, <2>6, LaneRunStays, GapStays, AckedStays DEF PInv
  <2>15. OnRecorded'
    <3>1. \A t \in Streams : handler[t].pc # "off" => handler[t].entry \in DOMAIN entries
      BY DEF PInv, Served, HandlerServes
    <3>2. faults = 0 => \A t \in Streams :
            handler'[t].pc # "off" => handler'[t].open /\ handler'[t].entry \in DOMAIN entries
      BY <1>1, <2>1, <2>2, <2>8, <2>12, <3>1 DEF PInv, OnRecorded
    <3>3. faults = 0 /\ c # 0 => c = Recorded(r)
      BY <2>2, <2>4 DEF PInv, OnRecorded, OwnerOf
    <3>4. faults = 0 => \A t \in Streams : handler'[t].pc \in {"forward", "ack"} =>
            handler'[t].run = Recorded(OwnerOf(handler'[t].entry))
      BY <2>2, <2>8, <2>12, <3>3 DEF PInv, OnRecorded
    <3>5. faults = 0 => \A t \in Streams : handler'[t].pc \in {"create", "stamp"} =>
            Recorded(OwnerOf(handler'[t].entry)) = 0
      BY <2>8, <2>12 DEF PInv, OnRecorded
    <3> QED BY <1>3, <1>4, <2>13, <3>2, <3>4, <3>5, OnRecordedStays DEF PInv, OnRecorded
  <2> QED BY <2>12, <2>13, <2>14, <2>15 DEF PInv
<1>8. CASE e # handler[s].entry
  <2>1. End(s) /\ engine' = Hangup(s) /\ Fault
    BY <1>2, <1>6, <1>8 DEF OwnsRun
  <2> QED BY <1>1, <2>1, EndsAlone
<1> QED BY <1>7, <1>8

-----------------------------------------------------------------------------
(* The calls of a handler.                                                 *)
LEMMA Carried ==
  ASSUME PInv, NEW s \in Streams, handler[s].pc \notin {"off", "receive"}
  PROVE  /\ handler[s] \in HandlerRecord /\ handler[s].entry \in DOMAIN entries /\ handler[s].target = handler[s].entry
         /\ OwnerOf(handler[s].entry) \in Run /\ handler[s].env \in Nat \X Nat /\ handler[s].env[2] \in Nat
         /\ Carries(handler[s])
<1>1. handler[s] \in HandlerRecord /\ HandlerServes(s)
  BY DEF PInv, ProxyType, Served
<1>2. handler[s].env \in Nat \X Nat /\ handler[s].env[2] \in Nat
  BY <1>1 DEF HandlerRecord
<1>3. handler[s].entry \in DOMAIN entries /\ Carries(handler[s])
  BY <1>1 DEF HandlerServes
<1> QED BY <1>1, <1>2, <1>3, OwnersAreRuns DEF Carries, PInv

\* A handler at its next call carries what it carried.
LEMMA CarriesOn ==
  ASSUME CastleGrows, EntriesGrow, UNCHANGED engine, NEW h, h.entry \in DOMAIN entries, h.env[2] \in Nat, Carries(h),
         NEW g, g.entry = h.entry, g.env = h.env, g.target = h.target, g.open = h.open,
         g.pc \in {"stamp", "forward", "ack"} => CastleFor(OwnerOf(h.entry), g.run)',
         g.pc = "ack" => Holds(g.run, h.entry, h.env[2])'
  PROVE  Carries(g)'
<1>1. OwnerOf(h.entry)' = OwnerOf(h.entry)
  BY GrownHolds
<1>2. PICK r : r = OwnerOf(h.entry) /\ r = OwnerOf(h.entry)'
  BY <1>1
<1>3. h.env[2] > 1 => Stored(r, h.entry, h.env[2] - 1)'
  BY <1>2, GrownHolds DEF Carries
<1>4. /\ h.target = h.entry /\ h.env = <<h.entry, h.env[2]>> /\ h.env[2] \in 1 .. Events[r]
      /\ h.open => engine'[r].acked = h.env[2] - 1
  BY <1>2 DEF Carries
<1>5. g.pc \in {"stamp", "forward", "ack"} => CastleFor(r, g.run)'
  BY <1>2
<1> QED BY <1>2, <1>3, <1>4, <1>5 DEF Carries

LEMMA ReadRunStep ==
  ASSUME PInv, NEW s \in Streams, ReadRun(s)
  PROVE  PInv'
<1>1. /\ handler[s].pc = "read" /\ UNCHANGED <<token, stamp, enrolled, live, castle, pod>>
      /\ UNCHANGED annotations
  BY DEF ReadRun, annotations
<1>2. PICK h \in HandlerRecord :
        /\ h = handler[s] /\ h.entry \in DOMAIN entries /\ h.target = h.entry /\ OwnerOf(h.entry) \in Run
        /\ h.env \in Nat \X Nat /\ h.env[2] \in Nat /\ Carries(h)
  BY <1>1, Carried
<1>3. PICK r \in Run : r = OwnerOf(h.entry)
  BY <1>2
<1>4. PICK c : c = Recorded(r)
  OBVIOUS
<1>5. \/ /\ NoFault /\ UNCHANGED engine
         /\ IF c # 0 THEN Cache(h.target, c) /\ Step(s, [h EXCEPT !.run = c, !.pc = "forward"])
                     ELSE Step(s, [h EXCEPT !.pc = "create"]) /\ UNCHANGED entries
      \/ Fault /\ End(s) /\ engine' = Hangup(s) /\ UNCHANGED entries
  BY <1>2, <1>3, <1>4 DEF ReadRun
<1>6. CASE Fault /\ End(s) /\ engine' = Hangup(s) /\ UNCHANGED entries
  BY <1>1, <1>6, EndsAlone DEF tables
<1>7. CASE /\ NoFault /\ UNCHANGED engine
           /\ IF c # 0 THEN Cache(h.target, c) /\ Step(s, [h EXCEPT !.run = c, !.pc = "forward"])
                       ELSE Step(s, [h EXCEPT !.pc = "create"]) /\ UNCHANGED entries
  <2>1. UNCHANGED <<engine, faults, restarts>>
    BY <1>7 DEF NoFault, budgets
  <2>2. CastleGrows
    BY <1>1, CastleUnchanged DEF PInv
  <2>3. c # 0 => CastleFor(r, c) /\ c \in Nat
    <3>1. c # 0 => CastleFor(r, c)
      BY <1>4, RecordedIsOwned
    <3>2. Len(castle) \in Nat /\ DOMAIN castle = 1 .. Len(castle)
      BY DEF PInv, ProxyType
    <3> QED BY <3>1, <3>2 DEF CastleFor
  <2>4. PICK g \in HandlerRecord :
          /\ Step(s, g) /\ g.entry = h.entry /\ g.env = h.env /\ g.target = h.target /\ g.open = h.open
          /\ g.pc = (IF c # 0 THEN "forward" ELSE "create") /\ g.run = (IF c # 0 THEN c ELSE h.run)
    <3>1. CASE c # 0
      <4>1. PICK g : g = [h EXCEPT !.run = c, !.pc = "forward"]
        OBVIOUS
      <4>2. /\ g \in HandlerRecord /\ g.entry = h.entry /\ g.env = h.env /\ g.target = h.target /\ g.open = h.open
            /\ g.pc = "forward" /\ g.run = c
        BY <2>3, <3>1, <4>1 DEF HandlerRecord
      <4>3. Step(s, g)
        BY <1>7, <3>1, <4>1
      <4> QED BY <3>1, <4>2, <4>3
    <3>2. CASE c = 0
      <4>1. PICK g : g = [h EXCEPT !.pc = "create"]
        OBVIOUS
      <4>2. /\ g \in HandlerRecord /\ g.entry = h.entry /\ g.env = h.env /\ g.target = h.target /\ g.open = h.open
            /\ g.pc = "create" /\ g.run = h.run
        BY <4>1 DEF HandlerRecord
      <4>3. Step(s, g)
        BY <1>7, <3>2, <4>1
      <4> QED BY <3>2, <4>2, <4>3
    <3> QED BY <3>1, <3>2
  <2>5. /\ EntriesGrow /\ DOMAIN entries' = DOMAIN entries
        /\ \A d \in DOMAIN entries : entries'[d].run = entries[d].run
        /\ \A d \in DOMAIN entries : entries'[d].castle = entries[d].castle \/ (d = h.entry /\ c # 0 /\ entries'[d].castle = c)
    <3>1. CASE c # 0
      <4>1. Cache(h.entry, c)
        BY <1>2, <1>7, <3>1
      <4> QED BY <1>2, <2>3, <3>1, <4>1, EntryCached DEF PInv
    <3>2. CASE c = 0
      <4>1. UNCHANGED entries
        BY <1>7, <3>2
      <4> QED BY <4>1, EntriesUnchanged DEF PInv
    <3> QED BY <3>1, <3>2
  <2>6. Carries(g)'
    <3>1. CastleFor(r, c)' <=> CastleFor(r, c)
      BY <1>1 DEF CastleFor
    <3>2. g.pc \in {"stamp", "forward", "ack"} => CastleFor(OwnerOf(h.entry), g.run)'
      <4>1. OwnerOf(h.entry)' = r
        BY <1>2, <1>3, <2>5 DEF OwnerOf
      <4>2. g.pc \in {"stamp", "forward", "ack"} => g.run = c /\ c # 0
        BY <2>4
      <4> QED BY <2>3, <3>1, <4>1, <4>2 DEF CastleFor
    <3>3. g.pc # "ack"
      BY <2>4
    <3> QED BY <1>2, <2>1, <2>2, <2>4, <2>5, <3>2, <3>3, CarriesOn
  <2>7. /\ Heard' /\ Served' /\ handler' \in [Streams -> HandlerRecord]
        /\ handler'[s] = g /\ \A t \in Streams : t # s => handler'[t] = handler[t]
    <3>1. h.run = 0
      BY <1>1, <1>2 DEF PInv, Served, HandlerServes
    <3>2. g.pc # "off" /\ (g.pc \in {"receive", "read", "create"} => g.run = 0)
      BY <2>4, <3>1
    <3>3. handler[s].pc # "off" /\ g.entry = handler[s].entry /\ g.open = handler[s].open
      BY <1>1, <1>2, <2>4
    <3>4. UNCHANGED <<engine, live>>
      BY <1>1, <2>1
    <3> QED BY <2>2, <2>4, <2>5, <2>6, <3>2, <3>3, <3>4, StepKeeps DEF PInv
  <2>8. ProxyType'
    <3>1. live' \subseteq DOMAIN entries' /\ entries' \in Seq(EntryRecord)
      BY <1>1, <2>5 DEF PInv, ProxyType, EntriesGrow
    <3> QED BY <1>1, <2>1, <2>7, <3>1 DEF PInv, ProxyType
  <2>9. Owned'
    <3>1. \A d \in DOMAIN entries' : entries'[d].castle # 0 => CastleFor(entries'[d].run, entries'[d].castle)
      BY <1>2, <1>3, <2>3, <2>5 DEF PInv, Owned, OwnerOf
    <3>2. \A k \in DOMAIN castle : \A i \in DOMAIN castle[k].log :
            castle[k].log[i][1] \in DOMAIN entries' /\ entries'[castle[k].log[i][1]].run = castle[k].run
      BY <2>5 DEF PInv, Owned, OwnerOf
    <3> QED BY <1>1, <3>1, <3>2 DEF PInv, Owned, CastleFor, OwnerOf
  <2>10. LaneRuns' /\ TranscriptHasNoGap' /\ AckedIsStored'
    BY <1>1, <2>1, <2>2, <2>5, LaneRunStays, GapStays, AckedStays DEF PInv
  <2>11. OnRecorded'
    <3>1. \A t \in Streams : handler[t].pc # "off" => handler[t].entry \in DOMAIN entries
      BY DEF PInv, Served, HandlerServes
    <3>2. faults = 0 => \A t \in Streams :
            handler'[t].pc # "off" => handler'[t].open /\ handler'[t].entry \in DOMAIN entries
      BY <1>1, <1>2, <2>4, <2>7, <3>1 DEF PInv, OnRecorded
    <3>3. faults = 0 => \A t \in Streams : handler'[t].pc \in {"forward", "ack"} =>
            handler'[t].run = Recorded(OwnerOf(handler'[t].entry))
      BY <1>3, <1>4, <2>4, <2>7 DEF PInv, OnRecorded
    <3>4. faults = 0 => \A t \in Streams : handler'[t].pc \in {"create", "stamp"} =>
            Recorded(OwnerOf(handler'[t].entry)) = 0
      BY <1>3, <1>4, <2>4, <2>7 DEF PInv, OnRecorded
    <3>5. faults = 0 => \A d \in DOMAIN entries' : entries'[d].castle # 0 =>
            d \in DOMAIN entries /\ entries'[d].castle = Recorded(entries[d].run)
      BY <1>3, <1>4, <2>5 DEF PInv, OnRecorded, OwnerOf
    <3>6. faults = 0 => \A k \in DOMAIN castle' : castle'[k].log # <<>> =>
            k \in DOMAIN castle /\ k = Recorded(castle[k].run)
      BY <1>1 DEF PInv, OnRecorded
    <3> QED BY <1>1, <2>1, <2>2, <2>5, <3>2, <3>3, <3>4, <3>5, <3>6, OnRecordedStays
  <2> QED BY <2>7, <2>8, <2>9, <2>10, <2>11 DEF PInv
<1> QED BY <1>5, <1>6, <1>7

LEMMA CreateStep ==
  ASSUME PInv, NEW s \in Streams, CreateCastleRun(s)
  PROVE  PInv'
<1>1. /\ handler[s].pc = "create" /\ UNCHANGED <<token, stamp, enrolled, entries, live, pod>>
      /\ UNCHANGED <<annotations, tables, pod>>
  BY DEF CreateCastleRun, annotations, tables
<1>2. PICK h \in HandlerRecord :
        /\ h = handler[s] /\ h.entry \in DOMAIN entries /\ h.target = h.entry /\ OwnerOf(h.entry) \in Run
        /\ h.env \in Nat \X Nat /\ h.env[2] \in Nat /\ Carries(h)
  BY <1>1, Carried
<1>3. PICK r \in Run : r = OwnerOf(h.entry)
  BY <1>2
<1>4. PICK made : made = Append(castle, [run |-> r, assigned |-> FALSE, log |-> <<>>])
  OBVIOUS
<1>5. \/ /\ NoFault /\ castle' = made /\ UNCHANGED engine
         /\ Step(s, [h EXCEPT !.run = Len(made), !.pc = "stamp"])
      \/ /\ Fault /\ End(s) /\ engine' = Hangup(s)
         /\ castle' \in {castle, made}
  BY <1>2, <1>3, <1>4 DEF CreateCastleRun
<1>6. EntriesGrow
  BY <1>1, EntriesUnchanged DEF PInv
<1>7. ASSUME castle' = made
      PROVE  /\ CastleGrows /\ TranscriptHasNoGap' /\ Len(made) \in Nat /\ Len(made) # 0 /\ CastleFor(r, Len(made))'
             /\ \A k \in DOMAIN castle' : k \notin DOMAIN castle => castle'[k].log = <<>>
             /\ \A k \in DOMAIN castle : castle'[k] = castle[k]
  <2>1. castle' = Append(castle, [run |-> r, assigned |-> FALSE, log |-> <<>>])
    BY <1>4, <1>7
  <2>2. /\ CastleGrows /\ Len(castle) \in Nat /\ Len(castle') = Len(castle) + 1
        /\ \A k : k \in DOMAIN castle' <=> k \in DOMAIN castle \/ k = Len(castle')
        /\ \A k \in DOMAIN castle : castle'[k] = castle[k]
        /\ castle'[Len(castle')].run = r /\ castle'[Len(castle')].log = <<>>
    BY <2>1, CastleMade DEF PInv
  <2>3. TranscriptHasNoGap'
    BY <2>1, GapAfterMade DEF PInv
  <2>4. Len(castle') \in Nat /\ Len(castle') # 0
    BY <2>2
  <2>5. PICK k : k = Len(castle')
    OBVIOUS
  <2>6. CastleFor(r, k)'
    BY <2>2, <2>5 DEF CastleFor
  <2>7. CastleFor(r, Len(made))'
    BY <1>7, <2>5, <2>6
  <2> QED BY <1>7, <2>2, <2>3, <2>4, <2>7
<1>8. castle' = castle => CastleGrows /\ TranscriptHasNoGap'
  BY CastleUnchanged, GapStays DEF PInv
<1>9. CastleGrows /\ TranscriptHasNoGap'
  BY <1>5, <1>7, <1>8
<1>10. \A k \in DOMAIN castle' : \A i \in DOMAIN castle'[k].log :
         castle'[k].log[i][1] \in DOMAIN entries /\ OwnerOf(castle'[k].log[i][1]) = castle'[k].run
  <2>1. ASSUME NEW k \in DOMAIN castle', NEW i \in DOMAIN castle'[k].log
        PROVE  castle'[k].log[i][1] \in DOMAIN entries /\ OwnerOf(castle'[k].log[i][1]) = castle'[k].run
    <3>1. CASE k \in DOMAIN castle
      <4>1. castle'[k] = castle[k]
        BY <1>5, <1>7, <3>1
      <4> QED BY <2>1, <3>1, <4>1 DEF PInv, Owned
    <3>2. CASE k \notin DOMAIN castle
      <4>1. castle'[k].log = <<>>
        BY <1>5, <1>7, <3>2
      <4> QED BY <2>1, <4>1
    <3> QED BY <3>1, <3>2
  <2> QED BY <2>1
<1>11. CASE Fault /\ End(s) /\ engine' = Hangup(s)
  <2>1. faults' \in Nat /\ restarts' \in Nat /\ faults' # 0
    BY <1>11, BudgetsCount DEF PInv
  <2> QED BY <1>1, <1>9, <1>10, <1>11, <2>1, EndStep
<1>12. CASE /\ NoFault /\ castle' = made /\ UNCHANGED engine
            /\ Step(s, [h EXCEPT !.run = Len(made), !.pc = "stamp"])
  <2>1. UNCHANGED <<engine, faults, restarts>>
    BY <1>12 DEF NoFault, budgets
  <2>2. PICK g : g = [h EXCEPT !.run = Len(made), !.pc = "stamp"]
    OBVIOUS
  <2>3. /\ g \in HandlerRecord /\ g.entry = h.entry /\ g.env = h.env /\ g.target = h.target /\ g.open = h.open
        /\ g.pc = "stamp" /\ g.run = Len(made)
    BY <1>7, <1>12, <2>2 DEF HandlerRecord
  <2>4. Step(s, g)
    BY <1>12, <2>2
  <2>5. Carries(g)'
    <3>1. OwnerOf(h.entry)' = r
      BY <1>1, <1>3 DEF OwnerOf
    <3>2. CastleFor(OwnerOf(h.entry), g.run)'
      BY <1>7, <1>12, <2>3, <3>1 DEF CastleFor
    <3> QED BY <1>2, <1>6, <1>9, <2>1, <2>3, <3>2, CarriesOn
  <2>6. /\ Heard' /\ Served' /\ handler' \in [Streams -> HandlerRecord]
        /\ handler'[s] = g /\ \A t \in Streams : t # s => handler'[t] = handler[t]
    <3>1. UNCHANGED <<engine, live>>
      BY <1>1, <2>1
    <3>2. handler[s].pc # "off" /\ g.entry = handler[s].entry /\ g.open = handler[s].open
      BY <1>1, <1>2, <2>3
    <3> QED BY <1>6, <1>9, <2>3, <2>4, <2>5, <3>1, <3>2, StepKeeps DEF PInv
  <2>7. ProxyType'
    BY <1>1, <1>9, <2>1, <2>6 DEF PInv, ProxyType, CastleGrows
  <2>8. Owned'
    <3>1. \A q \in Run : pod'[q] => token'[q]
      BY <1>1 DEF PInv, Owned
    <3> QED BY <1>1, <1>6, <1>9, <1>10, <3>1, OwnedStays DEF PInv
  <2>9. LaneRuns' /\ AckedIsStored'
    BY <1>6, <1>9, <2>1, LaneRunStays, AckedStays DEF PInv
  <2>10. OnRecorded'
    <3>1. \A t \in Streams : handler[t].pc # "off" => handler[t].entry \in DOMAIN entries
      BY DEF PInv, Served, HandlerServes
    <3>2. faults = 0 => \A t \in Streams :
            handler'[t].pc # "off" => handler'[t].open /\ handler'[t].entry \in DOMAIN entries
      BY <1>1, <1>2, <2>3, <2>6, <3>1 DEF PInv, OnRecorded
    <3>3. faults = 0 => \A t \in Streams : handler'[t].pc \in {"forward", "ack"} =>
            handler'[t].run = Recorded(OwnerOf(handler'[t].entry))
      BY <2>3, <2>6 DEF PInv, OnRecorded
    <3>4. faults = 0 => \A t \in Streams : handler'[t].pc \in {"create", "stamp"} =>
            Recorded(OwnerOf(handler'[t].entry)) = 0
      BY <1>1, <1>2, <2>3, <2>6 DEF PInv, OnRecorded
    <3>5. faults = 0 => \A d \in DOMAIN entries' : entries'[d].castle # 0 =>
            d \in DOMAIN entries /\ entries'[d].castle = Recorded(entries[d].run)
      BY <1>1 DEF PInv, OnRecorded
    <3>6. faults = 0 => \A k \in DOMAIN castle' : castle'[k].log # <<>> =>
            k \in DOMAIN castle /\ k = Recorded(castle[k].run)
      BY <1>7, <1>12 DEF PInv, OnRecorded
    <3> QED BY <1>1, <1>6, <1>9, <2>1, <3>2, <3>3, <3>4, <3>5, <3>6, OnRecordedStays
  <2> QED BY <1>9, <2>6, <2>7, <2>8, <2>9, <2>10 DEF PInv
<1> QED BY <1>5, <1>11, <1>12

LEMMA StampStep ==
  ASSUME PInv, NEW s \in Streams, StampRun(s)
  PROVE  PInv'
<1>1. /\ handler[s].pc = "stamp" /\ UNCHANGED <<token, enrolled, live, castle, pod, engine>>
      /\ (NoFault \/ Fault)
  BY DEF StampRun
<1>2. PICK h \in HandlerRecord :
        /\ h = handler[s] /\ h.entry \in DOMAIN entries /\ h.target = h.entry /\ OwnerOf(h.entry) \in Run
        /\ h.env \in Nat \X Nat /\ h.env[2] \in Nat /\ Carries(h)
  BY <1>1, Carried
<1>3. PICK r \in Run : r = OwnerOf(h.entry)
  BY <1>2
<1>4. PICK c \in Nat : c = h.run
  BY DEF HandlerRecord
<1>5. CastleFor(r, c) /\ c # 0
  <2>1. CastleFor(r, c)
    BY <1>1, <1>2, <1>3, <1>4 DEF Carries
  <2>2. Len(castle) \in Nat /\ DOMAIN castle = 1 .. Len(castle)
    BY DEF PInv, ProxyType
  <2> QED BY <2>1, <2>2 DEF CastleFor
<1>6. /\ \/ NoFault /\ stamp' = [stamp EXCEPT ![r] = c]
         \/ ~h.open /\ NoFault /\ UNCHANGED stamp
         \/ Fault /\ UNCHANGED stamp
      /\ Cache(h.entry, c)
      /\ Step(s, [h EXCEPT !.pc = "forward"])
  BY <1>2, <1>3, <1>4 DEF StampRun
<1>7. PICK g : g = [h EXCEPT !.pc = "forward"]
  OBVIOUS
<1>8. /\ g \in HandlerRecord /\ g.entry = h.entry /\ g.env = h.env /\ g.target = h.target /\ g.open = h.open
      /\ g.pc = "forward" /\ g.run = c
  BY <1>4, <1>7 DEF HandlerRecord
<1>9. CastleGrows
  BY <1>1, CastleUnchanged DEF PInv
<1>10. /\ EntriesGrow /\ DOMAIN entries' = DOMAIN entries
       /\ \A d \in DOMAIN entries : entries'[d].run = entries[d].run
       /\ \A d \in DOMAIN entries : d # h.entry => entries'[d] = entries[d]
       /\ entries'[h.entry].castle = c
  BY <1>2, <1>6, EntryCached DEF PInv
<1>11. Carries(g)'
  <2>1. OwnerOf(h.entry)' = r
    BY <1>2, <1>3, <1>10 DEF OwnerOf
  <2>2. CastleFor(OwnerOf(h.entry), g.run)'
    BY <1>1, <1>5, <1>8, <2>1 DEF CastleFor
  <2> QED BY <1>1, <1>2, <1>8, <1>9, <1>10, <2>2, CarriesOn
<1>12. /\ Heard' /\ Served' /\ handler' \in [Streams -> HandlerRecord]
       /\ handler'[s] = g /\ \A t \in Streams : t # s => handler'[t] = handler[t]
  <2>1. Step(s, g)
    BY <1>6, <1>7
  <2>2. handler[s].pc # "off" /\ g.entry = handler[s].entry /\ g.open = handler[s].open
    BY <1>1, <1>2, <1>8
  <2> QED BY <1>1, <1>8, <1>9, <1>10, <1>11, <2>1, <2>2, StepKeeps DEF PInv
<1>13. /\ stamp' \in [Run -> Nat] /\ \A q \in Run : q # r => stamp'[q] = stamp[q]
       /\ stamp'[r] = c \/ stamp'[r] = stamp[r]
  BY <1>6 DEF PInv, ProxyType
<1>14. ProxyType'
  <2>1. faults' \in Nat /\ restarts' \in Nat
    BY <1>1, BudgetsCount DEF PInv
  <2>2. live' \subseteq DOMAIN entries' /\ entries' \in Seq(EntryRecord)
    BY <1>1, <1>10 DEF PInv, ProxyType, EntriesGrow
  <2> QED BY <1>1, <1>12, <1>13, <2>1, <2>2 DEF PInv, ProxyType
<1>15. Owned'
  <2>1. \A d \in DOMAIN entries' : entries'[d].castle # 0 => CastleFor(entries'[d].run, entries'[d].castle)
    BY <1>2, <1>3, <1>5, <1>10 DEF PInv, Owned, OwnerOf
  <2>2. \A k \in DOMAIN castle : \A i \in DOMAIN castle[k].log :
          castle[k].log[i][1] \in DOMAIN entries' /\ entries'[castle[k].log[i][1]].run = castle[k].run
    BY <1>10 DEF PInv, Owned, OwnerOf
  <2>3. \A q \in Run : stamp'[q] # 0 => CastleFor(q, stamp'[q])
    BY <1>5, <1>13 DEF PInv, Owned
  <2> QED BY <1>1, <2>1, <2>2, <2>3 DEF PInv, Owned, CastleFor, OwnerOf
<1>16. LaneRuns' /\ TranscriptHasNoGap' /\ AckedIsStored'
  BY <1>1, <1>9, <1>10, LaneRunStays, GapStays, AckedStays DEF PInv
<1>17. OnRecorded'
  <2> SUFFICES ASSUME faults' = 0 PROVE OnRecorded'
    BY DEF OnRecorded
  <2>1. faults = 0 /\ ~Fault
    BY <1>1, BudgetsCount DEF PInv
  <2>2. /\ \A t \in Streams : handler[t].pc # "off" => handler[t].open
        /\ \A k \in DOMAIN castle : castle[k].log # <<>> => k = Recorded(castle[k].run)
        /\ \A d \in DOMAIN entries : entries[d].castle # 0 => entries[d].castle = Recorded(entries[d].run)
        /\ \A t \in Streams :
             /\ handler[t].pc \in {"forward", "ack"} => handler[t].run = Recorded(OwnerOf(handler[t].entry))
             /\ handler[t].pc \in {"create", "stamp"} => Recorded(OwnerOf(handler[t].entry)) = 0
    BY <2>1 DEF PInv, OnRecorded
  <2>3. h.open /\ stamp' = [stamp EXCEPT ![r] = c]
    BY <1>1, <1>2, <1>6, <2>1, <2>2
  <2>4. Recorded(r) = 0
    BY <1>1, <1>2, <1>3, <2>2
  <2>5. \A q \in Run : AssignmentRun(q)' = AssignmentRun(q)
    BY <1>9, LaneRunStays DEF PInv
  <2>6. AssignmentRun(r) = 0
    BY <2>4 DEF Recorded
  <2>7. Recorded(r)' = c
    <3>1. stamp'[r] = c
      BY <2>3 DEF PInv, ProxyType
    <3> QED BY <2>5, <2>6, <3>1 DEF Recorded
  <2>8. \A q \in Run : q # r => Recorded(q)' = Recorded(q)
    BY <1>13, <2>5 DEF Recorded
  <2>9. \A d \in DOMAIN entries : OwnerOf(d)' = OwnerOf(d) /\ OwnerOf(d) \in Run
    BY <1>10, OwnersAreRuns DEF PInv, OwnerOf
  <2>10. \A t \in Streams : handler'[t].pc # "off" => handler'[t].open
    BY <1>8, <1>12, <2>2, <2>3
  <2>11. ASSUME NEW k \in DOMAIN castle, castle[k].log # <<>> PROVE (k = Recorded(castle[k].run))'
    <3>1. castle[k] \in CastleRecord /\ k # 0
      BY DEF PInv, ProxyType
    <3>2. PICK q \in Run : q = castle[k].run /\ q = castle'[k].run
      BY <1>1, <3>1 DEF CastleRecord
    <3>3. k = Recorded(q) /\ q # r
      BY <2>2, <2>4, <2>11, <3>1, <3>2
    <3>4. k = Recorded(q)'
      BY <2>8, <3>3
    <3> QED BY <3>2, <3>4
  <2>12. ASSUME NEW d \in DOMAIN entries', entries'[d].castle # 0
         PROVE  (entries[d].castle = Recorded(entries[d].run))'
    <3>1. PICK q \in Run : q = entries[d].run /\ q = entries'[d].run
      BY <1>10, <2>9 DEF OwnerOf
    <3>2. CASE d = h.entry
      <4>1. q = r /\ entries'[d].castle = c
        BY <1>3, <1>10, <3>1, <3>2 DEF OwnerOf
      <4>2. entries'[d].castle = Recorded(q)'
        BY <2>7, <4>1
      <4> QED BY <3>1, <4>2
    <3>3. CASE d # h.entry
      <4>1. entries'[d] = entries[d] /\ entries[d].castle = Recorded(q) /\ q # r
        BY <1>10, <2>2, <2>4, <2>12, <3>1, <3>3
      <4>2. entries'[d].castle = Recorded(q)'
        BY <2>8, <4>1
      <4> QED BY <3>1, <4>2
    <3> QED BY <3>2, <3>3
  <2>13. ASSUME NEW t \in Streams
         PROVE  (/\ handler[t].pc \in {"forward", "ack"} => handler[t].run = Recorded(OwnerOf(handler[t].entry))
                 /\ handler[t].pc \in {"create", "stamp"} => Recorded(OwnerOf(handler[t].entry)) = 0)'
    <3>1. PICK f : f = handler'[t]
      OBVIOUS
    <3>2. CASE t = s
      <4>1. f.pc = "forward" /\ f.run = c /\ OwnerOf(f.entry)' = r
        BY <1>2, <1>3, <1>8, <1>12, <2>9, <3>1, <3>2
      <4>2. f.run = Recorded(r)'
        BY <2>7, <4>1
      <4>3. (f.run = Recorded(OwnerOf(f.entry)))'
        BY <4>1, <4>2
      <4> QED BY <3>1, <4>1, <4>3
    <3>3. CASE t # s /\ f.pc # "off"
      <4>1. f = handler[t] /\ f.open /\ HandlerServes(t) /\ HandlerServes(s)
        BY <1>12, <2>2, <3>1, <3>3 DEF PInv, Served
      <4>2. PICK q \in Run : q = OwnerOf(f.entry) /\ q = OwnerOf(f.entry)'
        BY <2>9, <3>3, <4>1 DEF HandlerServes
      <4>3. q # r
        BY <1>2, <1>3, <2>3, <3>3, <4>1, <4>2 DEF HandlerServes
      <4>4. PICK v : v = Recorded(q) /\ v = Recorded(q)'
        BY <2>8, <4>3
      <4>5. /\ f.pc \in {"forward", "ack"} => f.run = v
            /\ f.pc \in {"create", "stamp"} => v = 0
        BY <2>2, <4>1, <4>2, <4>4
      <4> QED BY <3>1, <4>2, <4>4, <4>5
    <3>4. CASE f.pc = "off"
      BY <3>1, <3>4
    <3> QED BY <3>2, <3>3, <3>4
  <2> QED BY <1>1, <2>10, <2>11, <2>12, <2>13 DEF OnRecorded
<1> QED BY <1>12, <1>14, <1>15, <1>16, <1>17 DEF PInv

LEMMA ForwardStep ==
  ASSUME PInv, NEW s \in Streams, Forward(s)
  PROVE  PInv'
<1>1. /\ handler[s].pc = "forward" /\ UNCHANGED <<token, stamp, enrolled, entries, live, pod>>
      /\ UNCHANGED <<annotations, tables, pod>>
  BY DEF Forward, annotations, tables
<1>2. PICK h \in HandlerRecord :
        /\ h = handler[s] /\ h.entry \in DOMAIN entries /\ h.target = h.entry /\ OwnerOf(h.entry) \in Run
        /\ h.env \in Nat \X Nat /\ h.env[2] \in Nat /\ Carries(h)
  BY <1>1, Carried
<1>3. PICK r \in Run : r = OwnerOf(h.entry)
  BY <1>2
<1>4. PICK k \in DOMAIN castle : k = h.run /\ castle[k].run = r
  BY <1>1, <1>2, <1>3 DEF Carries, CastleFor
<1>5. \/ NoFault /\ castle' = Logged(h) /\ Step(s, [h EXCEPT !.pc = "ack"]) /\ UNCHANGED engine
      \/ /\ Fault /\ castle' \in {castle, Logged(h)}
         /\ End(s) /\ engine' = Hangup(s)
  BY <1>2 DEF Forward
<1>6. EntriesGrow
  BY <1>1, EntriesUnchanged DEF PInv
<1>7. ASSUME castle' = Logged(h)
      PROVE  /\ CastleGrows /\ TranscriptHasNoGap' /\ DOMAIN castle' = DOMAIN castle
             /\ \A c \in DOMAIN castle : castle'[c].run = castle[c].run
             /\ \A c \in DOMAIN castle : c # k => castle'[c].log = castle[c].log
             /\ \A i \in DOMAIN castle'[k].log :
                  castle'[k].log[i] = h.env \/ (i \in DOMAIN castle[k].log /\ castle'[k].log[i] = castle[k].log[i])
             /\ \E i \in DOMAIN castle'[k].log : castle'[k].log[i] = h.env
  <2>1. castle' = [castle EXCEPT ![k].log = Append(@, h.env)]
    BY <1>4, <1>7 DEF Logged
  <2>2. /\ CastleGrows /\ DOMAIN castle' = DOMAIN castle
        /\ \A c \in DOMAIN castle : castle'[c].run = castle[c].run
        /\ \A c \in DOMAIN castle : c # k => castle'[c].log = castle[c].log
        /\ \A i : i \in DOMAIN castle'[k].log <=> i \in DOMAIN castle[k].log \/ i = Len(castle[k].log) + 1
        /\ \A i \in DOMAIN castle[k].log : castle'[k].log[i] = castle[k].log[i]
        /\ castle'[k].log[Len(castle[k].log) + 1] = h.env
    BY <1>2, <2>1, CastleLogged DEF PInv
  <2>3. h.env[1] = h.entry
    BY <1>2 DEF Carries
  <2>4. h.env[2] > 1 => Stored(castle[k].run, h.env[1], h.env[2] - 1)
    BY <1>2, <1>3, <1>4, <2>3 DEF Carries
  <2>5. TranscriptHasNoGap'
    BY <1>2, <2>1, <2>4, GapAfterLogged DEF PInv
  <2> QED BY <2>2, <2>5
<1>8. castle' = castle => CastleGrows /\ TranscriptHasNoGap'
  BY CastleUnchanged, GapStays DEF PInv
<1>9. CastleGrows /\ TranscriptHasNoGap'
  BY <1>5, <1>7, <1>8
<1>10. \A c \in DOMAIN castle' : \A i \in DOMAIN castle'[c].log :
         castle'[c].log[i][1] \in DOMAIN entries /\ OwnerOf(castle'[c].log[i][1]) = castle'[c].run
  <2>1. CASE castle' = castle
    BY <2>1 DEF PInv, Owned
  <2>2. CASE castle' = Logged(h)
    <3>1. h.env[1] \in DOMAIN entries /\ OwnerOf(h.env[1]) = r
      BY <1>2, <1>3 DEF Carries
    <3>2. ASSUME NEW c \in DOMAIN castle, NEW i \in DOMAIN castle'[c].log
          PROVE  castle'[c].log[i][1] \in DOMAIN entries /\ OwnerOf(castle'[c].log[i][1]) = castle'[c].run
      <4>1. castle'[c].run = castle[c].run
        BY <1>7, <2>2
      <4>2. \A j \in DOMAIN castle[c].log :
              castle[c].log[j][1] \in DOMAIN entries /\ OwnerOf(castle[c].log[j][1]) = castle[c].run
        BY DEF PInv, Owned
      <4>3. CASE c # k
        BY <1>7, <2>2, <3>2, <4>1, <4>2, <4>3
      <4>4. CASE c = k
        <5>1. castle'[k].log[i] = h.env \/ (i \in DOMAIN castle[k].log /\ castle'[k].log[i] = castle[k].log[i])
          BY <1>7, <2>2, <3>2, <4>4
        <5> QED BY <1>4, <3>1, <4>1, <4>2, <4>4, <5>1
      <4> QED BY <4>3, <4>4
    <3> QED BY <1>7, <2>2, <3>2
  <2> QED BY <1>5, <2>1, <2>2
<1>11. CASE Fault /\ End(s) /\ engine' = Hangup(s)
  <2>1. faults' \in Nat /\ restarts' \in Nat /\ faults' # 0
    BY <1>11, BudgetsCount DEF PInv
  <2> QED BY <1>1, <1>9, <1>10, <1>11, <2>1, EndStep
<1>12. CASE NoFault /\ castle' = Logged(h) /\ Step(s, [h EXCEPT !.pc = "ack"]) /\ UNCHANGED engine
  <2>1. UNCHANGED <<engine, faults, restarts>>
    BY <1>12 DEF NoFault, budgets
  <2>2. PICK g : g = [h EXCEPT !.pc = "ack"]
    OBVIOUS
  <2>3. /\ g \in HandlerRecord /\ g.entry = h.entry /\ g.env = h.env /\ g.target = h.target /\ g.open = h.open
        /\ g.pc = "ack" /\ g.run = k
    BY <1>4, <2>2 DEF HandlerRecord
  <2>4. Step(s, g)
    BY <1>12, <2>2
  <2>5. Carries(g)'
    <3>1. OwnerOf(h.entry)' = r
      BY <1>1, <1>3 DEF OwnerOf
    <3>2. CastleFor(OwnerOf(h.entry), g.run)'
      BY <1>4, <1>7, <1>12, <2>3, <3>1 DEF CastleFor
    <3>3. h.env = <<h.entry, h.env[2]>>
      BY <1>2 DEF Carries
    <3>4. Holds(k, h.entry, h.env[2])'
      BY <1>7, <1>12, <3>3 DEF Holds
    <3> QED BY <1>2, <1>6, <1>9, <2>1, <2>3, <3>2, <3>4, CarriesOn
  <2>6. /\ Heard' /\ Served' /\ handler' \in [Streams -> HandlerRecord]
        /\ handler'[s] = g /\ \A t \in Streams : t # s => handler'[t] = handler[t]
    <3>1. UNCHANGED <<engine, live>>
      BY <1>1, <2>1
    <3>2. handler[s].pc # "off" /\ g.entry = handler[s].entry /\ g.open = handler[s].open
      BY <1>1, <1>2, <2>3
    <3> QED BY <1>6, <1>9, <2>3, <2>4, <2>5, <3>1, <3>2, StepKeeps DEF PInv
  <2>7. ProxyType'
    BY <1>1, <1>9, <2>1, <2>6 DEF PInv, ProxyType, CastleGrows
  <2>8. Owned'
    <3>1. \A q \in Run : pod'[q] => token'[q]
      BY <1>1 DEF PInv, Owned
    <3> QED BY <1>1, <1>6, <1>9, <1>10, <3>1, OwnedStays DEF PInv
  <2>9. LaneRuns' /\ AckedIsStored'
    BY <1>6, <1>9, <2>1, LaneRunStays, AckedStays DEF PInv
  <2>10. OnRecorded'
    <3>1. \A t \in Streams : handler[t].pc # "off" => handler[t].entry \in DOMAIN entries
      BY DEF PInv, Served, HandlerServes
    <3>2. faults = 0 => \A t \in Streams :
            handler'[t].pc # "off" => handler'[t].open /\ handler'[t].entry \in DOMAIN entries
      BY <1>1, <1>2, <2>3, <2>6, <3>1 DEF PInv, OnRecorded
    <3>3. faults = 0 => k = Recorded(r)
      BY <1>1, <1>2, <1>3, <1>4 DEF PInv, OnRecorded
    <3>4. faults = 0 => \A t \in Streams : handler'[t].pc \in {"forward", "ack"} =>
            handler'[t].run = Recorded(OwnerOf(handler'[t].entry))
      BY <1>3, <2>3, <2>6, <3>3 DEF PInv, OnRecorded
    <3>5. faults = 0 => \A t \in Streams : handler'[t].pc \in {"create", "stamp"} =>
            Recorded(OwnerOf(handler'[t].entry)) = 0
      BY <2>3, <2>6 DEF PInv, OnRecorded
    <3>6. faults = 0 => \A d \in DOMAIN entries' : entries'[d].castle # 0 =>
            d \in DOMAIN entries /\ entries'[d].castle = Recorded(entries[d].run)
      BY <1>1 DEF PInv, OnRecorded
    <3>7. faults = 0 => \A c \in DOMAIN castle' : castle'[c].log # <<>> =>
            c \in DOMAIN castle /\ c = Recorded(castle[c].run)
      BY <1>4, <1>7, <1>12, <3>3 DEF PInv, OnRecorded
    <3> QED BY <1>1, <1>6, <1>9, <2>1, <3>2, <3>4, <3>5, <3>6, <3>7, OnRecordedStays
  <2> QED BY <1>9, <2>6, <2>7, <2>8, <2>9, <2>10 DEF PInv
<1> QED BY <1>5, <1>11, <1>12

LEMMA AckStep ==
  ASSUME PInv, NEW s \in Streams, Ack(s)
  PROVE  PInv'
<1>1. /\ handler[s].pc = "ack" /\ handler[s].open
      /\ UNCHANGED <<token, stamp, enrolled, entries, live, castle, pod, faults, restarts>>
  BY DEF Ack, annotations, tables, NoFault, budgets
<1>2. PICK h \in HandlerRecord :
        /\ h = handler[s] /\ h.entry \in DOMAIN entries /\ h.target = h.entry /\ OwnerOf(h.entry) \in Run
        /\ h.env \in Nat \X Nat /\ h.env[2] \in Nat /\ Carries(h)
  BY <1>1, Carried
<1>3. PICK r \in Run : r = OwnerOf(h.entry)
  BY <1>2
<1>4. PICK n \in Nat : n = h.env[2]
  BY <1>2
<1>5. /\ engine[r] \in EngineRecord /\ engine[r].stream = s /\ engine[r].entry = h.entry /\ s # NoStream
      /\ engine[r].acked = n - 1 /\ n \in 1 .. Events[r] /\ EngineHears(r)
      /\ CastleFor(r, h.run) /\ Holds(h.run, h.entry, n)
  <2>1. engine[r] \in EngineRecord /\ EngineHears(r) /\ HandlerServes(s)
    BY DEF PInv, ProxyType, Heard, Served
  <2>2. engine[r].stream = s /\ engine[r].entry = h.entry
    BY <1>1, <1>2, <1>3, <2>1 DEF HandlerServes
  <2>3. engine[r].acked = n - 1 /\ n \in 1 .. Events[r] /\ CastleFor(r, h.run) /\ Holds(h.run, h.entry, n)
    BY <1>1, <1>2, <1>3, <1>4 DEF Carries
  <2> QED BY <2>1, <2>2, <2>3, NoStreamIsNone
<1>6. PICK g \in EngineRecord : /\ engine' = [engine EXCEPT ![r] = g]
                                /\ g.entry = h.entry /\ g.acked = n /\ g.stream = s
  <2>1. PICK g : g = [engine[r] EXCEPT !.acked = n]
    OBVIOUS
  <2>2. g \in EngineRecord /\ g.entry = h.entry /\ g.acked = n /\ g.stream = s
    BY <1>5, <2>1 DEF EngineRecord
  <2>3. engine' = [engine EXCEPT ![r] = g]
    BY <1>2, <1>3, <1>4, <2>1 DEF Ack
  <2> QED BY <2>2, <2>3
<1>7. /\ engine' \in [Run -> EngineRecord] /\ engine'[r] = g
      /\ \A q \in Run : q # r => engine'[q] = engine[q]
  BY <1>6 DEF PInv, ProxyType
<1>8. PICK f \in HandlerRecord : /\ handler' = [handler EXCEPT ![s] = f]
                                 /\ f.pc = "receive" /\ f.entry = h.entry /\ f.open = TRUE /\ f.run = 0
  <2>1. PICK f : f = [h EXCEPT !.pc = "receive", !.run = 0]
    OBVIOUS
  <2>2. f \in HandlerRecord /\ f.pc = "receive" /\ f.entry = h.entry /\ f.open = TRUE /\ f.run = 0
    BY <1>1, <1>2, <2>1 DEF HandlerRecord
  <2>3. handler' = [handler EXCEPT ![s] = f]
    BY <1>2, <2>1 DEF Ack, Step
  <2> QED BY <2>2, <2>3
<1>9. /\ handler' \in [Streams -> HandlerRecord] /\ handler'[s] = f
      /\ \A t \in Streams : t # s => handler'[t] = handler[t]
  BY <1>8 DEF PInv, ProxyType
<1>10. CastleGrows /\ EntriesGrow
  BY <1>1, CastleUnchanged, EntriesUnchanged DEF PInv
<1>11. ProxyType' /\ Owned'
  BY <1>1, <1>7, <1>9 DEF PInv, ProxyType, Owned, CastleFor, OwnerOf
<1>12. Heard'
  <2> SUFFICES ASSUME NEW q \in Run PROVE EngineHears(q)'
    BY DEF Heard
  <2>1. CASE q = r
    <3>1. g.acked <= Events[r] /\ g.entry # 0 /\ g.entry \in live' /\ g.entry \in DOMAIN entries'
      <4>1. engine[r].entry \in live
        BY <1>5 DEF EngineHears
      <4>2. Len(entries) \in Nat /\ DOMAIN entries = 1 .. Len(entries)
        BY DEF PInv, ProxyType
      <4>3. g.entry # 0 /\ g.entry \in live /\ g.entry \in DOMAIN entries
        BY <1>2, <1>5, <1>6, <4>1, <4>2
      <4>4. Events[r] \in Nat
        BY ProxyAssumption DEF ProxyAssumption
      <4> QED BY <1>1, <1>5, <1>6, <4>3, <4>4
    <3>2. OwnerOf(g.entry)' = r
      BY <1>1, <1>3, <1>6 DEF OwnerOf
    <3> QED BY <1>6, <1>7, <1>8, <1>9, <2>1, <3>1, <3>2 DEF EngineHears
  <2>2. CASE q # r
    <3>1. EngineHears(q) /\ engine[q].stream \in Streams \cup {NoStream}
      BY DEF PInv, Heard, ProxyType, EngineRecord
    <3>2. engine[q].stream # s
      <4>1. h.entry # 0
        <5>1. Len(entries) \in Nat /\ DOMAIN entries = 1 .. Len(entries)
          BY DEF PInv, ProxyType
        <5> QED BY <1>2, <5>1
      <4>2. engine[q].stream = s => engine[q].entry = h.entry
        BY <1>2, <1>5, <3>1 DEF EngineHears
      <4>3. engine[q].entry # 0 => OwnerOf(engine[q].entry) = q
        BY <3>1 DEF EngineHears
      <4> QED BY <1>3, <2>2, <4>1, <4>2, <4>3
    <3>3. engine[q].stream # NoStream => handler'[engine[q].stream] = handler[engine[q].stream]
      BY <1>9, <3>1, <3>2
    <3>4. engine'[q] = engine[q] /\ live \subseteq live'
      BY <1>1, <1>7, <2>2
    <3> QED BY <1>10, <3>1, <3>3, <3>4, EngineStays DEF EngineHears
  <2> QED BY <2>1, <2>2
<1>13. Served'
  <2> SUFFICES ASSUME NEW t \in Streams PROVE HandlerServes(t)'
    BY DEF Served
  <2>1. CASE t = s
    <3>1. f.entry \in DOMAIN entries' /\ OwnerOf(f.entry)' = r
      BY <1>1, <1>2, <1>3, <1>8 DEF OwnerOf
    <3>2. (engine[OwnerOf(f.entry)].stream = s /\ engine[OwnerOf(f.entry)].entry = f.entry)'
      BY <1>6, <1>7, <1>8, <3>1
    <3> QED BY <1>8, <1>9, <2>1, <3>1, <3>2 DEF HandlerServes
  <2>2. CASE t # s
    <3>1. handler'[t] = handler[t]
      BY <1>9, <2>2
    <3>2. handler[t].open => OwnerOf(handler[t].entry) # r /\ OwnerOf(handler[t].entry) \in Run
      BY <1>5, <2>2, OwnersAreRuns DEF PInv, Served, HandlerServes
    <3> QED BY <1>7, <1>10, <3>1, <3>2, HandlerStays DEF PInv, Served
  <2> QED BY <2>1, <2>2
<1>14. LaneRuns' /\ TranscriptHasNoGap'
  BY <1>1, <1>10, LaneRunStays, GapStays DEF PInv
<1>15. AckedIsStored'
  <2>1. ASSUME NEW q \in Run, NEW m \in 1 .. engine'[q].acked
        PROVE  \E c \in RunsOf(q) : Holds(c, engine'[q].entry, m)
    <3>1. CASE q # r
      BY <1>7, <2>1, <3>1 DEF PInv, AckedIsStored
    <3>2. CASE q = r
      <4>1. engine'[q].entry = h.entry /\ m \in 1 .. n
        BY <1>6, <1>7, <2>1, <3>2
      <4>2. CASE m = n
        <5>1. h.run \in RunsOf(q)
          BY <1>5, <3>2 DEF CastleFor, RunsOf
        <5> QED BY <1>5, <4>1, <4>2, <5>1
      <4>3. CASE m # n
        <5>1. m \in 1 .. engine[q].acked
          BY <1>5, <3>2, <4>1, <4>3
        <5>2. \E c \in RunsOf(q) : Holds(c, engine[q].entry, m)
          BY <5>1 DEF PInv, AckedIsStored
        <5> QED BY <1>5, <3>2, <4>1, <5>2
      <4> QED BY <4>2, <4>3
    <3> QED BY <3>1, <3>2
  <2>2. ASSUME NEW q \in Run, NEW m \in 1 .. engine'[q].acked
        PROVE  (\E c \in RunsOf(q) : Holds(c, engine[q].entry, m))'
    <3>1. PICK e : e = engine'[q].entry
      OBVIOUS
    <3>2. Stored(q, e, m)
      BY <2>1, <2>2, <3>1 DEF Stored
    <3>3. Stored(q, e, m)'
      BY <1>10, <3>2, GrownHolds
    <3> QED BY <3>1, <3>3 DEF Stored
  <2> QED BY <2>2 DEF AckedIsStored
<1>16. OnRecorded'
  <2>1. \A t \in Streams : handler[t].pc # "off" => handler[t].entry \in DOMAIN entries
    BY DEF PInv, Served, HandlerServes
  <2>2. faults = 0 => \A t \in Streams :
          handler'[t].pc # "off" => handler'[t].open /\ handler'[t].entry \in DOMAIN entries
    BY <1>2, <1>8, <1>9, <2>1 DEF PInv, OnRecorded
  <2>3. \A t \in Streams : handler'[t].pc \in {"forward", "ack", "create", "stamp"} => handler'[t] = handler[t]
    BY <1>8, <1>9
  <2> QED BY <1>1, <1>10, <2>2, <2>3, OnRecordedStays DEF PInv, OnRecorded
<1> QED BY <1>11, <1>12, <1>13, <1>14, <1>15, <1>16 DEF PInv

-----------------------------------------------------------------------------
(* A restart of the operator, the start, every step.                       *)
LEMMA RestartOperatorStep ==
  ASSUME PInv, RestartOperator
  PROVE  PInv'
<1>1. /\ UNCHANGED <<token, stamp, entries, castle, pod, faults>> /\ restarts' = restarts + 1
      /\ enrolled' = {} /\ live' = {} /\ handler' = [s \in Streams |-> Off]
      /\ engine' = [r \in Run |-> [engine[r] EXCEPT !.stream = NoStream]]
  BY DEF RestartOperator, annotations
<1>2. Off \in HandlerRecord /\ Off.pc = "off" /\ Off.open = FALSE /\ Off.run = 0
  <2>1. <<0, 0>> \in Nat \X Nat
    OBVIOUS
  <2> QED BY <2>1 DEF Off, HandlerRecord
<1>3. ASSUME NEW r \in Run
      PROVE  /\ engine'[r] \in EngineRecord /\ engine'[r].stream = NoStream
             /\ engine'[r].entry = engine[r].entry /\ engine'[r].acked = engine[r].acked
  <2>1. engine[r] \in EngineRecord
    BY DEF PInv, ProxyType
  <2>2. engine'[r] = [engine[r] EXCEPT !.stream = NoStream]
    BY <1>1
  <2> QED BY <2>1, <2>2 DEF EngineRecord
<1>4. engine' \in [Run -> EngineRecord] /\ handler' \in [Streams -> HandlerRecord]
  BY <1>1, <1>2, <1>3
<1>5. restarts' \in Nat
  BY <1>1 DEF PInv, ProxyType
<1>6. CastleGrows /\ EntriesGrow
  BY <1>1, CastleUnchanged, EntriesUnchanged DEF PInv
<1>7. ProxyType' /\ Owned'
  BY <1>1, <1>4, <1>5 DEF PInv, ProxyType, Owned, CastleFor, OwnerOf
<1>8. ASSUME NEW r \in Run PROVE EngineHears(r)'
  <2>1. PICK e : e = engine[r].entry /\ e = engine'[r].entry
    BY <1>3
  <2>2. e # 0 => (e \in DOMAIN entries /\ OwnerOf(e) = r)'
    BY <1>1, <2>1 DEF PInv, Heard, EngineHears, OwnerOf
  <2> QED BY <1>3, <2>1, <2>2 DEF PInv, Heard, EngineHears
<1>9. ASSUME NEW s \in Streams PROVE HandlerServes(s)'
  BY <1>1, <1>2 DEF HandlerServes
<1>10. LaneRuns' /\ TranscriptHasNoGap' /\ AckedIsStored'
  BY <1>1, <1>3, <1>6, LaneRunStays, GapStays, AckedStays DEF PInv
<1>11. OnRecorded'
  <2>1. \A s \in Streams : handler'[s].pc = "off"
    BY <1>1, <1>2
  <2> QED BY <1>1, <1>6, <2>1, OnRecordedStays DEF PInv, OnRecorded
<1> QED BY <1>7, <1>8, <1>9, <1>10, <1>11 DEF PInv, Heard, Served

\* The lane's runs are as many as the runs it dispatched, one for each.
LEMMA LaneRunsAtStart ==
  ASSUME Init
  PROVE  LaneRuns /\ castle \in Seq(CastleRecord) /\ \A c \in DOMAIN castle : castle[c].log = <<>>
<1>1. IsFiniteSet(Dispatched) /\ Dispatched \subseteq Run
  BY ProxyAssumption DEF ProxyAssumption
<1>2. PICK n \in Nat : n = Cardinality(Dispatched)
  BY <1>1, FS_CardinalityType
<1>3. /\ castle \in [1 .. n -> [run : Dispatched, assigned : {TRUE}, log : {<<>>}]]
      /\ \A i, j \in DOMAIN castle : castle[i].run = castle[j].run => i = j
  BY <1>2 DEF Init
<1>4. DOMAIN castle = 1 .. n
      /\ \A c \in DOMAIN castle : castle[c].run \in Dispatched /\ castle[c].assigned /\ castle[c].log = <<>>
  <2>1. DOMAIN castle = 1 .. n
    BY <1>3
  <2>2. \A c \in 1 .. n : castle[c] \in [run : Dispatched, assigned : {TRUE}, log : {<<>>}]
    BY <1>3
  <2> QED BY <2>1, <2>2
<1>5. castle \in Seq(CastleRecord)
  <2>1. <<>> \in Seq(Nat \X Nat)
    OBVIOUS
  <2>2. [run : Dispatched, assigned : {TRUE}, log : {<<>>}] \subseteq CastleRecord
    BY <1>1, <2>1 DEF CastleRecord
  <2>3. castle \in [1 .. n -> CastleRecord]
    BY <1>3, <2>2
  <2> QED BY <2>3
<1>6. PICK f : f = [i \in 1 .. n |-> castle[i].run]
  OBVIOUS
<1>7. f \in Injection(1 .. n, Dispatched)
  <2>1. f \in [1 .. n -> Dispatched]
    BY <1>4, <1>6
  <2>2. \A i, j \in 1 .. n : f[i] = f[j] => i = j
    BY <1>3, <1>4, <1>6
  <2> QED BY <2>1, <2>2 DEF Injection, IsInjective
<1>8. IsFiniteSet(1 .. n) /\ Cardinality(1 .. n) = n
  <2>1. 1 \in Int /\ n \in Int
    OBVIOUS
  <2>2. IsFiniteSet(1 .. n) /\ Cardinality(1 .. n) = IF 1 > n THEN 0 ELSE n - 1 + 1
    BY <2>1, FS_Interval
  <2>3. (IF 1 > n THEN 0 ELSE n - 1 + 1) = n
    OBVIOUS
  <2> QED BY <2>2, <2>3
<1>9. f \in Surjection(1 .. n, Dispatched)
  BY <1>1, <1>2, <1>7, <1>8, FS_Injection
<1>10. \A r \in Dispatched : \E c \in 1 .. n : f[c] = r
  BY <1>9 DEF Surjection
<1>11. \A r \in Dispatched : \E c \in DOMAIN castle : castle[c].assigned /\ castle[c].run = r
  BY <1>4, <1>6, <1>10
<1> QED BY <1>3, <1>4, <1>5, <1>11 DEF LaneRuns

LEMMA PInit ==
  ASSUME Init
  PROVE  PInv
<1>1. LaneRuns /\ castle \in Seq(CastleRecord) /\ \A c \in DOMAIN castle : castle[c].log = <<>>
  BY LaneRunsAtStart
<1>2. /\ token = [r \in Run |-> FALSE] /\ stamp = [r \in Run |-> 0]
      /\ enrolled = {} /\ entries = <<>> /\ live = {} /\ pod = [r \in Run |-> FALSE]
      /\ engine = [r \in Run |-> FreshEngine] /\ handler = [s \in Streams |-> Off]
      /\ faults = 0 /\ restarts = 0
  BY DEF Init
<1>3. /\ Off \in HandlerRecord /\ Off.pc = "off" /\ Off.open = FALSE /\ Off.run = 0
      /\ FreshEngine \in EngineRecord /\ FreshEngine.entry = 0 /\ FreshEngine.acked = 0 /\ FreshEngine.stream = NoStream
  <2>1. <<0, 0>> \in Nat \X Nat
    OBVIOUS
  <2> QED BY <2>1 DEF Off, HandlerRecord, FreshEngine, EngineRecord
<1>4. entries \in Seq(EntryRecord) /\ DOMAIN entries = {}
  BY <1>2
<1>5. ProxyType
  BY <1>1, <1>2, <1>3, <1>4 DEF ProxyType
<1>6. Owned
  BY <1>1, <1>2, <1>4 DEF Owned
<1>7. Heard
  <2>1. \A r \in Run : 0 <= Events[r]
    BY ProxyAssumption DEF ProxyAssumption
  <2> QED BY <1>2, <1>3, <2>1 DEF Heard, EngineHears
<1>8. Served
  BY <1>2, <1>3 DEF Served, HandlerServes
<1>9. AckedIsStored
  BY <1>2, <1>3 DEF AckedIsStored
<1>10. TranscriptHasNoGap
  BY <1>1 DEF TranscriptHasNoGap, RunsOf
<1>11. OnRecorded
  BY <1>1, <1>2, <1>3, <1>4 DEF OnRecorded
<1> QED BY <1>1, <1>5, <1>6, <1>7, <1>8, <1>9, <1>10, <1>11 DEF PInv

LEMMA PStep ==
  ASSUME PInv, [Next]_vars
  PROVE  PInv'
<1>1. CASE Next
  <2>1. ASSUME NEW r \in Run, Enroll(r) \/ Engine(r) \/ EngineRestarts(r) \/ Disconnect(r) PROVE PInv'
    <3>1. CASE Engine(r)
      BY <3>1, RegisterStep, OpenStep, ReceiveStep DEF Engine
    <3> QED BY <2>1, <3>1, EnrollStep, EngineRestartsStep, DisconnectStep
  <2>2. ASSUME NEW s \in Streams, Handle(s) PROVE PInv'
    BY <2>2, ReadRunStep, CreateStep, StampStep, ForwardStep, AckStep, EndOrphanStep DEF Handle
  <2> QED BY <1>1, <2>1, <2>2, RestartOperatorStep DEF Next
<1>2. CASE UNCHANGED vars
  <2>1. /\ UNCHANGED <<token, stamp, enrolled, entries, live, castle, pod, engine, handler, faults, restarts>>
    BY <1>2 DEF vars, annotations, tables, budgets
  <2>2. ProxyType' /\ Owned'
    BY <2>1 DEF PInv, ProxyType, Owned, CastleFor, OwnerOf
  <2> QED BY <2>1, <2>2, QuietStep DEF PInv
<1> QED BY <1>1, <1>2

LEMMA ProxyInvariant == Spec => []PInv
BY PInit, PStep, PTL DEF Spec

-----------------------------------------------------------------------------
LEMMA IndicesAreBounded ==
  ASSUME PInv
  PROVE  TypeOK /\ AttributedToOwner
<1>1. /\ Len(entries) \in Nat /\ DOMAIN entries = 1 .. Len(entries)
      /\ Len(castle) \in Nat /\ DOMAIN castle = 1 .. Len(castle)
  BY DEF PInv, ProxyType
<1>2. \A r \in Run : stamp[r] \in 0 .. Len(castle)
  <2>1. \A r \in Run : stamp[r] \in Nat /\ (stamp[r] # 0 => stamp[r] \in DOMAIN castle)
    BY DEF PInv, ProxyType, Owned, CastleFor
  <2> QED BY <1>1, <2>1
<1>3. \A e \in DOMAIN entries : entries[e].run \in Run /\ entries[e].castle \in 0 .. Len(castle)
  <2>1. \A e \in DOMAIN entries : entries[e].run \in Run /\ entries[e].castle \in Nat
                                  /\ (entries[e].castle # 0 => entries[e].castle \in DOMAIN castle)
    BY OwnersAreRuns DEF PInv, Owned, CastleFor, OwnerOf
  <2> QED BY <1>1, <2>1
<1>4. ASSUME NEW r \in Run PROVE engine[r].entry \in 0 .. Len(entries) /\ engine[r].acked \in 0 .. Events[r]
  <2>1. engine[r] \in EngineRecord /\ EngineHears(r) /\ Events[r] \in Nat
    BY ProxyAssumption DEF PInv, ProxyType, Heard, ProxyAssumption
  <2>2. engine[r].entry \in Nat /\ engine[r].acked \in Nat
    BY <2>1 DEF EngineRecord
  <2> QED BY <1>1, <2>1, <2>2 DEF EngineHears
<1>5. ASSUME NEW s \in Streams PROVE handler[s].run \in 0 .. Len(castle)
  <2>1. handler[s] \in HandlerRecord /\ HandlerServes(s)
    BY DEF PInv, ProxyType, Served
  <2>2. handler[s].run \in Nat
    BY <2>1 DEF HandlerRecord
  <2>3. handler[s].run # 0 => handler[s].run \in DOMAIN castle
    BY <2>1 DEF HandlerServes, HandlerRecord, Carries, CastleFor
  <2> QED BY <1>1, <2>2, <2>3
<1>6. \A r \in Run : pod[r] => token[r]
  BY DEF PInv, Owned
<1>7. stamp \in [Run -> 0 .. Len(castle)]
  BY <1>2 DEF PInv, ProxyType
<1>8. AttributedToOwner
  BY DEF PInv, Owned, AttributedToOwner
<1> QED BY <1>1, <1>3, <1>4, <1>5, <1>6, <1>7, <1>8 DEF PInv, ProxyType, TypeOK

(* Whatever calls fail, streams break and restarts fall between a handler's *)
(* reads, creations and stamps: castle's transcript of a run holds events  *)
(* of its engines only, an event SubmitEvents acknowledged is stored for   *)
(* its run, and a run's only transcript lacks none before one it has.      *)
THEOREM AcknowledgedEventsAreStored == Spec => []Inv
<1>1. PInv => Inv
  BY IndicesAreBounded DEF PInv, Inv
<1> QED BY <1>1, ProxyInvariant, PTL

(* KB-344, for every number of operator restarts and of engine runs: while *)
(* no call fails and no stream breaks, castleRunID leads each of them to   *)
(* the run that is recorded, so the events are in one transcript.          *)
THEOREM OneTranscriptAcrossRestarts == Spec => []RestartDoesNotFork
<1>1. ASSUME PInv PROVE RestartDoesNotFork
  <2>1. ASSUME faults = 0, NEW r \in Run
        PROVE  Cardinality({c \in RunsOf(r) : castle[c].log # <<>>}) <= 1
    <3>1. PICK D : D = {c \in RunsOf(r) : castle[c].log # <<>>}
      OBVIOUS
    <3>2. PICK v : v = Recorded(r)
      OBVIOUS
    <3>3. D \subseteq {v}
      BY <1>1, <2>1, <3>1, <3>2 DEF PInv, OnRecorded, RunsOf
    <3>4. D = {} \/ D = {v}
      BY <3>3
    <3>5. Cardinality({}) = 0 /\ Cardinality({v}) = 1
      BY FS_EmptySet, FS_Singleton
    <3>6. Cardinality(D) <= 1
      BY <3>4, <3>5
    <3> QED BY <3>1, <3>6
  <2> QED BY <2>1 DEF RestartDoesNotFork
<1> QED BY <1>1, ProxyInvariant, PTL

=============================================================================
