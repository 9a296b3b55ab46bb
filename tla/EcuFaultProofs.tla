--------------------------- MODULE EcuFaultProofs ---------------------------
(***************************************************************************)
(* The fault manager, for every table size, log size and set of reports:   *)
(* the table, the cached action, and the refinement of EcuFaultBoard.      *)
(***************************************************************************)
EXTENDS EcuFaultFacade, SequenceTheorems, FiniteSetTheorems, TLAPS

USE DEF INFO, WARNING, CRITICAL, FATAL, NONE, DEGRADE, SHUTDOWN

-----------------------------------------------------------------------------
(* The operators.                                                          *)

LEMMA GreatestAction ==
  ASSUME NEW actions \in SUBSET (0 .. 2), 0 \in actions
  PROVE  \E a \in actions : \A b \in actions : b <= a
  <1>1. CASE 2 \in actions
    BY <1>1
  <1>2. CASE 2 \notin actions /\ 1 \in actions
    BY <1>2
  <1>3. CASE 2 \notin actions /\ 1 \notin actions
    BY <1>3
  <1> QED BY <1>1, <1>2, <1>3

(* HighestAction is attained, or NONE, and bounds every action.            *)
LEMMA HighestActionFacts ==
  ASSUME NEW table \in Seq(FaultRecord)
  PROVE  /\ HighestAction(table) \in 0 .. 2
         /\ HighestAction(table) \in {0} \cup {table[i].action : i \in DOMAIN table}
         /\ \A i \in DOMAIN table : table[i].action <= HighestAction(table)
  <1> DEFINE required == {0} \cup {table[i].action : i \in DOMAIN table}
  <1>1. required \subseteq 0 .. 2
    <2>1. \A i \in DOMAIN table : table[i] \in FaultRecord
      BY LenProperties, ElementOfSeq
    <2> QED BY <2>1 DEF FaultRecord
  <1>2. \E a \in required : \A b \in required : b <= a
    BY <1>1, GreatestAction
  <1>3. HighestAction(table) = CHOOSE a \in required : \A b \in required : b <= a
    BY DEF HighestAction
  <1> HIDE DEF required
  <1>4. /\ HighestAction(table) \in required
        /\ \A b \in required : b <= HighestAction(table)
    BY <1>2, <1>3
  <1> QED BY <1>1, <1>4 DEF required

(* Compact drops entry i and keeps every other one.                        *)
LEMMA CompactFacts ==
  ASSUME NEW S, NEW table \in Seq(S), NEW i \in 1 .. Len(table)
  PROVE  /\ Compact(table, i) \in Seq(S)
         /\ Len(Compact(table, i)) = Len(table) - 1
         /\ \A j \in 1 .. Len(table) - 1 :
              Compact(table, i)[j] = table[IF j < i THEN j ELSE j + 1]
  <1>1. Len(table) \in Nat /\ table \in [1 .. Len(table) -> S]
    BY LenProperties
  <1>2. Compact(table, i) \in [1 .. Len(table) - 1 -> S]
    BY <1>1 DEF Compact
  <1>3. Len(table) - 1 \in Nat
    BY <1>1
  <1> QED BY <1>1, <1>2, <1>3 DEF Compact

LEMMA NewFaultType ==
  ASSUME NEW r \in Reports, NEW now \in Times
  PROVE  NewFault(r, now) \in FaultRecord /\ NewFault(r, now).code = r.code
  BY FaultAssumption DEF NewFault, FaultRecord

-----------------------------------------------------------------------------
(* The kinds of step.                                                      *)

Raises(f) ==
  /\ ~IsActive(f.code) /\ Len(active) < MaxActive
  /\ active' = Append(active, f) /\ AddToLog(f)
  /\ highest_action' = HighestAction(active')

Refreshes(i, g) ==
  /\ <<g.code, g.severity, g.action, g.latched>>
       = <<active[i].code, active[i].severity, active[i].action, active[i].latched>>
  /\ active' = [active EXCEPT ![i] = g]
  /\ UNCHANGED <<logVars, highest_action>>

Withdraws(i) == (~active[i].latched \/ active[i].max_retries > 0) /\ Remove(i)

LEMMA NextKinds ==
  ASSUME TypeOK, Next
  PROVE  \/ UNCHANGED vars
         \/ \E f \in FaultRecord : Raises(f)
         \/ \E i \in 1 .. Len(active), g \in FaultRecord : Refreshes(i, g)
         \/ \E i \in 1 .. Len(active) : Withdraws(i)
  <1>0. DOMAIN active = 1 .. Len(active) /\ \A i \in 1 .. Len(active) : active[i] \in FaultRecord
    BY LenProperties, ElementOfSeq DEF TypeOK
  <1>1. ASSUME NEW r \in Reports, NEW now \in Times, Report(r, now)
        PROVE  \/ UNCHANGED vars
               \/ \E f \in FaultRecord : Raises(f)
               \/ \E i \in 1 .. Len(active), g \in FaultRecord : Refreshes(i, g)
    <2>1. CASE \E i \in DOMAIN active :
                 /\ active' = [active EXCEPT ![i].timestamp = now]
                 /\ UNCHANGED <<logVars, highest_action>>
      <3>1. PICK i \in 1 .. Len(active) :
              /\ active' = [active EXCEPT ![i].timestamp = now]
              /\ UNCHANGED <<logVars, highest_action>>
        BY <1>0, <2>1
      <3> DEFINE g == [active[i] EXCEPT !.timestamp = now]
      <3>2. active[i] \in FaultRecord /\ now \in Nat
        BY <1>0, FaultAssumption
      <3>3. g \in FaultRecord /\ Refreshes(i, g)
        BY <3>1, <3>2 DEF FaultRecord, Refreshes
      <3> QED BY <3>3
    <2>2. CASE /\ ~IsActive(r.code) /\ Len(active) < MaxActive
               /\ active' = Append(active, NewFault(r, now))
               /\ AddToLog(NewFault(r, now))
               /\ highest_action' = HighestAction(active')
      BY <2>2, NewFaultType DEF Raises
    <2> QED BY <1>1, <2>1, <2>2 DEF Report
  <1>2. ASSUME NEW code, Clear(code)
        PROVE  UNCHANGED vars \/ \E i \in 1 .. Len(active) : Withdraws(i)
    BY <1>0, <1>2 DEF Clear, Withdraws
  <1>3. ASSUME NEW code, TryRetry(code)
        PROVE  UNCHANGED vars \/ \E i \in 1 .. Len(active) : Withdraws(i)
    <2>1. \A i \in 1 .. Len(active) : Retriable(active[i]) => active[i].max_retries > 0
      BY <1>0 DEF Retriable, FaultRecord
    <2> QED BY <1>0, <1>3, <2>1 DEF TryRetry, Withdraws
  <1>4. ASSUME NEW code, NEW n \in Retries, SetRetries(code, n)
        PROVE  \/ UNCHANGED vars
               \/ \E i \in 1 .. Len(active), g \in FaultRecord : Refreshes(i, g)
    <2>1. CASE \E i \in DOMAIN active :
                 /\ active' = [active EXCEPT ![i].max_retries = n]
                 /\ UNCHANGED <<logVars, highest_action>>
      <3>1. PICK i \in 1 .. Len(active) :
              /\ active' = [active EXCEPT ![i].max_retries = n]
              /\ UNCHANGED <<logVars, highest_action>>
        BY <1>0, <2>1
      <3> DEFINE g == [active[i] EXCEPT !.max_retries = n]
      <3>2. active[i] \in FaultRecord /\ n \in Nat
        BY <1>0, FaultAssumption
      <3>3. g \in FaultRecord /\ Refreshes(i, g)
        BY <3>1, <3>2 DEF FaultRecord, Refreshes
      <3> QED BY <3>3
    <2> QED BY <1>4, <2>1 DEF SetRetries
  <1> QED BY <1>1, <1>2, <1>3, <1>4 DEF Next

-----------------------------------------------------------------------------
(* Types.                                                                  *)

LEMMA LogStep ==
  ASSUME TypeOK, NEW f \in FaultRecord, AddToLog(f)
  PROVE  /\ log' \in [0 .. LogSize - 1 -> FaultRecord]
         /\ log_head' \in 0 .. LogSize - 1 /\ log_count' \in 0 .. LogSize
  <1>1. LogSize \in Nat \ {0}
    BY FaultAssumption
  <1> QED BY <1>1 DEF AddToLog, TypeOK

(* The variables keep their types, table and log their capacity.           *)
THEOREM FaultTypeCorrect == Spec => []TypeOK
  <1>1. Init => TypeOK
    <2> SUFFICES ASSUME Init PROVE TypeOK
      OBVIOUS
    <2>1. Blank \in FaultRecord
      BY DEF Blank, NewFault, FaultRecord
    <2>2. active \in Seq(FaultRecord) /\ Len(active) <= MaxActive
      BY FaultAssumption, EmptySeq DEF Init
    <2>3. log \in [0 .. LogSize - 1 -> FaultRecord]
      BY <2>1 DEF Init
    <2> QED BY <2>2, <2>3, FaultAssumption DEF Init, TypeOK
  <1>2. TypeOK /\ [Next]_vars => TypeOK'
    <2> SUFFICES ASSUME TypeOK, Next PROVE TypeOK'
      BY DEF vars, TypeOK
    <2>0. active \in Seq(FaultRecord) /\ Len(active) \in Nat /\ MaxActive \in Nat
      BY FaultAssumption, LenProperties DEF TypeOK
    <2>1. ASSUME NEW f \in FaultRecord, Raises(f) PROVE TypeOK'
      <3>1. active' \in Seq(FaultRecord) /\ Len(active') <= MaxActive
        BY <2>0, <2>1, AppendProperties DEF Raises
      <3>2. highest_action' \in NONE .. SHUTDOWN
        BY <2>1, <3>1, HighestActionFacts DEF Raises
      <3>3. AddToLog(f)
        BY <2>1 DEF Raises
      <3> QED BY <3>1, <3>2, <3>3, LogStep DEF TypeOK
    <2>2. ASSUME NEW i \in 1 .. Len(active), NEW g \in FaultRecord, Refreshes(i, g)
          PROVE  TypeOK'
      <3>1. active' \in Seq(FaultRecord) /\ Len(active') = Len(active)
        BY <2>0, <2>2, ExceptSeq DEF Refreshes
      <3> QED BY <2>2, <3>1 DEF Refreshes, logVars, TypeOK
    <2>3. ASSUME NEW i \in 1 .. Len(active), Withdraws(i) PROVE TypeOK'
      <3>1. active' \in Seq(FaultRecord) /\ Len(active') <= MaxActive
        <4>1. active' = Compact(active, i)
          BY <2>3 DEF Withdraws, Remove
        <4>2. active' \in Seq(FaultRecord) /\ Len(active') = Len(active) - 1
          BY <2>0, <4>1, CompactFacts
        <4> QED BY <2>0, <4>2 DEF TypeOK
      <3>2. highest_action' \in NONE .. SHUTDOWN
        BY <2>3, <3>1, HighestActionFacts DEF Withdraws, Remove
      <3> QED BY <2>3, <3>1, <3>2 DEF Withdraws, Remove, logVars, TypeOK
    <2>4. CASE UNCHANGED vars
      BY <2>4 DEF vars, TypeOK
    <2> QED BY <2>1, <2>2, <2>3, <2>4, NextKinds
  <1> QED BY <1>1, <1>2, PTL DEF Spec

-----------------------------------------------------------------------------
(* The table.                                                              *)

LEMMA CodesApart ==
  ASSUME TypeOK, NoDuplicateCodes, Next
  PROVE  NoDuplicateCodes'
  <1>0. /\ active \in Seq(FaultRecord) /\ Len(active) \in Nat
        /\ DOMAIN active = 1 .. Len(active)
    BY LenProperties DEF TypeOK
  <1>1. ASSUME NEW f \in FaultRecord, Raises(f) PROVE NoDuplicateCodes'
    <2>1. /\ active' \in Seq(FaultRecord) /\ Len(active') = Len(active) + 1
          /\ \A j \in 1 .. Len(active) : active'[j] = active[j]
          /\ active'[Len(active) + 1] = f
      BY <1>0, <1>1, AppendProperties DEF Raises
    <2>2. DOMAIN active' = 1 .. Len(active) + 1
      BY <2>1, LenProperties
    <2>3. \A j \in 1 .. Len(active) : active[j].code # f.code
      BY <1>0, <1>1 DEF Raises, IsActive
    <2> QED BY <1>0, <2>1, <2>2, <2>3 DEF NoDuplicateCodes
  <1>2. ASSUME NEW i \in 1 .. Len(active), NEW g \in FaultRecord, Refreshes(i, g)
        PROVE  NoDuplicateCodes'
    <2>1. /\ DOMAIN active' = 1 .. Len(active)
          /\ \A j \in 1 .. Len(active) : active'[j] = IF j = i THEN g ELSE active[j]
      BY <1>0, <1>2, ExceptSeq, LenProperties DEF Refreshes
    <2>2. g.code = active[i].code
      BY <1>2 DEF Refreshes
    <2> QED BY <1>0, <2>1, <2>2 DEF NoDuplicateCodes
  <1>3. ASSUME NEW i \in 1 .. Len(active), Withdraws(i) PROVE NoDuplicateCodes'
    <2>1. active' = Compact(active, i)
      BY <1>3 DEF Withdraws, Remove
    <2>2. /\ active' \in Seq(FaultRecord) /\ Len(active') = Len(active) - 1
          /\ \A j \in 1 .. Len(active) - 1 : active'[j] = active[IF j < i THEN j ELSE j + 1]
      BY <1>0, <2>1, CompactFacts
    <2>3. DOMAIN active' = 1 .. Len(active) - 1
      BY <2>2, LenProperties
    <2> DEFINE at(j) == IF j < i THEN j ELSE j + 1
    <2>4. ASSUME NEW j \in 1 .. Len(active) - 1, NEW k \in 1 .. Len(active) - 1,
                 active'[j].code = active'[k].code
          PROVE  j = k
      <3>1. at(j) \in 1 .. Len(active) /\ at(k) \in 1 .. Len(active)
        BY <1>0
      <3>2. active'[j] = active[at(j)] /\ active'[k] = active[at(k)]
        BY <2>2
      <3>3. at(j) = at(k)
        BY <1>0, <2>4, <3>1, <3>2 DEF NoDuplicateCodes
      <3> QED BY <1>0, <3>3
    <2> QED BY <2>3, <2>4, SMTT(30) DEF NoDuplicateCodes
  <1>4. CASE UNCHANGED vars
    BY <1>4 DEF vars, NoDuplicateCodes
  <1> QED BY <1>1, <1>2, <1>3, <1>4, NextKinds

(* No code ever has two records in the table.                              *)
THEOREM FaultNoDuplicateCodes == Spec => []NoDuplicateCodes
  <1>1. Init => NoDuplicateCodes
    BY DEF Init, NoDuplicateCodes
  <1>2. TypeOK /\ NoDuplicateCodes /\ [Next]_vars => NoDuplicateCodes'
    BY CodesApart DEF vars, NoDuplicateCodes
  <1> QED BY <1>1, <1>2, FaultTypeCorrect, PTL DEF Spec

(* The cached action is the highest that any active fault requires.        *)
THEOREM FaultHighestActionExact == Spec => []HighestActionExact
  <1>1. Init => HighestActionExact
    BY DEF Init, HighestActionExact
  <1>2. TypeOK /\ TypeOK' /\ HighestActionExact /\ [Next]_vars => HighestActionExact'
    <2> SUFFICES ASSUME TypeOK, TypeOK', HighestActionExact, Next
                 PROVE  HighestActionExact'
      BY DEF vars, HighestActionExact
    <2>1. CASE highest_action' = HighestAction(active')
      <3>1. active' \in Seq(FaultRecord)
        BY DEF TypeOK
      <3> QED BY <2>1, <3>1, HighestActionFacts DEF HighestActionExact
    <2>2. ASSUME NEW i \in 1 .. Len(active), NEW g \in FaultRecord, Refreshes(i, g)
          PROVE  HighestActionExact'
      <3>1. /\ DOMAIN active = 1 .. Len(active) /\ DOMAIN active' = 1 .. Len(active)
            /\ \A j \in 1 .. Len(active) : active'[j] = IF j = i THEN g ELSE active[j]
        BY <2>2, ExceptSeq, LenProperties DEF Refreshes, TypeOK
      <3>2. g.action = active[i].action /\ highest_action' = highest_action
        BY <2>2 DEF Refreshes
      <3>3. \A j \in 1 .. Len(active) : active'[j].action = active[j].action
        BY <3>1, <3>2
      <3> QED BY <3>1, <3>2, <3>3 DEF HighestActionExact
    <2>3. CASE UNCHANGED vars
      BY <2>3 DEF vars, HighestActionExact
    <2> QED BY <2>1, <2>2, <2>3, NextKinds DEF Raises, Withdraws, Remove
  <1> QED BY <1>1, <1>2, FaultTypeCorrect, PTL DEF Spec

-----------------------------------------------------------------------------
(* The journal.                                                            *)

Slot(head, count, k) == (head - count + k - 1) % LogSize

(* The slot of the k-th oldest entry, the wrap spelt out.                  *)
LEMMA SlotFacts ==
  ASSUME NEW head \in 0 .. LogSize - 1, NEW count \in 0 .. LogSize, NEW k \in 1 .. count
  PROVE  /\ Slot(head, count, k) = IF head - count + k - 1 < 0
                                   THEN head - count + k - 1 + LogSize
                                   ELSE head - count + k - 1
         /\ Slot(head, count, k) \in 0 .. LogSize - 1
  <1>1. LogSize \in Nat \ {0}
    BY FaultAssumption
  <1>2. head - count + k - 1 \in -LogSize .. LogSize - 1
    BY <1>1
  <1> QED BY <1>1, <1>2 DEF Slot

(* The slots after one more entry, in a ring with room and in a full one.  *)
LEMMA SlotNext ==
  ASSUME NEW head \in 0 .. LogSize - 1, NEW count \in 0 .. LogSize - 1, NEW next,
         next = IF head + 1 = LogSize THEN 0 ELSE head + 1
  PROVE  /\ Slot(next, count + 1, count + 1) = head
         /\ \A k \in 1 .. count :
              /\ Slot(next, count + 1, k) = Slot(head, count, k)
              /\ Slot(head, count, k) # head
  <1>1. LogSize \in Nat \ {0} /\ next \in 0 .. LogSize - 1
    BY FaultAssumption
  <1>2. count \in 0 .. LogSize /\ count + 1 \in 0 .. LogSize /\ count + 1 \in 1 .. count + 1
    BY <1>1
  <1>3. Slot(next, count + 1, count + 1) = IF next - 1 < 0 THEN next - 1 + LogSize ELSE next - 1
    BY <1>1, <1>2, SlotFacts
  <1>4. ASSUME NEW k \in 1 .. count
        PROVE  /\ Slot(next, count + 1, k) = Slot(head, count, k)
               /\ Slot(head, count, k) # head
    <2>1. k \in 1 .. count + 1
      BY <1>1
    <2>2. Slot(next, count + 1, k) = IF next - (count + 1) + k - 1 < 0
                                     THEN next - (count + 1) + k - 1 + LogSize
                                     ELSE next - (count + 1) + k - 1
      BY <1>1, <1>2, <2>1, SlotFacts
    <2>3. Slot(head, count, k) = IF head - count + k - 1 < 0
                                 THEN head - count + k - 1 + LogSize
                                 ELSE head - count + k - 1
      BY <1>2, SlotFacts
    <2> QED BY <1>1, <2>2, <2>3
  <1> QED BY <1>1, <1>3, <1>4

LEMMA SlotNextFull ==
  ASSUME NEW head \in 0 .. LogSize - 1, NEW next,
         next = IF head + 1 = LogSize THEN 0 ELSE head + 1
  PROVE  /\ Slot(next, LogSize, LogSize) = head
         /\ \A k \in 1 .. LogSize - 1 :
              /\ Slot(next, LogSize, k) = Slot(head, LogSize, k + 1)
              /\ Slot(head, LogSize, k + 1) # head
  <1>1. LogSize \in Nat \ {0} /\ next \in 0 .. LogSize - 1
    BY FaultAssumption
  <1>2. LogSize \in 0 .. LogSize /\ LogSize \in 1 .. LogSize
    BY <1>1
  <1>3. Slot(next, LogSize, LogSize) = IF next - 1 < 0 THEN next - 1 + LogSize ELSE next - 1
    BY <1>1, <1>2, SlotFacts
  <1>4. ASSUME NEW k \in 1 .. LogSize - 1
        PROVE  /\ Slot(next, LogSize, k) = Slot(head, LogSize, k + 1)
               /\ Slot(head, LogSize, k + 1) # head
    <2>1. k \in 1 .. LogSize /\ k + 1 \in 1 .. LogSize
      BY <1>1
    <2>2. Slot(next, LogSize, k) = IF next - LogSize + k - 1 < 0
                                   THEN next - LogSize + k - 1 + LogSize
                                   ELSE next - LogSize + k - 1
      BY <1>1, <1>2, <2>1, SlotFacts
    <2>3. Slot(head, LogSize, k + 1) = IF head - LogSize + (k + 1) - 1 < 0
                                       THEN head - LogSize + (k + 1) - 1 + LogSize
                                       ELSE head - LogSize + (k + 1) - 1
      BY <1>2, <2>1, SlotFacts
    <2> QED BY <1>1, <2>2, <2>3
  <1> QED BY <1>1, <1>3, <1>4

LEMMA JournalType ==
  ASSUME TypeOK
  PROVE  /\ Journal \in Seq(FaultRecord) /\ Len(Journal) = log_count
         /\ \A k \in 1 .. log_count : Journal[k] = log[Slot(log_head, log_count, k)]
  <1>1. log_count \in Nat
    BY FaultAssumption DEF TypeOK
  <1>2. \A k \in 1 .. log_count : log[Slot(log_head, log_count, k)] \in FaultRecord
    BY SlotFacts DEF TypeOK
  <1>3. Journal = [k \in 1 .. log_count |-> log[Slot(log_head, log_count, k)]]
    BY DEF Journal, Slot
  <1>4. Journal \in [1 .. log_count -> FaultRecord]
    BY <1>2, <1>3
  <1>5. Journal \in Seq(FaultRecord)
    BY <1>1, <1>4
  <1> QED BY <1>1, <1>3, <1>5

(* Writing one entry appends it to the journal, which forgets its oldest   *)
(* entry when the ring is full.                                            *)
LEMMA JournalKeeps ==
  ASSUME TypeOK, TypeOK', NEW f \in FaultRecord, AddToLog(f)
  PROVE  Journal' = Board!Keep(Journal, f)
  <1>1. /\ LogSize \in Nat \ {0} /\ log_head \in 0 .. LogSize - 1
        /\ log_count \in 0 .. LogSize
        /\ log' = [log EXCEPT ![log_head] = f]
        /\ log_head' = (log_head + 1) % LogSize
        /\ log_count' = IF log_count < LogSize THEN log_count + 1 ELSE log_count
    BY FaultAssumption DEF TypeOK, AddToLog
  <1>2. log_head' = IF log_head + 1 = LogSize THEN 0 ELSE log_head + 1
    BY <1>1
  <1>3. /\ Journal' \in Seq(FaultRecord) /\ Len(Journal') = log_count'
        /\ \A k \in 1 .. log_count' : Journal'[k] = log'[Slot(log_head', log_count', k)]
    <2>1. log_count' \in Nat
      BY <1>1
    <2>2. \A k \in 1 .. log_count' : log'[Slot(log_head', log_count', k)] \in FaultRecord
      BY SlotFacts DEF TypeOK
    <2>3. Journal' = [k \in 1 .. log_count' |-> log'[Slot(log_head', log_count', k)]]
      BY DEF Journal, Slot
    <2>4. Journal' \in [1 .. log_count' -> FaultRecord]
      BY <2>2, <2>3
    <2>5. Journal' \in Seq(FaultRecord)
      BY <2>1, <2>4
    <2> QED BY <2>1, <2>3, <2>5
  <1>4. \A s \in 0 .. LogSize - 1 : log'[s] = IF s = log_head THEN f ELSE log[s]
    BY <1>1 DEF TypeOK
  <1>5. CASE log_count < LogSize
    <2>1. log_count' = log_count + 1 /\ log_count \in 0 .. LogSize - 1
      BY <1>1, <1>5
    <2>2. ASSUME NEW k \in 1 .. log_count PROVE Journal'[k] = Journal[k]
      <3>1. Slot(log_head', log_count', k) = Slot(log_head, log_count, k)
        BY <1>1, <1>2, <1>5, <2>1, SlotNext
      <3>2. Slot(log_head, log_count, k) \in (0 .. LogSize - 1) \ {log_head}
        <4>1. Slot(log_head, log_count, k) \in 0 .. LogSize - 1
          BY <1>1, SlotFacts
        <4>2. Slot(log_head, log_count, k) # log_head
          BY <1>1, <1>2, <2>1, SlotNext
        <4> QED BY <4>1, <4>2
      <3> QED BY <1>1, <1>3, <1>4, <2>1, <3>1, <3>2, JournalType
    <2>3. Journal'[log_count + 1] = f
      <3>1. Slot(log_head', log_count', log_count + 1) = log_head
        <4>1. Slot(log_head', log_count + 1, log_count + 1) = log_head
          BY <1>1, <1>2, <2>1, SlotNext
        <4> QED BY <2>1, <4>1
      <3> QED BY <1>1, <1>3, <1>4, <2>1, <3>1
    <2>4. /\ Append(Journal, f) \in Seq(FaultRecord)
          /\ Len(Append(Journal, f)) = log_count + 1
          /\ \A k \in 1 .. log_count : Append(Journal, f)[k] = Journal[k]
          /\ Append(Journal, f)[log_count + 1] = f
      BY JournalType, AppendProperties
    <2>5. \A k \in 1 .. log_count' : Journal'[k] = Append(Journal, f)[k]
      BY <1>1, <2>1, <2>2, <2>3, <2>4
    <2>6. Journal' = Append(Journal, f)
      BY <1>3, <2>1, <2>4, <2>5, SeqEqual
    <2> QED BY <1>5, <2>6, JournalType DEF Board!Keep
  <1>6. CASE ~(log_count < LogSize)
    <2>1. log_count' = LogSize /\ log_count = LogSize
      BY <1>1, <1>6
    <2>2. ASSUME NEW k \in 1 .. LogSize - 1 PROVE Journal'[k] = Journal[k + 1]
      <3>1. Slot(log_head', LogSize, k) = Slot(log_head, LogSize, k + 1)
        BY <1>1, <1>2, SlotNextFull
      <3>2. Slot(log_head, LogSize, k + 1) \in (0 .. LogSize - 1) \ {log_head}
        <4>1. LogSize \in 0 .. LogSize /\ k + 1 \in 1 .. LogSize
          BY <1>1
        <4> QED BY <1>1, <1>2, <4>1, SlotFacts, SlotNextFull
      <3> QED BY <1>1, <1>3, <1>4, <2>1, <3>1, <3>2, JournalType
    <2>3. Journal'[LogSize] = f
      <3>1. Slot(log_head', LogSize, LogSize) = log_head
        BY <1>1, <1>2, SlotNextFull
      <3> QED BY <1>1, <1>3, <1>4, <2>1, <3>1
    <2>4. Journal # <<>>
      BY <1>1, <2>1, JournalType
    <2>5. /\ Tail(Journal) \in Seq(FaultRecord) /\ Len(Tail(Journal)) = LogSize - 1
          /\ \A k \in 1 .. LogSize - 1 : Tail(Journal)[k] = Journal[k + 1]
      BY <2>1, <2>4, JournalType, HeadTailProperties
    <2>6. /\ Append(Tail(Journal), f) \in Seq(FaultRecord)
          /\ Len(Append(Tail(Journal), f)) = LogSize
          /\ \A k \in 1 .. LogSize - 1 : Append(Tail(Journal), f)[k] = Tail(Journal)[k]
          /\ Append(Tail(Journal), f)[LogSize] = f
      BY <1>1, <2>5, AppendProperties
    <2>7. \A k \in 1 .. LogSize : Journal'[k] = Append(Tail(Journal), f)[k]
      BY <1>1, <2>2, <2>3, <2>5, <2>6
    <2>8. Journal' = Append(Tail(Journal), f)
      BY <1>3, <2>1, <2>6, <2>7, SeqEqual
    <2> QED BY <1>6, <2>8, JournalType DEF Board!Keep
  <1> QED BY <1>5, <1>6

-----------------------------------------------------------------------------
(* The refinement.                                                         *)

BoardFaults == {active[i] : i \in DOMAIN active}

LEMMA BoardRequires ==
  ASSUME TypeOK', highest_action' = HighestAction(active')
  PROVE  Board!Requires(BoardFaults')
  <1>1. active' \in Seq(FaultRecord)
    BY DEF TypeOK
  <1> QED BY <1>1, HighestActionFacts DEF Board!Requires, BoardFaults

LEMMA BoardStep ==
  ASSUME TypeOK, TypeOK', NoDuplicateCodes, Next
  PROVE  Board!Next \/ UNCHANGED Board!vars
  <1>0. /\ active \in Seq(FaultRecord) /\ Len(active) \in Nat
        /\ DOMAIN active = 1 .. Len(active)
    BY LenProperties DEF TypeOK
  <1>1. ASSUME NEW f \in FaultRecord, Raises(f) PROVE Board!Raise
    <2>1. /\ active' \in Seq(FaultRecord) /\ Len(active') = Len(active) + 1
          /\ \A j \in 1 .. Len(active) : active'[j] = active[j]
          /\ active'[Len(active) + 1] = f
      BY <1>0, <1>1, AppendProperties DEF Raises
    <2>2. DOMAIN active' = 1 .. Len(active) + 1
      BY <2>1, LenProperties
    <2>3. BoardFaults' = BoardFaults \cup {f}
      BY <1>0, <2>1, <2>2 DEF BoardFaults
    <2>4. \A g \in BoardFaults : g.code # f.code
      BY <1>1 DEF Raises, IsActive, BoardFaults
    <2>5. Journal' = Board!Keep(Journal, f)
      BY <1>1, JournalKeeps DEF Raises
    <2>6. Board!Requires(BoardFaults')
      BY <1>1, BoardRequires DEF Raises
    <2> QED BY <2>3, <2>4, <2>5, <2>6 DEF Board!Raise, BoardFaults
  <1>2. ASSUME NEW i \in 1 .. Len(active), NEW g \in FaultRecord, Refreshes(i, g)
        PROVE  Board!Refresh
    <2>1. /\ DOMAIN active' = 1 .. Len(active)
          /\ \A j \in 1 .. Len(active) : active'[j] = IF j = i THEN g ELSE active[j]
      BY <1>0, <1>2, ExceptSeq, LenProperties DEF Refreshes
    <2>2. \A j \in 1 .. Len(active) : active[j] = active[i] => j = i
      BY <1>0 DEF NoDuplicateCodes
    <2>3. BoardFaults' = (BoardFaults \ {active[i]}) \cup {g}
      <3>1. BoardFaults' = {active'[j] : j \in 1 .. Len(active)}
        BY <2>1 DEF BoardFaults
      <3>2. BoardFaults = {active[j] : j \in 1 .. Len(active)}
        BY <1>0 DEF BoardFaults
      <3> QED BY <2>1, <2>2, <3>1, <3>2
    <2>4. active[i] \in BoardFaults /\ g \in BoardFaults'
      BY <1>0, <2>3 DEF BoardFaults
    <2>5. Journal' = Journal /\ highest_action' = highest_action
      BY <1>2 DEF Refreshes, logVars, Journal
    <2>6. <<g.code, g.severity, g.action, g.latched>>
            = <<active[i].code, active[i].severity, active[i].action, active[i].latched>>
      BY <1>2 DEF Refreshes
    <2> QED BY <2>3, <2>4, <2>5, <2>6 DEF Board!Refresh, BoardFaults
  <1>3. ASSUME NEW i \in 1 .. Len(active), Withdraws(i) PROVE Board!Withdraw
    <2>1. active' = Compact(active, i)
      BY <1>3 DEF Withdraws, Remove
    <2>2. /\ active' \in Seq(FaultRecord) /\ Len(active') = Len(active) - 1
          /\ \A j \in 1 .. Len(active) - 1 : active'[j] = active[IF j < i THEN j ELSE j + 1]
      BY <1>0, <2>1, CompactFacts
    <2>3. DOMAIN active' = 1 .. Len(active) - 1
      BY <2>2, LenProperties
    <2>4. \A j \in 1 .. Len(active) : active[j] = active[i] => j = i
      BY <1>0 DEF NoDuplicateCodes
    <2>5. BoardFaults' = BoardFaults \ {active[i]}
      <3>1. ASSUME NEW x \in BoardFaults' PROVE x \in BoardFaults \ {active[i]}
        <4>1. PICK j \in 1 .. Len(active) - 1 : x = active'[j]
          BY <2>3 DEF BoardFaults
        <4> DEFINE k == IF j < i THEN j ELSE j + 1
        <4>2. k \in 1 .. Len(active) /\ k # i
          BY <1>0
        <4>3. x = active[k]
          BY <2>2, <4>1
        <4> HIDE DEF k
        <4> QED BY <1>0, <2>4, <4>2, <4>3 DEF BoardFaults
      <3>2. ASSUME NEW x \in BoardFaults \ {active[i]} PROVE x \in BoardFaults'
        <4>1. PICK k \in 1 .. Len(active) : x = active[k]
          BY <1>0 DEF BoardFaults
        <4>2. k # i
          BY <4>1
        <4> DEFINE j == IF k < i THEN k ELSE k - 1
        <4>3. j \in 1 .. Len(active) - 1 /\ k = IF j < i THEN j ELSE j + 1
          BY <1>0, <4>2
        <4>4. x = active'[j]
          BY <2>2, <4>1, <4>3
        <4> HIDE DEF j
        <4> QED BY <2>3, <4>3, <4>4 DEF BoardFaults
      <3> QED BY <3>1, <3>2
    <2>6. active[i] \in BoardFaults
      BY <1>0 DEF BoardFaults
    <2>7. Journal' = Journal
      BY <1>3 DEF Withdraws, Remove, logVars, Journal
    <2>8. Board!Requires(BoardFaults')
      BY <1>3, BoardRequires DEF Withdraws, Remove
    <2>9. ~active[i].latched \/ active[i].max_retries > 0
      BY <1>3 DEF Withdraws
    <2> QED BY <2>5, <2>6, <2>7, <2>8, <2>9 DEF Board!Withdraw, BoardFaults
  <1>4. CASE UNCHANGED vars
    BY <1>4 DEF vars, Board!vars, Journal
  <1> QED BY <1>1, <1>2, <1>3, <1>4, NextKinds DEF Board!Next

(* The table, the ring and the cached action implement the board.          *)
THEOREM FaultImplementsBoard == Spec => ImplementsBoard
  <1>1. Init => Board!Init
    <2> SUFFICES ASSUME Init PROVE Board!Init
      OBVIOUS
    <2>1. active = <<>> /\ log_count = 0 /\ highest_action = 0
      BY DEF Init
    <2>2. Journal = <<>>
      BY <2>1 DEF Journal
    <2> QED BY <2>1, <2>2 DEF Board!Init
  <1>2. TypeOK /\ TypeOK' /\ NoDuplicateCodes /\ [Next]_vars => [Board!Next]_Board!vars
    <2>1. UNCHANGED vars => UNCHANGED Board!vars
      BY DEF vars, Board!vars, Journal
    <2> QED BY <2>1, BoardStep
  <1> QED BY <1>1, <1>2, FaultTypeCorrect, FaultNoDuplicateCodes, PTL
          DEF Spec, ImplementsBoard, Board!Spec

-----------------------------------------------------------------------------
(* Loops over the ranges of the facade.                                    *)

LEMMA FacadeSteps ==
  FacadeNext => (Next /\ Called) \/ BeginWalk \/ Visit
  BY DEF FacadeNext, Next

(* The manager under the facade is the manager.                            *)
LEMMA FacadeManages == FacadeSpec => Spec
  <1>1. FacadeInit => Init
    BY DEF FacadeInit
  <1>2. [FacadeNext]_facadeVars => [Next]_vars
    BY FacadeSteps DEF facadeVars, BeginWalk, Visit
  <1> QED BY <1>1, <1>2, PTL DEF FacadeSpec, Spec

(* While the ring has room it is written from its first slot on.           *)
RingInv == log_count < LogSize => log_head = log_count

LEMMA RingFills == Spec => []RingInv
  <1>1. Init => RingInv
    BY DEF Init, RingInv
  <1>2. TypeOK /\ RingInv /\ [Next]_vars => RingInv'
    <2> SUFFICES ASSUME TypeOK, RingInv, [Next]_vars PROVE RingInv'
      OBVIOUS
    <2>1. LogSize \in Nat \ {0} /\ log_head \in 0 .. LogSize - 1 /\ log_count \in 0 .. LogSize
      BY FaultAssumption DEF TypeOK
    <2>2. ASSUME NEW f, AddToLog(f) PROVE RingInv'
      <3> SUFFICES ASSUME log_count' < LogSize PROVE log_head' = log_count'
        BY DEF RingInv
      <3>1. log_count' = log_count + 1 /\ log_head = log_count
        BY <2>1, <2>2 DEF AddToLog, RingInv
      <3>2. log_head + 1 \in 0 .. LogSize - 1 /\ log_head' = (log_head + 1) % LogSize
        BY <2>1, <2>2, <3>1 DEF AddToLog
      <3> QED BY <2>1, <3>1, <3>2
    <2>3. CASE UNCHANGED logVars
      BY <2>3 DEF logVars, RingInv
    <2> QED BY <2>2, <2>3, NextKinds
            DEF Raises, Refreshes, Withdraws, Remove, vars, logVars
  <1> QED BY <1>1, <1>2, FaultTypeCorrect, PTL DEF Spec

(* Arithmetic of a ring, and of an iterator past a shrinking table.        *)
LEMMA ModOnce ==
  ASSUME NEW n \in Nat \ {0}, NEW a \in Nat, a < n + n
  PROVE  a % n = IF a < n THEN a ELSE a - n
  <1>1. CASE a < n
    BY <1>1
  <1>2. CASE ~(a < n)
    <2>1. a - n \in 0 .. n - 1
      BY <1>2
    <2>2. (a - n) % n = a - n
      BY <2>1
    <2>3. a % n = (a - n) % n
      OBVIOUS
    <2> QED BY <1>2, <2>2, <2>3
  <1> QED BY <1>1, <1>2

LEMMA ShorterTable ==
  ASSUME NEW ghost \in Nat, NEW p \in Int, NEW e \in Int,
         NEW before \in Nat, NEW after \in Nat, before <= after,
         ghost <= IF p - 1 > e - before THEN p - 1 - (e - before) ELSE 0
  PROVE  ghost <= IF p - 1 > e - after THEN p - 1 - (e - after) ELSE 0
  OBVIOUS

(* Where the k-th slot of a full ring stands in the journal.               *)
LEMMA Rotation ==
  ASSUME NEW head \in 0 .. LogSize - 1, NEW k \in 1 .. LogSize
  PROVE  LET r == IF head = 0 THEN 0 ELSE LogSize - head
             place == ((k + r - 1) % LogSize) + 1
         IN /\ place \in 1 .. LogSize /\ Slot(head, LogSize, place) = k - 1
            /\ r \in 0 .. LogSize - 1
  <1> DEFINE r == IF head = 0 THEN 0 ELSE LogSize - head
             a == k + r - 1
             m == a % LogSize
             place == m + 1
  <1>1. LogSize \in Nat \ {0} /\ r \in 0 .. LogSize - 1
    BY FaultAssumption
  <1>2. a \in Nat /\ a < LogSize + LogSize
    BY <1>1
  <1>3. r = (IF head = 0 THEN 0 ELSE LogSize - head) /\ a = k + r - 1
    OBVIOUS
  <1> HIDE DEF r, a
  <1>4. m = IF a < LogSize THEN a ELSE a - LogSize
    BY <1>1, <1>2, ModOnce
  <1> HIDE DEF m
  <1>5. place \in 1 .. LogSize
    BY <1>1, <1>2, <1>4
  <1>6. Slot(head, LogSize, place) = IF head - LogSize + place - 1 < 0
                                     THEN head - LogSize + place - 1 + LogSize
                                     ELSE head - LogSize + place - 1
    <2>1. LogSize \in 0 .. LogSize
      BY <1>1
    <2> HIDE DEF place
    <2> QED BY <1>5, <2>1, SlotFacts
  <1>7. Slot(head, LogSize, place) = k - 1
    BY <1>1, <1>3, <1>4, <1>6
  <1> QED BY <1>1, <1>5, <1>7 DEF m, a, r

(* A loop over log() meets the journal, rotated once the ring is full.     *)
THEOREM FacadeLogRotated == FacadeSpec => []LogRotated
  <1>1. TypeOK /\ RingInv => LogRotated
    <2> SUFFICES ASSUME TypeOK, RingInv PROVE LogRotated
      OBVIOUS
    <2>1. LogSize \in Nat \ {0} /\ log_head \in 0 .. LogSize - 1 /\ log_count \in 0 .. LogSize
      BY FaultAssumption DEF TypeOK
    <2>2. LogEntries = log_count /\ log_count \in Nat
      BY <2>1 DEF LogEntries
    <2>3. /\ Len(LogView) = log_count
          /\ \A k \in 1 .. log_count : LogView[k] = log[k - 1]
          /\ LogView = [k \in 1 .. log_count |-> log[k - 1]]
      BY <2>2 DEF LogView
    <2>4. Len(Journal) = log_count
      BY JournalType
    <2>5. \A k \in 1 .. log_count : Journal[k] = log[Slot(log_head, log_count, k)]
      BY JournalType
    <2>6. CASE log_count < LogSize
      <3>1. log_head = log_count
        BY <2>6 DEF RingInv
      <3>2. ASSUME NEW k \in 1 .. log_count PROVE Journal[k] = log[k - 1]
        <4>1. Slot(log_head, log_count, k) = k - 1
          BY <2>1, <3>1, SlotFacts
        <4> QED BY <2>5, <4>1
      <3>3. Journal = [k \in 1 .. log_count |-> log[k - 1]]
        BY <3>2 DEF Journal
      <3>4. LogView = Journal
        BY <2>3, <3>3
      <3>5. ASSUME NEW k \in 1 .. log_count
            PROVE  LogView[k] = Journal[((k + 0 - 1) % log_count) + 1]
        <4>1. k - 1 \in 0 .. log_count - 1 /\ log_count \in Nat \ {0}
          BY <2>1
        <4>2. (k - 1) % log_count = k - 1
          BY <4>1
        <4>3. k + 0 - 1 = k - 1 /\ (k - 1) + 1 = k
          BY <2>2
        <4> QED BY <3>4, <4>2, <4>3
      <3>6. 0 \in 0 .. LogSize - 1
        BY <2>1
      <3> QED BY <2>3, <2>4, <3>4, <3>5, <3>6 DEF LogRotated
    <2>7. CASE log_count = LogSize
      <3> DEFINE r == IF log_head = 0 THEN 0 ELSE LogSize - log_head
      <3>1. ASSUME NEW k \in 1 .. log_count
            PROVE  LogView[k] = Journal[((k + r - 1) % log_count) + 1]
        <4> DEFINE place == ((k + r - 1) % LogSize) + 1
        <4>1. place \in 1 .. LogSize /\ Slot(log_head, LogSize, place) = k - 1
          BY <2>1, <2>7, Rotation
        <4> HIDE DEF place
        <4>2. Journal[place] = log[k - 1]
          BY <2>5, <2>7, <4>1
        <4> QED BY <2>3, <2>7, <4>2 DEF place
      <3>2. r \in 0 .. LogSize - 1
        BY <2>1
      <3> HIDE DEF r
      <3>3. ~(log_count < LogSize)
        BY <2>1, <2>7
      <3> QED BY <2>3, <2>4, <3>1, <3>2, <3>3 DEF LogRotated
    <2> QED BY <2>1, <2>6, <2>7
  <1> QED BY <1>1, FacadeManages, FaultTypeCorrect, RingFills, PTL

-----------------------------------------------------------------------------
(* Walking the active faults while the table moves.  An entry is passed    *)
(* over only when a removal moves it behind the iterator, and the iterator *)
(* is past the table only in the part that removals took from its end.     *)

(* The codes the iterator has passed over without meeting them.            *)
Skipped == {active[i].code : i \in {j \in DOMAIN active : j < pos}} \cap unmet

Lost == end - removals

WalkInv ==
  /\ slots \in [1 .. MaxActive -> Nat]
  /\ \A k \in DOMAIN active : slots[k] = active[k].code
  /\ end \in 0 .. MaxActive /\ pos \in 1 .. end + 1
  /\ removals \in 0 .. MaxActive /\ ghosts \in Nat
  /\ unmet \subseteq ActiveCodes
  /\ \A i \in DOMAIN active : active[i].code \in unmet => i <= end
  /\ Lost <= Len(active)
  /\ ghosts <= IF pos - 1 > Lost THEN pos - 1 - Lost ELSE 0
  /\ Cardinality(Skipped) <= removals

LEMMA TableMoves ==
  ASSUME TypeOK, Next
  PROVE  LET n == Len(active)
         IN \/ /\ Len(active') = n
               /\ \A j \in 1 .. n : active'[j].code = active[j].code
            \/ /\ Len(active') = n + 1 /\ active'[n + 1].code \notin ActiveCodes
               /\ \A j \in 1 .. n : active'[j].code = active[j].code
            \/ /\ Len(active') = n - 1
               /\ \A j \in 1 .. n - 1 :
                    \E i \in {j, j + 1} : active'[j].code = active[i].code
  <1>0. active \in Seq(FaultRecord) /\ Len(active) \in Nat /\ DOMAIN active = 1 .. Len(active)
    BY LenProperties DEF TypeOK
  <1>1. ASSUME NEW f \in FaultRecord, Raises(f)
        PROVE  /\ Len(active') = Len(active) + 1 /\ active'[Len(active) + 1].code \notin ActiveCodes
               /\ \A j \in 1 .. Len(active) : active'[j].code = active[j].code
    <2>1. /\ Len(active') = Len(active) + 1 /\ active'[Len(active) + 1] = f
          /\ \A j \in 1 .. Len(active) : active'[j] = active[j]
      BY <1>0, <1>1, AppendProperties DEF Raises
    <2>2. f.code \notin ActiveCodes
      BY <1>1 DEF Raises, IsActive, ActiveCodes
    <2> QED BY <2>1, <2>2
  <1>2. ASSUME NEW i \in 1 .. Len(active), NEW g \in FaultRecord, Refreshes(i, g)
        PROVE  /\ Len(active') = Len(active)
               /\ \A j \in 1 .. Len(active) : active'[j].code = active[j].code
    <2>1. /\ Len(active') = Len(active)
          /\ \A j \in 1 .. Len(active) : active'[j] = IF j = i THEN g ELSE active[j]
      BY <1>0, <1>2, ExceptSeq DEF Refreshes
    <2> QED BY <1>2, <2>1 DEF Refreshes
  <1>3. ASSUME NEW i \in 1 .. Len(active), Withdraws(i)
        PROVE  /\ Len(active') = Len(active) - 1
               /\ \A j \in 1 .. Len(active) - 1 :
                    \E k \in {j, j + 1} : active'[j].code = active[k].code
    <2>1. active' = Compact(active, i)
      BY <1>3 DEF Withdraws, Remove
    <2>2. /\ Len(active') = Len(active) - 1
          /\ \A j \in 1 .. Len(active) - 1 : active'[j] = active[IF j < i THEN j ELSE j + 1]
      BY <1>0, <2>1, CompactFacts
    <2> QED BY <2>2
  <1>4. CASE UNCHANGED vars
    BY <1>4 DEF vars
  <1> QED BY <1>1, <1>2, <1>3, <1>4, NextKinds

(* A table has no more codes than entries.                                 *)
LEMMA FewCodes ==
  ASSUME NEW table \in Seq(FaultRecord), NEW S,
         S \subseteq {table[i].code : i \in DOMAIN table}
  PROVE  IsFiniteSet(S) /\ Cardinality(S) \in Nat /\ Cardinality(S) <= Len(table)
  <1> DEFINE n == Len(table)
             C == {table[i].code : i \in 1 .. n}
             f == [i \in 1 .. n |-> table[i].code]
  <1>1. n \in Nat /\ DOMAIN table = 1 .. n
    BY LenProperties
  <1>2. f \in Surjection(1 .. n, C)
    BY DEF Surjection
  <1>3. IsFiniteSet(1 .. n) /\ Cardinality(1 .. n) = n
    BY <1>1, FS_Interval
  <1>4. S \subseteq C
    BY <1>1
  <1> HIDE DEF f, n, C
  <1>5. IsFiniteSet(C) /\ Cardinality(C) <= n
    BY <1>2, <1>3, FS_Surjection
  <1>6. IsFiniteSet(S) /\ Cardinality(S) <= Cardinality(C)
    BY <1>4, <1>5, FS_Subset
  <1>7. Cardinality(S) \in Nat /\ Cardinality(C) \in Nat
    BY <1>5, <1>6, FS_CardinalityType
  <1> QED BY <1>1, <1>5, <1>6, <1>7 DEF n

LEMMA SkippedFew ==
  ASSUME TypeOK
  PROVE  IsFiniteSet(Skipped) /\ Cardinality(Skipped) \in Nat
  <1>1. Skipped \subseteq {active[i].code : i \in DOMAIN active}
    BY DEF Skipped
  <1> QED BY <1>1, FewCodes DEF TypeOK

Starts ==
  /\ pos' = 1 /\ ghosts' = 0 /\ removals' = 0
  /\ \/ end' = 0 /\ unmet' = {}
     \/ end' = Len(active') /\ unmet' = ActiveCodes'

Stored ==
  /\ slots \in [1 .. MaxActive -> Nat]
  /\ \A k \in DOMAIN active : slots[k] = active[k].code

LEMMA WalkStarts ==
  ASSUME TypeOK', Stored', Starts
  PROVE  WalkInv'
  <1> DEFINE m == Len(active')
  <1>0. DOMAIN active' = 1 .. m
    BY LenProperties DEF TypeOK
  <1>1. MaxActive \in Nat /\ m \in Nat /\ m <= MaxActive
    BY FaultAssumption, LenProperties DEF TypeOK
  <1>2. Skipped' = {}
    <2>1. {j \in 1 .. m : j < 1} = {}
      BY <1>1
    <2> QED BY <1>0, <2>1 DEF Skipped, Starts
  <1>3. Cardinality(Skipped') = 0
    BY <1>2, FS_EmptySet
  <1>4. /\ pos' = 1 /\ ghosts' = 0 /\ removals' = 0
        /\ end' = 0 \/ end' = m
    BY DEF Starts
  <1>5. \A i \in DOMAIN active' : active'[i].code \in unmet' => i \in 1 .. m /\ unmet' # {}
    BY <1>0
  <1> HIDE DEF m
  <1>6. /\ end' \in 0 .. MaxActive /\ end' <= m /\ 1 \in 1 .. end' + 1 /\ 0 \in 0 .. MaxActive
        /\ end' - 0 = end' /\ 0 <= IF 1 - 1 > end' THEN 1 - 1 - end' ELSE 0
    BY <1>1, <1>4
  <1>7. \A i \in DOMAIN active' : active'[i].code \in unmet' => i <= end'
    <2>1. unmet' # {} => end' = m
      BY DEF Starts, m
    <2>2. \A i \in 1 .. m : i <= m
      BY <1>1
    <2> QED BY <1>5, <2>1, <2>2
  <1>8. unmet' \subseteq ActiveCodes'
    BY DEF Starts
  <1>9. Lost' = end'
    BY <1>4, <1>6 DEF Lost
  <1>10. ghosts' <= IF pos' - 1 > Lost' THEN pos' - 1 - Lost' ELSE 0
    BY <1>4, <1>6, <1>9
  <1>11. Lost' <= m /\ Cardinality(Skipped') <= removals' /\ ghosts' \in Nat
    BY <1>3, <1>4, <1>6, <1>9
  <1>12. removals' \in 0 .. MaxActive /\ pos' \in 1 .. end' + 1 /\ end' \in 0 .. MaxActive
    BY <1>4, <1>6
  <1> QED BY <1>7, <1>8, <1>10, <1>11, <1>12 DEF WalkInv, Stored, m

LEMMA CalledKeeps ==
  ASSUME TypeOK, TypeOK', WalkInv, Next, Called
  PROVE  WalkInv'
  <1> DEFINE n == Len(active)
             m == Len(active')
  <1>0. DOMAIN active = 1 .. n /\ DOMAIN active' = 1 .. m
    BY LenProperties DEF TypeOK
  <1>1. MaxActive \in Nat /\ n \in Nat /\ m \in Nat /\ n <= MaxActive /\ m <= MaxActive
    BY FaultAssumption, LenProperties DEF TypeOK
  <1>9. \A i \in 1 .. m : active'[i].code \in Nat
    <2>1. \A i \in 1 .. m : active'[i] \in FaultRecord
      BY ElementOfSeq, LenProperties DEF TypeOK
    <2> QED BY <2>1 DEF FaultRecord
  <1>2. /\ slots' \in [1 .. MaxActive -> Nat]
        /\ \A k \in DOMAIN active' : slots'[k] = active'[k].code
    <2>1. slots' = [k \in 1 .. MaxActive |-> IF k <= m THEN active'[k].code ELSE slots[k]]
      BY DEF Called, Leftover
    <2>2. slots \in [1 .. MaxActive -> Nat]
      BY DEF WalkInv
    <2> HIDE DEF n, m
    <2> QED BY <1>0, <1>1, <1>9, <2>1, <2>2
  <1>3. CASE ~Walking
    <2>1. pos' = 1 /\ end' = 0 /\ unmet' = {} /\ ghosts' = 0 /\ removals' = 0
      BY <1>3 DEF Called, Forget
    <2> QED BY <1>2, <2>1, WalkStarts DEF Starts, Stored
  <1>4. CASE Walking
    <2>1. /\ unmet' = unmet \cap ActiveCodes'
          /\ removals' = IF m < n THEN UpToMax(removals + 1) ELSE removals
          /\ UNCHANGED <<pos, end, ghosts>>
      BY <1>4 DEF Called, ActiveCodes
    <2>2. /\ end \in 0 .. MaxActive /\ pos \in 1 .. end + 1 /\ pos <= end
          /\ removals \in 0 .. MaxActive /\ ghosts \in Nat
          /\ end - removals <= n
          /\ ghosts <= IF pos - 1 > end - removals THEN pos - 1 - (end - removals) ELSE 0
          /\ Cardinality(Skipped) <= removals
      BY <1>1, <1>4 DEF WalkInv, Lost, Walking
    <2>10. unmet \subseteq ActiveCodes /\ \A i \in 1 .. n : active[i].code \in unmet => i <= end
      BY <1>0 DEF WalkInv
    <2>3. \/ /\ m = n
             /\ \A j \in 1 .. n : active'[j].code = active[j].code
          \/ /\ m = n + 1 /\ active'[n + 1].code \notin ActiveCodes
             /\ \A j \in 1 .. n : active'[j].code = active[j].code
          \/ /\ m = n - 1
             /\ \A j \in 1 .. n - 1 : \E i \in {j, j + 1} : active'[j].code = active[i].code
      BY TableMoves
    <2> HIDE DEF n, m
    <2>4. ASSUME NEW j \in 1 .. m, active'[j].code \in unmet
          PROVE  \/ j \in 1 .. n /\ active'[j].code = active[j].code
                 \/ m < n /\ j + 1 \in 1 .. n /\ active'[j].code = active[j + 1].code
      <3>1. CASE j \in 1 .. n /\ active'[j].code = active[j].code
        BY <3>1
      <3>2. CASE m = n + 1 /\ j = n + 1 /\ active'[n + 1].code \notin ActiveCodes
        BY <2>4, <2>10, <3>2
      <3>3. CASE m = n - 1 /\ \E i \in {j, j + 1} : active'[j].code = active[i].code
        BY <1>1, <3>3
      <3>4. j \in 1 .. n \/ (m = n + 1 /\ j = n + 1)
        BY <1>1, <2>3
      <3>5. m = n - 1 => j \in 1 .. n - 1
        BY <1>1
      <3> QED BY <2>3, <3>1, <3>2, <3>3, <3>4, <3>5
    <2>5. removals' \in 0 .. MaxActive /\ removals' >= removals /\ end - removals' <= m
      <3>1. m = n \/ m = n + 1 \/ m = n - 1
        BY <2>3
      <3>2. removals' = IF m < n THEN IF removals + 1 < MaxActive THEN removals + 1
                                      ELSE MaxActive
                        ELSE removals
        BY <2>1 DEF UpToMax
      <3> QED BY <1>1, <2>2, <3>1, <3>2
    <2>6. \A i \in 1 .. m : active'[i].code \in unmet' => i <= end
      <3> SUFFICES ASSUME NEW j \in 1 .. m, active'[j].code \in unmet PROVE j <= end
        BY <2>1
      <3>1. CASE j \in 1 .. n /\ active'[j].code = active[j].code
        BY <2>10, <3>1
      <3>2. CASE j + 1 \in 1 .. n /\ active'[j].code = active[j + 1].code
        <4>1. j + 1 <= end
          BY <2>10, <3>2
        <4> QED BY <1>1, <2>2, <4>1
      <3> QED BY <2>4, <3>1, <3>2
    <2>7. Cardinality(Skipped') <= removals'
      <3>1. IsFiniteSet(Skipped) /\ Cardinality(Skipped) \in Nat
        BY SkippedFew
      <3>2. IsFiniteSet(Skipped') /\ Cardinality(Skipped') \in Nat /\ Cardinality(Skipped') <= m
        <4>1. Skipped' \subseteq {active'[i].code : i \in DOMAIN active'}
          BY DEF Skipped
        <4> QED BY <4>1, FewCodes DEF TypeOK, m
      <3>3. ASSUME NEW c \in Skipped'
            PROVE  c \in Skipped \/ (m < n /\ c = active[pos].code)
        <4>1. PICK j \in 1 .. m : j < pos /\ c = active'[j].code /\ c \in unmet
          BY <1>0, <2>1, <3>3 DEF Skipped
        <4>2. CASE j \in 1 .. n /\ c = active[j].code
          BY <1>0, <4>1, <4>2 DEF Skipped
        <4>3. CASE m < n /\ j + 1 \in 1 .. n /\ c = active[j + 1].code
          <5>1. j + 1 < pos \/ j + 1 = pos
            BY <1>1, <2>2, <4>1
          <5> QED BY <1>0, <4>1, <4>3, <5>1 DEF Skipped
        <4> QED BY <2>4, <4>1, <4>2, <4>3
      <3>4. CASE m < n
        <4> DEFINE T == Skipped \cup {active[pos].code}
        <4>1. IsFiniteSet(T) /\ Cardinality(T) <= Cardinality(Skipped) + 1 /\ Cardinality(T) \in Nat
          <5>1. IsFiniteSet(T) /\ Cardinality(T) = IF active[pos].code \in Skipped
                                 THEN Cardinality(Skipped) ELSE Cardinality(Skipped) + 1
            BY <3>1, FS_AddElement
          <5> HIDE DEF T
          <5> QED BY <3>1, <5>1
        <4>2. Skipped' \subseteq T
          BY <3>3
        <4> HIDE DEF T
        <4>3. Cardinality(Skipped') <= Cardinality(T)
          BY <4>1, <4>2, FS_Subset
        <4>4. removals' = IF removals + 1 < MaxActive THEN removals + 1 ELSE MaxActive
          BY <2>1, <3>4 DEF UpToMax
        <4> QED BY <1>1, <2>2, <3>1, <3>2, <4>1, <4>3, <4>4
      <3>5. CASE ~(m < n)
        <4>1. Skipped' \subseteq Skipped
          BY <3>3, <3>5
        <4>2. Cardinality(Skipped') <= Cardinality(Skipped)
          BY <3>1, <4>1, FS_Subset
        <4> QED BY <1>1, <2>1, <2>2, <3>1, <3>2, <3>5, <4>2
      <3> QED BY <3>4, <3>5
    <2>8. ghosts <= IF pos - 1 > end - removals' THEN pos - 1 - (end - removals') ELSE 0
      <3>1. removals \in Nat /\ removals' \in Nat /\ removals <= removals'
        BY <1>1, <2>2, <2>5
      <3>2. pos \in Int /\ end \in Int
        BY <1>1, <2>2
      <3> QED BY <2>2, <3>1, <3>2, ShorterTable
    <2>9. unmet' \subseteq ActiveCodes' /\ Lost' = end - removals'
      BY <2>1 DEF Lost
    <2> QED BY <1>0, <1>2, <2>1, <2>2, <2>5, <2>6, <2>7, <2>8, <2>9 DEF WalkInv, m
  <1> QED BY <1>3, <1>4

LEMMA VisitKeeps ==
  ASSUME TypeOK, WalkInv, Visit
  PROVE  WalkInv'
  <1> DEFINE n == Len(active)
  <1>1. /\ MaxActive \in Nat /\ n \in Nat /\ n <= MaxActive /\ DOMAIN active = 1 .. n
    BY FaultAssumption, LenProperties DEF TypeOK
  <1>2. /\ pos' = pos + 1 /\ unmet' = unmet \ {slots[pos]}
        /\ ghosts' = IF pos <= n THEN ghosts ELSE ghosts + 1
        /\ UNCHANGED <<vars, slots, end, removals>> /\ pos <= end
    BY DEF Visit, Walking
  <1>3. active' = active /\ ActiveCodes' = ActiveCodes /\ Lost' = Lost
    BY <1>2 DEF vars, ActiveCodes, Lost
  <1>4. /\ end \in 0 .. MaxActive /\ pos \in 1 .. end + 1
        /\ removals \in 0 .. MaxActive /\ ghosts \in Nat
        /\ Lost <= n /\ Lost \in Int
        /\ ghosts <= IF pos - 1 > Lost THEN pos - 1 - Lost ELSE 0
        /\ unmet \subseteq ActiveCodes /\ Cardinality(Skipped) <= removals
    BY DEF WalkInv, Lost
  <1>5. Skipped' \subseteq Skipped
    <2> SUFFICES ASSUME NEW c \in Skipped' PROVE c \in Skipped
      OBVIOUS
    <2>1. PICK j \in 1 .. n : j < pos + 1 /\ c = active[j].code /\ c \in unmet /\ c # slots[pos]
      BY <1>1, <1>2, <1>3 DEF Skipped
    <2>2. j # pos
      BY <1>1, <2>1 DEF WalkInv
    <2>3. j < pos
      BY <1>1, <1>4, <2>1, <2>2
    <2> QED BY <1>1, <2>1, <2>3 DEF Skipped
  <1>6. Cardinality(Skipped') <= removals
    <2>1. IsFiniteSet(Skipped) /\ Cardinality(Skipped) \in Nat
      BY SkippedFew
    <2>2. Cardinality(Skipped') <= Cardinality(Skipped) /\ Cardinality(Skipped') \in Nat
      BY <1>5, <2>1, FS_Subset, FS_CardinalityType
    <2> QED BY <1>4, <2>1, <2>2
  <1> HIDE DEF n
  <1>7. pos + 1 \in 1 .. end + 1 /\ ghosts' \in Nat
    BY <1>1, <1>2, <1>4
  <1>8. ghosts' <= IF (pos + 1) - 1 > Lost THEN (pos + 1) - 1 - Lost ELSE 0
    BY <1>1, <1>2, <1>4
  <1>9. unmet' \subseteq unmet
    BY <1>2
  <1> QED BY <1>1, <1>2, <1>3, <1>4, <1>6, <1>7, <1>8, <1>9 DEF WalkInv, n

(* A walk misses, and meets in vain, no more entries than were removed     *)
(* during it.                                                              *)
THEOREM FacadeWalkMissesFew == FacadeSpec => []WalkMissesFew
  <1>1. FacadeInit => WalkInv
    <2> SUFFICES ASSUME FacadeInit PROVE WalkInv
      OBVIOUS
    <2>1. active = <<>> /\ slots \in [1 .. MaxActive -> Nat] /\ MaxActive \in Nat
      BY FaultAssumption DEF FacadeInit, Init, Unused
    <2>2. Len(active) = 0 /\ DOMAIN active = {}
      BY <2>1
    <2>3. Skipped = {} /\ Cardinality({}) = 0
      BY <2>2, FS_EmptySet DEF Skipped
    <2>4. pos = 1 /\ end = 0 /\ unmet = {} /\ ghosts = 0 /\ removals = 0
      BY DEF FacadeInit
    <2>5. Lost = 0
      BY <2>4 DEF Lost
    <2> QED BY <2>1, <2>2, <2>3, <2>4, <2>5 DEF WalkInv
  <1>2. TypeOK /\ TypeOK' /\ WalkInv /\ [FacadeNext]_facadeVars => WalkInv'
    <2> SUFFICES ASSUME TypeOK, TypeOK', WalkInv, [FacadeNext]_facadeVars PROVE WalkInv'
      OBVIOUS
    <2>1. CASE Next /\ Called
      BY <2>1, CalledKeeps
    <2>2. CASE Visit
      BY <2>2, VisitKeeps
    <2>3. CASE BeginWalk
      <3>1. /\ pos' = 1 /\ end' = Len(active) /\ unmet' = ActiveCodes
            /\ ghosts' = 0 /\ removals' = 0 /\ active' = active /\ slots' = slots
        BY <2>3 DEF BeginWalk, Extent, vars
      <3>2. ActiveCodes' = ActiveCodes
        BY <3>1 DEF ActiveCodes
      <3>3. Starts
        BY <3>1, <3>2 DEF Starts
      <3>4. Stored'
        BY <3>1 DEF WalkInv, Stored
      <3> QED BY <3>3, <3>4, WalkStarts
    <2>4. CASE UNCHANGED facadeVars
      BY <2>4 DEF facadeVars, vars, walkVars, WalkInv, Skipped, Lost, ActiveCodes
    <2> QED BY <2>1, <2>2, <2>3, <2>4, FacadeSteps
  <1>3. TypeOK /\ WalkInv => WalkMissesFew
    <2> SUFFICES ASSUME TypeOK, WalkInv PROVE WalkMissesFew
      OBVIOUS
    <2>1. /\ DOMAIN active = 1 .. Len(active) /\ Len(active) \in Nat /\ MaxActive \in Nat
      BY FaultAssumption, LenProperties DEF TypeOK
    <2>2. /\ end \in 0 .. MaxActive /\ pos \in 1 .. end + 1 /\ removals \in 0 .. MaxActive
          /\ ghosts \in Nat
          /\ ghosts <= IF pos - 1 > end - removals THEN pos - 1 - (end - removals) ELSE 0
      BY DEF WalkInv, Lost
    <2>3. ghosts <= removals
      BY <2>1, <2>2
    <2>4. ASSUME ~Walking PROVE Cardinality(unmet) <= removals
      <3>1. ASSUME NEW c \in unmet PROVE c \in Skipped
        <4>1. PICK i \in DOMAIN active : c = active[i].code
          BY <3>1 DEF WalkInv, ActiveCodes
        <4>2. i < pos
          <5>1. i <= end /\ i \in Nat
            BY <2>1, <3>1, <4>1 DEF WalkInv
          <5> QED BY <2>1, <2>2, <2>4, <5>1 DEF Walking
        <4> QED BY <3>1, <4>1, <4>2 DEF Skipped
      <3>2. unmet = Skipped
        BY <3>1 DEF Skipped
      <3> QED BY <3>2 DEF WalkInv
    <2> QED BY <2>3, <2>4 DEF WalkMissesFew
  <1> QED BY <1>1, <1>2, <1>3, FacadeManages, FaultTypeCorrect, PTL DEF FacadeSpec
=============================================================================
