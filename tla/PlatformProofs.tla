--------------------------- MODULE PlatformProofs ---------------------------
(* Proofs about what stands around the control core: the firmware loops    *)
(* and persistent storage.                                                 *)
EXTENDS Firmware, HalNvram, FiniteSetTheorems, TLAPS

-----------------------------------------------------------------------------
(* The firmware loops.                                                     *)

Settled == {"off", "pwm_init", "watchdog_init"}

FirmTypes ==
  /\ port \in Ports \cup {"off"}
  /\ pc \in {"off", "pwm_init", "watchdog_init", "ecu_init", "poll", "read",
             "step", "write", "print", "feed"}
  /\ inStep \in 0 .. SlowMs /\ due \in Time /\ unprinted \in Time
  /\ valve \in {"floating", "centre", "none", "core"}
  /\ valveAge \in 0 .. AgeCap /\ dog \in -1 .. Period
  /\ fault \in {"none", "clock", "hang"}

(* A millisecond shown by the clock has passed, and so has the one that    *)
(* the pass in progress waited for.                                        *)
LeadBound ==
  /\ lead \in -AgeCap .. 0
  /\ due > 0 => lead <= -1
  /\ pc \in {"read", "step"} => lead <= -1
  /\ (pc \in {"read", "step"} /\ due > 0) => lead <= -2

(* The valve is set shortly before the watchdog is fed.                    *)
FreshBound ==
  /\ valve = "floating" <=> pc \in {"off", "pwm_init"}
  /\ dog = -1 <=> pc \in Settled
  /\ pc = "off" <=> port = "off"
  /\ dog >= 0 => valveAge <= dog + SlowMs
  /\ (pc \in {"watchdog_init", "print"} /\ fault # "hang") => valveAge <= inStep
  /\ (pc = "feed" /\ fault # "hang") => valveAge <= SlowMs

FirmInv == FirmTypes /\ LeadBound /\ FreshBound

LEMMA FirmConstants ==
  /\ SlowMs \in Nat /\ AgeCap \in Nat /\ AgeCap >= 2
  /\ Period \in Nat /\ Period' \in Nat
  /\ 0 \in Time /\ \A t \in Time : After(t, 1) \in Time /\ t \in Nat
<1>1. SlowMs \in Nat /\ AgeCap \in Nat /\ AgeCap >= 2
  BY FirmAssumption
<1>2. \A n \in Nat : n \div 2 \in Nat
  OBVIOUS
<1>3. WatchdogMs \in Nat /\ WatchdogMs \div 2 \in Nat /\ MaxReload \in Nat
  BY <1>2, FirmAssumption
<1>4. Period \in Nat /\ Period' \in Nat
  BY <1>3 DEF Period
<1>5. 0 \in Time /\ \A t \in Time : After(t, 1) \in Time /\ t \in Nat
  <2>1. TimeMod \in Nat \ {0}
    BY TimeAssumption
  <2>2. \A a \in Int : a % TimeMod \in 0 .. TimeMod - 1
    BY <2>1
  <2> QED BY <2>1, <2>2 DEF Time, After
<1> QED BY <1>1, <1>4, <1>5

LEMMA FirmInitOK == FirmInit => FirmInv
BY FirmConstants
DEF FirmInit, FirmInv, FirmTypes, LeadBound, FreshBound, Settled, Ports

(* A step of the program: one case per call.                               *)
LEMMA PassOK ==
  ASSUME FirmInv, fault # "hang", Pass
  PROVE  FirmInv'
<1> USE FirmConstants DEF FirmInv, FirmTypes, LeadBound, FreshBound, Settled, GoTo
<1>1. CASE PwmInit
  BY <1>1 DEF PwmInit, Period
<1>2. CASE WatchdogInit
  BY <1>2 DEF WatchdogInit, Period
<1>3. CASE EcuInit
  BY <1>3 DEF EcuInit, Period
<1>4. CASE Poll
  BY <1>4 DEF Poll, LastTick, Period
<1>5. CASE ReadInputs
  BY <1>5 DEF ReadInputs, Period
<1>6. CASE Step
  BY <1>6 DEF Step, Period
<1>7. CASE Write
  BY <1>7 DEF Write, Period
<1>8. CASE PrintLine
  BY <1>8 DEF PrintLine, Period
<1>9. CASE Feed
  BY <1>9 DEF Feed, FedAt, Period
<1> QED BY <1>1, <1>2, <1>3, <1>4, <1>5, <1>6, <1>7, <1>8, <1>9 DEF Pass

LEMMA FirmNextOK == FirmInv /\ [FirmNext]_firmVars => FirmInv'
<1> SUFFICES ASSUME FirmInv, [FirmNext]_firmVars PROVE FirmInv'
  OBVIOUS
<1> USE FirmConstants DEF FirmInv, FirmTypes, LeadBound, FreshBound, Settled
<1>1. ASSUME NEW p \in Ports, Power(p) PROVE FirmInv'
  BY <1>1 DEF Power, Ports
<1>2. CASE fault # "hang" /\ Pass
  BY <1>2, PassOK
<1>3. CASE Millisecond
  <2>1. /\ port' = port /\ pc' = pc /\ valve' = valve /\ fault' = fault
        /\ inStep' \in 0 .. SlowMs /\ due' \in Time /\ unprinted' \in Time
        /\ valveAge' \in 0 .. AgeCap /\ valveAge' <= valveAge + 1
        /\ dog' = IF dog = -1 THEN dog ELSE dog + 1
        /\ dog < Period /\ port # "off"
    BY <1>3 DEF Millisecond, Capped
  <2>2. LeadBound'
    BY <1>3, <2>1 DEF Millisecond
  <2>3. fault # "hang" => pc \in SlowSteps \cup {"poll"}
    BY <1>3 DEF Millisecond
  <2>4. (pc = "print" /\ fault # "hang") => inStep' = inStep + 1
    BY <1>3 DEF Millisecond
  <2>5. SlowSteps \subseteq {"ecu_init", "read", "step", "print"}
    BY FirmAssumption
  <2>6. Period' = Period
    BY <2>1 DEF Period
  <2> HIDE DEF LeadBound
  <2> QED BY <2>1, <2>2, <2>3, <2>4, <2>5, <2>6
<1>4. CASE Bite
  BY <1>4 DEF Bite, GoTo, Period
<1>5. ASSUME NEW f \in {"clock", "hang"}, Break(f) PROVE FirmInv'
  BY <1>5 DEF Break, Period
<1>6. CASE UNCHANGED firmVars
  BY <1>6 DEF firmVars, Period
<1> QED BY <1>1, <1>2, <1>3, <1>4, <1>5, <1>6 DEF FirmNext

LEMMA FirmInvariant == FirmSpec => []FirmInv
BY FirmInitOK, FirmNextOK, PTL DEF FirmSpec

(* The core's time never runs ahead of real time                           *)
(* (platform/stm32/main_stm32.c:46-48), for every speed of the steps.      *)
THEOREM FirmNeverAhead == FirmSpec => []NeverAhead
<1>1. FirmInv => NeverAhead
  BY FirmConstants DEF FirmInv, LeadBound, NeverAhead
<1> QED BY <1>1, FirmInvariant, PTL

(* The watchdog bounds the age of the valve position, whatever hangs       *)
(* (platform/stm32/main_stm32.c:58-62, hal_watchdog_stm32.c).              *)
THEOREM FirmOutputsFresh == FirmSpec => []OutputsFresh
<1>1. FirmInv => OutputsFresh
  BY FirmConstants
  DEF FirmInv, FirmTypes, FreshBound, Settled, OutputsFresh
<1> QED BY <1>1, FirmInvariant, PTL

(* The types of the firmware's variables, for every timing.                *)
THEOREM FirmTypeCorrect == FirmSpec => []FirmTypeOK
<1>1. FirmInv => FirmTypeOK
  BY FirmConstants DEF FirmInv, FirmTypes, LeadBound, FirmTypeOK
<1> QED BY <1>1, FirmInvariant, PTL

-----------------------------------------------------------------------------
(* The time since the watchdog was fed, as long as nothing fails: what the *)
(* calls since may take, the wait for a millisecond, and the time at the   *)
(* present call.                                                           *)

Slow(c) == IF c \in SlowSteps THEN SlowMs ELSE 0

Polled == Slow("ecu_init") + 1

UpTo ==
  CASE pc = "ecu_init" -> 0
    [] pc = "poll"     -> Slow("ecu_init") + (IF due = 0 THEN 0 ELSE 1)
    [] pc = "read"     -> Polled
    [] pc = "step"     -> Polled + Slow("read")
    [] pc = "write"    -> Polled + Slow("read") + Slow("step")
    [] pc = "print"    -> Polled + Slow("read") + Slow("step")
    [] OTHER           -> Polled + Slow("read") + Slow("step") + Slow("print")

FedBound ==
  /\ pc \notin SlowSteps => inStep = 0
  /\ (fault = "none" /\ dog >= 0) => dog <= UpTo + inStep

(* All the slow calls and the wait fit into the period.                    *)
LEMMA SlowFits ==
  /\ \A c \in {"ecu_init", "read", "step", "print"} : Slow(c) \in Nat
  /\ Polled + Slow("read") + Slow("step") + Slow("print") < Period \/ port = "off"
<1> DEFINE Among(T) == SlowSteps \cap T
           One(c) == IF c \in SlowSteps THEN 1 ELSE 0
<1>1. SlowMs \in Nat /\ SlowSteps \subseteq {"ecu_init", "read", "step", "print"}
  BY FirmAssumption
<1>2. ASSUME NEW T, IsFiniteSet(Among(T)), NEW c, c \notin T
      PROVE  /\ IsFiniteSet(Among(T \cup {c}))
             /\ Cardinality(Among(T \cup {c})) = Cardinality(Among(T)) + One(c)
  <2>1. CASE c \in SlowSteps
    <3>1. Among(T \cup {c}) = Among(T) \cup {c} /\ c \notin Among(T)
      BY <1>2, <2>1
    <3>2. One(c) = 1
      BY <2>1
    <3> HIDE DEF Among, One
    <3>3. /\ IsFiniteSet(Among(T) \cup {c})
          /\ Cardinality(Among(T) \cup {c}) = Cardinality(Among(T)) + 1
      BY <1>2, <3>1, FS_AddElement
    <3> QED BY <3>1, <3>2, <3>3
  <2>2. CASE c \notin SlowSteps
    <3>1. Among(T \cup {c}) = Among(T)
      BY <2>2
    <3>2. Cardinality(Among(T)) \in Nat
      BY <1>2, FS_CardinalityType
    <3>3. One(c) = 0
      BY <2>2
    <3> HIDE DEF Among, One
    <3> QED BY <1>2, <3>1, <3>2, <3>3
  <2> QED BY <2>1, <2>2
<1> DEFINE A == {"ecu_init"}
           B == A \cup {"read"}
           C == B \cup {"step"}
           D == C \cup {"print"}
<1>3. IsFiniteSet(Among({})) /\ Cardinality(Among({})) = 0
  BY FS_EmptySet
<1>4. {} \cup {"ecu_init"} = A /\ Among(D) = SlowSteps
  BY <1>1
<1>5. "ecu_init" \notin {} /\ "read" \notin A /\ "step" \notin B /\ "print" \notin C
  OBVIOUS
<1> HIDE DEF Among, One
<1>6. IsFiniteSet(Among(A)) /\ Cardinality(Among(A)) = 0 + One("ecu_init")
  BY <1>2, <1>3, <1>4, <1>5
<1> HIDE DEF A
<1>7. IsFiniteSet(Among(B)) /\ Cardinality(Among(B)) = Cardinality(Among(A)) + One("read")
  BY <1>2, <1>5, <1>6
<1> HIDE DEF B
<1>8. IsFiniteSet(Among(C)) /\ Cardinality(Among(C)) = Cardinality(Among(B)) + One("step")
  BY <1>2, <1>5, <1>7
<1> HIDE DEF C
<1>9. Cardinality(Among(D)) = Cardinality(Among(C)) + One("print")
  BY <1>2, <1>5, <1>8
<1>10. \A c \in {"ecu_init", "read", "step", "print"} : One(c) \in {0, 1} /\ Slow(c) = SlowMs * One(c)
  BY <1>1 DEF One, Slow
<1>11. Cardinality(SlowSteps) = One("ecu_init") + One("read") + One("step") + One("print")
  BY <1>4, <1>6, <1>7, <1>8, <1>9, <1>10
<1>12. \A a, b, c, d \in {0, 1} : SlowMs * (a + b + c + d)
                                   = SlowMs * a + SlowMs * b + SlowMs * c + SlowMs * d
  BY <1>1
<1>13. SlowMs * Cardinality(SlowSteps)
         = Slow("ecu_init") + Slow("read") + Slow("step") + Slow("print")
  BY <1>10, <1>11, <1>12
<1>14. \A c \in {"ecu_init", "read", "step", "print"} : Slow(c) \in Nat
  BY <1>1 DEF Slow
<1>15. Period >= WatchdogMs - 1
  <2>1. WatchdogMs \in Nat /\ MaxReload \in Nat /\ WatchdogMs <= 2 * MaxReload
    BY FirmAssumption
  <2>2. WatchdogMs \div 2 \in Nat /\ 2 * (WatchdogMs \div 2) >= WatchdogMs - 1
        /\ 2 * (WatchdogMs \div 2) <= WatchdogMs
    BY <2>1
  <2> QED BY <2>1, <2>2 DEF Period
<1>16. 1 + SlowMs * Cardinality(SlowSteps) < WatchdogMs - 1 /\ WatchdogMs \in Nat
  BY FirmAssumption
<1> QED BY <1>13, <1>14, <1>15, <1>16, FirmConstants DEF Polled

LEMMA FedPass ==
  ASSUME FirmInv, FedBound, fault # "hang", Pass
  PROVE  FedBound'
<1> USE SlowFits, FirmConstants
    DEF FirmInv, FirmTypes, FreshBound, Settled, FedBound, UpTo, Polled, GoTo
<1>1. inStep <= Slow(pc) /\ inStep \in Nat
  BY DEF Slow
<1>2. CASE PwmInit
  BY <1>2 DEF PwmInit
<1>3. CASE WatchdogInit
  BY <1>3 DEF WatchdogInit
<1>4. CASE EcuInit
  BY <1>1, <1>4 DEF EcuInit
<1>5. CASE Poll
  BY <1>1, <1>5, FirmAssumption DEF Poll, LastTick, Slow
<1>6. CASE ReadInputs
  BY <1>1, <1>6 DEF ReadInputs
<1>7. CASE Step
  BY <1>1, <1>7 DEF Step
<1>8. CASE Write
  BY <1>1, <1>8, FirmAssumption DEF Write, Slow
<1>9. CASE PrintLine
  BY <1>1, <1>9 DEF PrintLine
<1>10. CASE Feed
  BY <1>1, <1>10 DEF Feed, FedAt
<1> QED BY <1>2, <1>3, <1>4, <1>5, <1>6, <1>7, <1>8, <1>9, <1>10 DEF Pass

LEMMA FedNext == FirmInv /\ FedBound /\ [FirmNext]_firmVars => FedBound'
<1> SUFFICES ASSUME FirmInv, FedBound, [FirmNext]_firmVars PROVE FedBound'
  OBVIOUS
<1> USE DEF FirmInv, FirmTypes, FreshBound, Settled, FedBound
<1>1. ASSUME NEW p \in Ports, Power(p) PROVE FedBound'
  BY <1>1, FirmAssumption DEF Power
<1>2. CASE fault # "hang" /\ Pass
  BY <1>2, FedPass
<1>3. CASE Millisecond
  <2>1. /\ pc' = pc /\ fault' = fault /\ dog' = (IF dog = -1 THEN dog ELSE dog + 1)
        /\ inStep' = IF pc \in SlowSteps /\ inStep < SlowMs THEN inStep + 1 ELSE inStep
        /\ inStep \in Nat /\ dog \in Int /\ SlowMs \in Nat
        /\ \A c \in {"ecu_init", "read", "step", "print"} : Slow(c) \in Nat
    BY <1>3, FirmConstants, SlowFits DEF Millisecond
  <2>2. pc' \notin SlowSteps => inStep' = 0
    BY <2>1
  <2>3. ASSUME fault = "none", dog >= 0, pc = "poll", due = 0
        PROVE  dog' <= UpTo' + inStep'
    <3>1. due' = 1
      <4>1. due' = After(due, 1) /\ TimeMod \in Nat /\ TimeMod > 1
        BY <1>3, <2>3, FirmAssumption, TimeAssumption DEF Millisecond
      <4> QED BY <2>3, <4>1 DEF After
    <3> QED BY <2>1, <2>3, <3>1 DEF UpTo
  <2>4. ASSUME fault = "none", dog >= 0, pc \in SlowSteps, inStep < SlowMs, pc # "poll"
        PROVE  dog' <= UpTo' + inStep'
    <3>1. UpTo' = UpTo /\ UpTo \in Nat
      BY <2>1, <2>4 DEF UpTo, Polled
    <3> QED BY <2>1, <2>4, <3>1
  <2>5. fault = "none" => (pc = "poll" /\ due = 0) \/ (pc \in SlowSteps /\ inStep < SlowMs)
    BY <1>3 DEF Millisecond
  <2>6. "poll" \notin SlowSteps
    BY FirmAssumption
  <2>7. dog' >= 0 => dog >= 0
    BY <2>1
  <2> QED BY <2>1, <2>2, <2>3, <2>4, <2>5, <2>6, <2>7
<1>4. CASE Bite
  BY <1>4 DEF Bite, GoTo
<1>5. ASSUME NEW f \in {"clock", "hang"}, Break(f) PROVE FedBound'
  BY <1>5 DEF Break
<1>6. CASE UNCHANGED firmVars
  BY <1>6 DEF firmVars, UpTo
<1> QED BY <1>1, <1>2, <1>3, <1>4, <1>5, <1>6 DEF FirmNext

(* Firmware in which nothing fails feeds the watchdog in time, on both     *)
(* ports and for every choice of slow calls that fit into the period       *)
(* (platform/stm32/main_stm32.c:44-63, platform/esp32/main.c).             *)
THEOREM FirmNoSpuriousBite == FirmSpec => []NoSpuriousBite
<1>1. FirmInit => FedBound
  BY DEF FirmInit, FedBound
<1>2. FirmInv /\ FedBound => NoSpuriousBite
  <2> SUFFICES ASSUME FirmInv, FedBound, dog >= 0, dog >= Period, fault = "none"
               PROVE  FALSE
    BY DEF NoSpuriousBite, FirmInv, FirmTypes
  <2>1. port # "off" /\ dog <= UpTo + inStep /\ inStep \in Nat /\ dog \in Int
        /\ inStep <= Slow(pc) /\ pc \notin Settled
    BY FirmConstants DEF FirmInv, FirmTypes, FreshBound, FedBound, Slow, Settled
  <2>2. UpTo + inStep <= Polled + Slow("read") + Slow("step") + Slow("print")
    BY <2>1, SlowFits, FirmAssumption
    DEF UpTo, Polled, Slow, Settled, FirmInv, FirmTypes
  <2>3. UpTo \in Nat
    BY <2>1, SlowFits DEF UpTo, Polled, FirmInv, FirmTypes
  <2> QED BY <2>1, <2>2, <2>3, SlowFits, FirmConstants DEF Polled
<1> QED BY <1>1, <1>2, FedNext, FirmInvariant, PTL DEF FirmSpec

-----------------------------------------------------------------------------
(* Persistent storage.                                                     *)

Cells == Bytes \cup {Blank}
Content(n) == [1 .. n -> Cells]

LEMMA ContentLen ==
  ASSUME NEW n \in Nat, NEW c \in Content(n)
  PROVE  Len(c) = n /\ DOMAIN c = 1 .. n
BY DEF Content

NvramTypes ==
  /\ platform \in {"none", "posix", "esp32", "stm32"}
  /\ op \in [call : {"none", "write", "erase", "fill", "erased"}, key : Slots,
             blob : Blobs \cup {<<>>}, done : 0 .. BlobLen]
  /\ store \in [Slots -> (UNION {Content(n) : n \in 0 .. BlobLen}) \cup {Absent}]
  /\ DOMAIN kept = Keys
  /\ tried \in [Keys -> SUBSET Blobs]
  /\ platform = "none" => /\ op.call = "none" /\ \A k \in Keys : store[k] = Absent
                          /\ \A k \in Keys : kept[k] = Absent
  /\ platform = "stm32" => store[Sector] \in Content(BlobLen)

(* What the call in progress has done so far.                              *)
OpInv ==
  /\ op.call = "none" <=> op = NoOp
  /\ op.call # "none" =>
       op.key \in Keys /\ \A j \in Touched(op.key) : kept[j] = Unsettled
  /\ op.call \in {"write", "fill"} => op.blob \in tried[op.key]
  /\ op.call = "fill" =>
       /\ ReadBack(op.key) \in Content(IF platform = "posix" THEN op.done ELSE BlobLen)
       /\ \A i \in 1 .. op.done : ReadBack(op.key)[i] = op.blob[i]
       /\ platform = "esp32" => op.done = BlobLen
  /\ op.call = "erased" => ReadBack(op.key) = Gone

(* A file or an entry is missing, short, or one that was meant.            *)
NotTorn(k) ==
  \/ store[k] = Absent
  \/ \E n \in 0 .. BlobLen - 1 : store[k] \in Content(n)
  \/ store[k] \in tried[k]

NvramInv ==
  /\ NvramTypes /\ OpInv /\ Durable
  /\ platform # "stm32" => \A k \in Keys : NotTorn(k)

LEMMA NvramConstants ==
  /\ BlobLen \in Nat /\ BlobLen >= 2 /\ Sector \notin Keys /\ Sector \in Slots
  /\ Keys \subseteq Slots
  /\ \A b \in Blobs : b \in Content(BlobLen)
  /\ Erased \in Content(BlobLen)
BY NvramAssumption DEF Slots, Content, Cells, Erased

Calls == [call : {"none", "write", "erase", "fill", "erased"}, key : Slots,
          blob : Blobs \cup {<<>>}, done : 0 .. BlobLen]

LEMMA NoOpTyped == NoOp \in Calls /\ NoOp.call = "none"
BY NvramConstants DEF NoOp, Calls

LEMMA NvramInitOK == NvramInit => NvramInv
<1> SUFFICES ASSUME NvramInit PROVE NvramInv
  OBVIOUS
<1>1. /\ platform = "none" /\ op = NoOp
      /\ store = [s \in Slots |-> Absent]
      /\ kept = [k \in Keys |-> Absent] /\ tried = [k \in Keys |-> {}]
  BY DEF NvramInit
<1>2. op \in Calls /\ op.call = "none"
  BY <1>1, NoOpTyped
<1>3. NvramTypes
  <2>1. store \in [Slots -> (UNION {Content(n) : n \in 0 .. BlobLen}) \cup {Absent}]
    BY <1>1
  <2>2. \A k \in Keys : store[k] = Absent /\ kept[k] = Absent
    BY <1>1, NvramConstants
  <2>3. tried \in [Keys -> SUBSET Blobs] /\ DOMAIN kept = Keys
    BY <1>1
  <2> QED BY <1>1, <1>2, <2>1, <2>2, <2>3 DEF NvramTypes, Calls
<1>4. OpInv
  BY <1>1 DEF OpInv, NoOp
<1>5. Durable
  BY <1>1, NvramConstants DEF Durable, ReadBack, Slot
<1>6. \A k \in Keys : NotTorn(k)
  BY <1>1, NvramConstants DEF NotTorn
<1> QED BY <1>3, <1>4, <1>5, <1>6 DEF NvramInv

LEMMA PowerUpOK ==
  ASSUME NvramInv, NEW p \in {"posix", "esp32", "stm32"}, PowerUp(p)
  PROVE  NvramInv'
<1> USE NvramConstants DEF NvramInv, NvramTypes
<1>1. /\ platform = "none" /\ platform' = p /\ op' = op /\ tried' = tried
      /\ store' = [store EXCEPT ![Sector] = IF p = "stm32" THEN Erased ELSE @]
      /\ kept' = [k \in Keys |-> IF p = "stm32" THEN Erased ELSE Absent]
      /\ op.call = "none"
  BY DEF PowerUp
<1>2. /\ \A k \in Keys : store'[k] = Absent
      /\ p = "stm32" => store'[Sector] = Erased
  BY <1>1
<1>3. NvramTypes'
  BY <1>1, <1>2
<1>4. OpInv'
  BY <1>1 DEF OpInv
<1>5. Durable'
  BY <1>1, <1>2 DEF Durable, ReadBack, Slot
<1>6. (platform # "stm32" => \A k \in Keys : NotTorn(k))'
  BY <1>2 DEF NotTorn
<1> QED BY <1>3, <1>4, <1>5, <1>6

LEMMA ReformatOK == ASSUME NvramInv, Reformat PROVE NvramInv'
<1> USE NvramConstants DEF NvramInv, NvramTypes
<1>1. /\ platform = "esp32" /\ op = NoOp
      /\ store' = [s \in Slots |-> Absent] /\ kept' = [k \in Keys |-> Absent]
      /\ platform' = platform /\ op' = op /\ tried' = tried
  BY DEF Reformat
<1>2. \A k \in Keys : store'[k] = Absent
  BY <1>1
<1>3. NvramTypes'
  BY <1>1, <1>2
<1>4. OpInv'
  BY <1>1, NoOpTyped DEF OpInv
<1>5. Durable'
  BY <1>1, <1>2 DEF Durable, ReadBack, Slot
<1>6. (platform # "stm32" => \A k \in Keys : NotTorn(k))'
  BY <1>2 DEF NotTorn
<1> QED BY <1>3, <1>4, <1>5, <1>6

LEMMA CallOK ==
  ASSUME NvramInv, NEW c \in {"write", "erase"}, NEW k \in Keys,
         NEW b \in Blobs \cup {<<>>}, c = "write" => b \in Blobs, Call(c, k, b)
  PROVE  NvramInv'
<1> USE NvramConstants DEF NvramInv, NvramTypes
<1>1. /\ platform # "none" /\ op = NoOp /\ platform' = platform /\ store' = store
      /\ op' = [call |-> c, key |-> k, blob |-> b, done |-> 0]
      /\ kept' = [j \in Keys |-> IF j \in Touched(k) THEN Unsettled ELSE kept[j]]
      /\ tried' = [tried EXCEPT ![k] = IF c = "write" THEN @ \cup {b} ELSE @]
  BY DEF Call
<1>2. tried' \in [Keys -> SUBSET Blobs] /\ \A j \in Keys : tried[j] \subseteq tried'[j]
  BY <1>1
<1>3. NvramTypes'
  BY <1>1, <1>2
<1>4. OpInv'
  <2>1. op' # NoOp /\ op'.call = c /\ op'.key = k /\ op'.blob = b
    BY <1>1 DEF NoOp
  <2>2. Touched(k)' = Touched(k) /\ Touched(k) \subseteq Keys
    BY <1>1 DEF Touched
  <2>3. \A j \in Touched(k) : kept'[j] = Unsettled
    BY <1>1, <2>2
  <2>4. c = "write" => b \in tried'[k]
    BY <1>1
  <2> QED BY <2>1, <2>2, <2>3, <2>4, <1>1 DEF OpInv, Touched
<1>5. Durable'
  BY <1>1 DEF Durable, ReadBack, Slot
<1>6. (platform # "stm32" => \A j \in Keys : NotTorn(j))'
  BY <1>1, <1>2 DEF NotTorn
<1> QED BY <1>3, <1>4, <1>5, <1>6

(* What a step that writes to the slot of the call in progress preserves.  *)
LEMMA PutOK ==
  ASSUME NvramInv, NEW content, NEW called \in {"fill", "erased"},
         NEW n \in 0 .. BlobLen, Put(content, called, n), op.call # "none",
         content \in (UNION {Content(m) : m \in 0 .. BlobLen}) \cup {Absent},
         platform = "stm32" => content \in Content(BlobLen),
         platform # "stm32" =>
           \/ content = Absent \/ \E m \in 0 .. BlobLen - 1 : content \in Content(m)
           \/ content \in tried[op.key],
         called = "fill" =>
           /\ op.blob \in tried[op.key]
           /\ content \in Content(IF platform = "posix" THEN n ELSE BlobLen)
           /\ \A i \in 1 .. n : content[i] = op.blob[i]
           /\ platform = "esp32" => n = BlobLen,
         called = "erased" => content = Gone
  PROVE  NvramInv'
<1> USE NvramConstants DEF NvramInv, NvramTypes
<1>1. /\ store' = [store EXCEPT ![Slot(op.key)] = content]
      /\ op' = [op EXCEPT !.call = called, !.done = n]
      /\ platform' = platform /\ kept' = kept /\ tried' = tried
  BY DEF Put
<1>2. /\ op.key \in Keys /\ Slot(op.key) \in Slots /\ platform # "none"
      /\ \A j \in Touched(op.key) : kept[j] = Unsettled
  BY DEF OpInv, Slot
<1>3. /\ op'.call = called /\ op'.key = op.key /\ op'.blob = op.blob /\ op'.done = n
      /\ op' \in [call : {"none", "write", "erase", "fill", "erased"}, key : Slots,
                  blob : Blobs \cup {<<>>}, done : 0 .. BlobLen]
  BY <1>1
<1>4. /\ store'[Slot(op.key)] = content
      /\ \A s \in Slots : s # Slot(op.key) => store'[s] = store[s]
      /\ store' \in [Slots -> (UNION {Content(m) : m \in 0 .. BlobLen}) \cup {Absent}]
  BY <1>1, <1>2
<1>5. \A k \in Keys : Slot(k)' = Slot(k)
  BY <1>1 DEF Slot
<1>6. NvramTypes'
  BY <1>1, <1>2, <1>3, <1>4 DEF Slot
<1>7. OpInv'
  <2>1. ReadBack(op.key)' = content
    BY <1>2, <1>3, <1>4, <1>5 DEF ReadBack
  <2>2. op' # NoOp
    BY <1>3 DEF NoOp
  <2>3. Gone' = Gone /\ Touched(op.key)' = Touched(op.key)
    BY <1>1, <1>3 DEF Gone, Touched
  <2>4. op'.key \in Keys /\ \A j \in Touched(op.key)' : kept'[j] = Unsettled
    BY <1>1, <1>2, <1>3, <2>3
  <2>5. /\ called = "fill" =>
             /\ ReadBack(op.key)' \in Content(IF platform' = "posix" THEN n ELSE BlobLen)
             /\ \A i \in 1 .. n : ReadBack(op.key)'[i] = op.blob[i]
             /\ platform' = "esp32" => n = BlobLen
        /\ called = "erased" => ReadBack(op.key)' = Gone'
    BY <1>1, <2>1, <2>3
  <2> QED BY <1>1, <1>3, <2>2, <2>4, <2>5 DEF OpInv
<1>8. Durable'
  <2> SUFFICES ASSUME NEW k \in Keys, kept'[k] # Unsettled
               PROVE  ReadBack(k)' = kept'[k]
    BY DEF Durable
  <2>1. k \notin Touched(op.key)
    BY <1>1, <1>2
  <2>2. Slot(k) # Slot(op.key) /\ Slot(k) \in Slots
    BY <1>2, <2>1 DEF Touched, Slot
  <2> QED BY <1>1, <1>4, <1>5, <2>2 DEF Durable, ReadBack
<1>9. (platform # "stm32" => \A k \in Keys : NotTorn(k))'
  <2> SUFFICES ASSUME platform # "stm32", NEW k \in Keys PROVE NotTorn(k)'
    BY <1>1
  <2>1. CASE k = op.key
    BY <1>1, <1>4, <2>1 DEF NotTorn, Slot
  <2>2. CASE k # op.key
    BY <1>1, <1>4, <2>2 DEF NotTorn, Slot
  <2> QED BY <2>1, <2>2
<1> QED BY <1>6, <1>7, <1>8, <1>9

LEMMA ClearOK == ASSUME NvramInv, Clear PROVE NvramInv'
<1> USE NvramConstants DEF NvramInv, NvramTypes
<1>1. <<>> \in Content(0)
  BY DEF Content
<1>2. CASE op.call = "write" /\ platform \in {"posix", "stm32"} /\ Put(Cleared, "fill", 0)
  <2>1. CASE platform = "posix"
    <3>1. Cleared = <<>> /\ 0 \in 0 .. BlobLen - 1 /\ 0 \in 0 .. BlobLen
      BY <2>1 DEF Cleared
    <3>2. op.blob \in tried[op.key]
      BY <1>2 DEF OpInv
    <3>3. <<>> \in (UNION {Content(m) : m \in 0 .. BlobLen}) \cup {Absent}
      BY <1>1, <3>1
    <3>4. \E m \in 0 .. BlobLen - 1 : <<>> \in Content(m)
      BY <1>1, <3>1
    <3>5. Put(<<>>, "fill", 0) /\ op.call # "none"
      BY <1>2, <3>1
    <3>6. \A i \in 1 .. 0 : <<>>[i] = op.blob[i]
      OBVIOUS
    <3> HIDE DEF NvramInv, NvramTypes
    <3> QED BY <1>1, <2>1, <3>1, <3>2, <3>3, <3>4, <3>5, <3>6, PutOK
  <2>2. CASE platform = "stm32"
    BY <1>2, <2>2, PutOK DEF Cleared, OpInv
  <2> QED BY <1>2, <2>1, <2>2
<1>3. CASE op.call = "erase" /\ platform = "stm32" /\ Put(Cleared, "erased", 0)
  BY <1>3, PutOK DEF Cleared, Gone, OpInv
<1> QED BY <1>2, <1>3 DEF Clear

LEMMA FillOK == ASSUME NvramInv, Fill PROVE NvramInv'
<1> USE NvramConstants DEF NvramInv, NvramTypes
<1> DEFINE n == op.done + 1
           old == ReadBack(op.key)
           content == [i \in DOMAIN old \cup {n} |-> IF i = n THEN op.blob[n] ELSE old[i]]
<1>1. /\ op.call = "fill" /\ n <= BlobLen /\ Put(content, "fill", n)
  BY DEF Fill
<1>2. /\ n \in 1 .. BlobLen /\ op.blob \in tried[op.key] /\ op.key \in Keys
      /\ old \in Content(IF platform = "posix" THEN op.done ELSE BlobLen)
      /\ \A i \in 1 .. op.done : old[i] = op.blob[i]
      /\ platform # "esp32"
  BY <1>1 DEF OpInv
<1>3. op.blob \in Content(BlobLen) /\ op.blob[n] \in Cells
  BY <1>2 DEF Content
<1>4. content \in Content(IF platform = "posix" THEN n ELSE BlobLen)
  BY <1>2, <1>3 DEF Content
<1>5. \A i \in 1 .. n : content[i] = op.blob[i]
  <2>1. DOMAIN content = 1 .. (IF platform = "posix" THEN n ELSE BlobLen)
    BY <1>4 DEF Content
  <2> QED BY <1>2, <2>1
<1>6. platform # "stm32" =>
        \/ \E m \in 0 .. BlobLen - 1 : content \in Content(m)
        \/ content \in tried[op.key]
  <2>1. CASE platform = "posix" /\ n = BlobLen
    <3>1. content \in [1 .. BlobLen -> Cells] /\ op.blob \in [1 .. BlobLen -> Cells]
      BY <1>3, <1>4, <2>1 DEF Content
    <3>2. \A i \in 1 .. BlobLen : content[i] = op.blob[i]
      BY <1>5, <2>1
    <3> HIDE DEF content
    <3>3. content = op.blob
      BY <3>1, <3>2
    <3> QED BY <1>2, <3>3
  <2>2. CASE platform = "posix" /\ n # BlobLen
    <3>1. n \in 0 .. BlobLen - 1
      BY <1>2, <2>2
    <3> HIDE DEF content, n
    <3> QED BY <1>4, <2>2, <3>1
  <2>3. platform = "none" => op.call = "none"
    OBVIOUS
  <2> QED BY <1>1, <1>2, <2>1, <2>2, <2>3
<1> HIDE DEF content, n
<1> QED BY <1>1, <1>2, <1>4, <1>5, <1>6, PutOK, SMTT(30)

LEMMA CommitOK == ASSUME NvramInv, Commit PROVE NvramInv'
<1> USE NvramConstants DEF NvramInv, NvramTypes
<1>1. CASE op.call = "write" /\ platform = "esp32" /\ Put(op.blob, "fill", BlobLen)
  <2>1. op.blob \in tried[op.key] /\ op.key \in Keys
    BY <1>1 DEF OpInv
  <2>2. op.blob \in Content(BlobLen)
    BY <2>1
  <2> QED BY <1>1, <2>1, <2>2, PutOK
<1>2. CASE op.call = "erase" /\ platform # "stm32" /\ Put(Absent, "erased", 0)
  <2>1. Gone = Absent /\ op.call # "none" /\ platform # "none"
    BY <1>2 DEF Gone
  <2>2. 0 \in 0 .. BlobLen
    OBVIOUS
  <2>3. Absent \in (UNION {Content(m) : m \in 0 .. BlobLen}) \cup {Absent}
    OBVIOUS
  <2> HIDE DEF NvramInv
  <2> QED BY <1>2, <2>1, <2>2, <2>3, PutOK
<1> QED BY <1>1, <1>2 DEF Commit

LEMMA ReturnOK == ASSUME NvramInv, Return PROVE NvramInv'
<1> USE NvramConstants DEF NvramInv, NvramTypes
<1> DEFINE settled == IF op.call = "fill" THEN op.blob ELSE Gone
<1>1. /\ (op.call = "fill" /\ op.done = BlobLen) \/ op.call = "erased"
      /\ op' = NoOp /\ platform' = platform /\ store' = store /\ tried' = tried
      /\ kept' = [j \in Keys |-> IF j \notin Touched(op.key) THEN kept[j] ELSE settled]
  BY DEF Return
<1>2. op.key \in Keys /\ platform # "none"
  BY <1>1 DEF OpInv
<1>3. ReadBack(op.key) = settled
  <2>1. CASE op.call = "fill" /\ op.done = BlobLen
    <3>1. /\ ReadBack(op.key) \in Content(BlobLen) /\ op.blob \in Content(BlobLen)
          /\ \A i \in 1 .. BlobLen : ReadBack(op.key)[i] = op.blob[i]
      BY <1>2, <2>1 DEF OpInv
    <3>2. ReadBack(op.key) = op.blob
      BY <3>1 DEF Content
    <3> QED BY <2>1, <3>2
  <2>2. CASE op.call = "erased"
    BY <2>2 DEF OpInv
  <2> QED BY <1>1, <2>1, <2>2
<1>4. NvramTypes'
  BY <1>1, <1>2 DEF NoOp
<1>5. OpInv'
  BY <1>1 DEF OpInv, NoOp
<1>6. Durable'
  <2> SUFFICES ASSUME NEW k \in Keys, kept'[k] # Unsettled
               PROVE  ReadBack(k)' = kept'[k]
    BY DEF Durable
  <2>1. ReadBack(k)' = ReadBack(k)
    BY <1>1 DEF ReadBack, Slot
  <2>2. CASE k \in Touched(op.key)
    <3>1. Slot(k) = Slot(op.key)
      BY <2>2 DEF Touched, Slot
    <3> QED BY <1>1, <1>3, <2>1, <2>2, <3>1 DEF ReadBack
  <2>3. CASE k \notin Touched(op.key)
    BY <1>1, <2>1, <2>3 DEF Durable
  <2> QED BY <2>2, <2>3
<1>7. (platform # "stm32" => \A k \in Keys : NotTorn(k))'
  BY <1>1 DEF NotTorn
<1> QED BY <1>4, <1>5, <1>6, <1>7

LEMMA StopOK == ASSUME NvramInv, Stop PROVE NvramInv'
<1> USE NvramConstants DEF NvramInv, NvramTypes
<1>1. /\ op # NoOp /\ op' = NoOp
      /\ platform' = platform /\ kept' = kept /\ tried' = tried
  BY DEF Stop
<1>2. op.key \in Keys /\ platform # "none"
  BY <1>1 DEF OpInv
<1>3. OpInv'
  BY <1>1 DEF OpInv, NoOp
<1>4. CASE UNCHANGED store
  <2>1. NvramTypes'
    BY <1>1, <1>2, <1>4 DEF NoOp
  <2>2. Durable'
    BY <1>1, <1>4 DEF Durable, ReadBack, Slot
  <2>3. (platform # "stm32" => \A k \in Keys : NotTorn(k))'
    BY <1>1, <1>4 DEF NotTorn
  <2> QED BY <1>3, <2>1, <2>2, <2>3
<1>5. ASSUME platform = "stm32", NEW b \in SUBSET (1 .. BlobLen),
             store' = [store EXCEPT ![Sector] =
                         [i \in 1 .. BlobLen |-> IF i \in b THEN Blank ELSE @[i]]]
      PROVE  NvramInv'
  <2>1. store'[Sector] \in Content(BlobLen)
    BY <1>5 DEF Content, Cells
  <2>2. store' \in [Slots -> (UNION {Content(n) : n \in 0 .. BlobLen}) \cup {Absent}]
    <3>1. BlobLen \in 0 .. BlobLen
      OBVIOUS
    <3>2. store'[Sector] \in UNION {Content(n) : n \in 0 .. BlobLen}
      BY <2>1, <3>1
    <3>3. store' = [store EXCEPT ![Sector] = store'[Sector]]
      BY <1>5
    <3> QED BY <3>2, <3>3
  <2>3. NvramTypes'
    <3>1. op' \in Calls /\ op'.call = "none"
      BY <1>1, NoOpTyped
    <3> QED BY <1>1, <1>5, <2>1, <2>2, <3>1 DEF Calls
  <2>4. \A k \in Keys : kept[k] = Unsettled
    BY <1>1, <1>5 DEF OpInv, Touched
  <2>5. Durable'
    BY <1>1, <2>4 DEF Durable
  <2> QED BY <1>1, <1>3, <1>5, <2>3, <2>5
<1> QED BY <1>4, <1>5 DEF Stop

LEMMA NvramNextOK == NvramInv /\ [NvramNext]_nvramVars => NvramInv'
<1> SUFFICES ASSUME NvramInv, [NvramNext]_nvramVars PROVE NvramInv'
  OBVIOUS
<1>1. ASSUME UNCHANGED nvramVars PROVE NvramInv'
  BY <1>1 DEF nvramVars, NvramInv, NvramTypes, OpInv, Durable, NotTorn, ReadBack,
              Slot, Touched, Gone
<1>2. CASE NvramNext
  BY <1>2, PowerUpOK, ReformatOK, CallOK, ClearOK, FillOK, CommitOK, ReturnOK, StopOK
  DEF NvramNext
<1> QED BY <1>1, <1>2

LEMMA NvramInvariant == NvramSpec => []NvramInv
BY NvramInitOK, NvramNextOK, PTL DEF NvramSpec

(* What a call that returned has stored stays through everything else,     *)
(* crashes included (platform/*/hal_nvram_*.c), for any keys and contents. *)
THEOREM NvramDurable == NvramSpec => []Durable
<1>1. NvramInv => Durable
  BY DEF NvramInv
<1> QED BY <1>1, NvramInvariant, PTL

(* On POSIX and the ESP32 a write that was cut short cannot be mistaken    *)
(* for a value (platform/posix/hal_nvram_posix.c:29-34,                    *)
(* platform/esp32/hal_nvram_esp32.c:27-34), for any keys and contents.     *)
THEOREM NvramTornDetected == NvramSpec => []TornDetected
<1>1. NvramInv => TornDetected
  <2> SUFFICES ASSUME NvramInv, NEW k \in Keys, platform \in {"posix", "esp32"},
                      Len(ReadBack(k)) = BlobLen
               PROVE  ReadBack(k) \in tried[k]
    BY DEF TornDetected
  <2>1. ReadBack(k) = store[k] /\ NotTorn(k) /\ BlobLen \in Nat /\ BlobLen >= 2
    BY NvramConstants DEF NvramInv, ReadBack, Slot
  <2>2. Len(Absent) = 1
    BY DEF Absent
  <2>3. ASSUME NEW n \in 0 .. BlobLen - 1, store[k] \in Content(n) PROVE FALSE
    <3>1. Len(store[k]) = n
      BY <2>1, <2>3, ContentLen
    <3> QED BY <2>1, <3>1
  <2>4. store[k] # Absent
    <3>1. Len(store[k]) = BlobLen
      BY <2>1
    <3> SUFFICES ASSUME store[k] = Absent PROVE FALSE
      OBVIOUS
    <3>2. BlobLen = 1
      BY <2>2, <3>1
    <3> QED BY <2>1, <3>2
  <2> QED BY <2>1, <2>3, <2>4 DEF NotTorn
<1> QED BY <1>1, NvramInvariant, PTL

(* Only files can be short, and what is kept is something a call asked for. *)
EntryInv ==
  /\ platform # "posix" =>
       \A s \in Slots : store[s] = Absent \/ store[s] \in Content(BlobLen)
  /\ kept \in [Keys -> Blobs \cup {Absent, Unsettled, Erased}]

(* A step that stores something settled.                                   *)
LEMMA PutEntry ==
  ASSUME NvramInv, NvramInv', EntryInv, NEW content, NEW next \in {"fill", "erased"}, NEW n,
         Put(content, next, n), op.call # "none"
  PROVE  EntryInv'
<1> USE NvramConstants DEF NvramInv, NvramTypes
<1>1. /\ store' = [store EXCEPT ![Slot(op.key)] = content]
      /\ op' = [op EXCEPT !.call = next, !.done = n]
      /\ platform' = platform /\ kept' = kept
  BY DEF Put
<1>2. op.key \in Keys /\ Slot(op.key) \in Slots
  BY DEF OpInv, Slot
<1>3. op'.call = next /\ op'.key = op.key
  BY <1>1
<1>4. ReadBack(op.key)' = content
  BY <1>1, <1>2, <1>3 DEF ReadBack, Slot
<1>5. platform # "posix" => content = Absent \/ content \in Content(BlobLen)
  <2> SUFFICES ASSUME platform # "posix" PROVE content = Absent \/ content \in Content(BlobLen)
    OBVIOUS
  <2>1. CASE next = "fill"
    <3>1. OpInv' /\ op'.call = "fill" /\ platform' # "posix"
      BY <1>1, <1>3, <2>1
    <3> QED BY <1>3, <1>4, <3>1 DEF OpInv
  <2>2. CASE next = "erased"
    <3>1. content = Gone'
      BY <1>3, <1>4, <2>2 DEF OpInv
    <3> QED BY <3>1 DEF Gone, Erased
  <2> QED BY <2>1, <2>2
<1> QED BY <1>1, <1>2, <1>5 DEF EntryInv

LEMMA EntriesFull ==
  ASSUME NvramInv, NvramInv', EntryInv, [NvramNext]_nvramVars
  PROVE  EntryInv'
<1> USE NvramConstants DEF NvramInv, NvramTypes
<1>1. ASSUME NEW p \in {"posix", "esp32", "stm32"}, PowerUp(p) PROVE EntryInv'
  BY <1>1 DEF PowerUp, EntryInv
<1>2. CASE Reformat
  BY <1>2 DEF Reformat, EntryInv
<1>3. ASSUME NEW c, NEW k \in Keys, NEW b, Call(c, k, b) PROVE EntryInv'
  BY <1>3 DEF Call, EntryInv
<1>4. CASE Clear
  BY <1>4, PutEntry DEF Clear
<1>5. CASE Fill
  BY <1>5, PutEntry DEF Fill
<1>6. CASE Commit
  BY <1>6, PutEntry DEF Commit
<1>7. CASE Return
  <2>1. /\ store' = store /\ platform' = platform
        /\ kept' = [j \in Keys |-> IF j \notin Touched(op.key) THEN kept[j]
                                   ELSE IF op.call = "fill" THEN op.blob ELSE Gone]
    BY <1>7 DEF Return
  <2>2. op.call = "fill" => op.blob \in Blobs
    BY DEF OpInv
  <2>3. Gone \in {Absent, Erased}
    BY DEF Gone
  <2> QED BY <2>1, <2>2, <2>3 DEF EntryInv
<1>8. CASE Stop
  <2>1. kept' = kept /\ platform' = platform
    BY <1>8 DEF Stop
  <2>2. CASE UNCHANGED store
    BY <2>1, <2>2 DEF EntryInv
  <2>3. CASE platform = "stm32" /\ \E b \in SUBSET (1 .. BlobLen) :
               store' = [store EXCEPT ![Sector] =
                           [i \in 1 .. BlobLen |-> IF i \in b THEN Blank ELSE @[i]]]
    <3>1. store'[Sector] \in Content(BlobLen)
      BY <2>1, <2>3
    <3>2. \A s \in Slots : s # Sector => store'[s] = store[s]
      BY <2>3
    <3> QED BY <2>1, <2>3, <3>1, <3>2 DEF EntryInv
  <2> QED BY <1>8, <2>2, <2>3 DEF Stop
<1>9. CASE UNCHANGED nvramVars
  BY <1>9 DEF nvramVars, EntryInv
<1> QED BY <1>1, <1>2, <1>3, <1>4, <1>5, <1>6, <1>7, <1>8, <1>9 DEF NvramNext

(* The call in progress and the lengths of what is stored, for any keys    *)
(* and contents: only POSIX ever holds something short                     *)
(* (platform/esp32/hal_nvram_esp32.c, platform/stm32/hal_nvram_stm32.c).   *)
THEOREM NvramTypeCorrect == NvramSpec => []NvramTypeOK
<1>1. NvramInit => EntryInv
  BY DEF NvramInit, EntryInv
<1>2. NvramInv /\ EntryInv => NvramTypeOK
  <2> SUFFICES ASSUME NvramInv, EntryInv PROVE NvramTypeOK
    OBVIOUS
  <2> USE NvramConstants DEF NvramInv, NvramTypes
  <2>1. ASSUME NEW s \in Slots, store[s] # Absent, platform # "posix"
        PROVE  Len(store[s]) = BlobLen
    <3>1. store[s] \in Content(BlobLen)
      BY <2>1 DEF EntryInv
    <3> HIDE DEF NvramInv, NvramTypes
    <3> QED BY <3>1, ContentLen
  <2>2. ASSUME platform = "posix", op.call = "fill" PROVE Len(store[op.key]) = op.done
    <3>1. store[op.key] \in Content(op.done) /\ op.done \in Nat
      BY <2>2 DEF OpInv, ReadBack, Slot
    <3> HIDE DEF NvramInv, NvramTypes
    <3> QED BY <3>1, ContentLen
  <2>3. platform = "stm32" => store[Sector] # Absent
    <3> SUFFICES ASSUME platform = "stm32", store[Sector] = Absent PROVE FALSE
      OBVIOUS
    <3>1. Absent \in Content(BlobLen)
      OBVIOUS
    <3>2. Len(Absent) = BlobLen
      BY <3>1, ContentLen
    <3>3. Len(Absent) = 1
      BY DEF Absent
    <3> QED BY <3>2, <3>3
  <2>4. kept \in [Keys -> Blobs \cup {Absent, Unsettled, Erased}]
    BY DEF EntryInv
  <2>5. /\ platform \in {"none", "posix", "esp32", "stm32"}
        /\ op.call \in {"none", "write", "erase", "fill", "erased"}
        /\ op.key \in Slots /\ op.done \in 0 .. BlobLen
        /\ tried \in [Keys -> SUBSET Blobs]
    OBVIOUS
  <2> QED BY <2>1, <2>2, <2>3, <2>4, <2>5 DEF NvramTypeOK
<1> QED BY <1>1, <1>2, EntriesFull, NvramInvariant, PTL DEF NvramSpec
=============================================================================
