------------------------------ MODULE HostProofs ------------------------------
(***************************************************************************)
(* Proofs about what surrounds a session.  The control word, for any set   *)
(* of handles: its invariant, that each change of it is one edge, and that *)
(* the compare-exchange loops implement SessionControl.  That a backend    *)
(* always has an owner that will close it, or has been released (Owned),   *)
(* for any devices, rates, losses and starts.  And that a LaserCube on USB *)
(* whose stream is gone is dark (UnownedDark), for any device and faults.  *)
(***************************************************************************)
EXTENDS SessionControlCAS, Lifecycle, LaserCubeUsb, SequenceTheorems, TLAPS

-------------------------------------------------------------------------------
(* The control word *)

\* The arithmetic of the next word: the generation moves, the low bit is set.
LEMMA NextWordParity ==
    ASSUME NEW w \in Nat
    PROVE  /\ 2 * ((w + 2) \div 2) \in Nat
           /\ 2 * ((w + 2) \div 2) > w
           /\ (2 * ((w + 2) \div 2)) % 2 = 0
           /\ (2 * ((w + 2) \div 2) + 1) % 2 = 1
<1>1. PICK k \in Nat : w = 2 * k \/ w = 2 * k + 1
    <2>1. w \div 2 \in Nat /\ w = 2 * (w \div 2) + (w % 2) /\ w % 2 \in 0..1
        OBVIOUS
    <2> QED
        BY <2>1
<1>2. (w + 2) \div 2 = k + 1
    BY <1>1
<1>3. (2 * (k + 1)) % 2 = 0 /\ (2 * (k + 1) + 1) % 2 = 1
    OBVIOUS
<1> QED
    BY <1>1, <1>2, <1>3

\* What set_desired_armed writes is a later word with the arm bit asked for.
LEMMA NextWordIsEdge ==
    ASSUME NEW w \in Nat, NEW b \in 0..1
    PROVE  /\ SC!NextWord(w, b) \in Nat
           /\ SC!NextWord(w, b) > w
           /\ SC!ArmBit(SC!NextWord(w, b)) = b
<1> DEFINE n == 2 * ((w + 2) \div 2)
<1>1. n \in Nat /\ n > w /\ n % 2 = 0 /\ (n + 1) % 2 = 1
    BY NextWordParity
<1>2. SC!NextWord(w, b) = n + b
    BY DEF SC!NextWord
<1> HIDE DEF n
<1> QED
    BY <1>1, <1>2 DEF SC!ArmBit

-------------------------------------------------------------------------------
(* The inductive invariant *)

\* Only calls that the handles make reach the exchange.
CASMade ==
    \A h \in Handles :
        at[h] = "cas" => /\ msg[h] = "Arm" => "arm" \in Calls
                         /\ msg[h] = "Disarm" => "disarm" \in Calls

CASInv == CASTypeOK /\ CASWantsEdge /\ CASMade

LEMMA CASStarts == CASInit => CASInv
<1> SUFFICES ASSUME CASInit PROVE CASInv
    OBVIOUS
<1>1. CASTypeOK
    <2>1. rate \in [pps : Nat, min : Nat, max : Nat]
        BY CASAssumption DEF CASInit
    <2>2. control_tx \in Seq(SC!ControlMsg)
        BY DEF CASInit
    <2>3. desired \in 0..MaxWord /\ current \in [Handles -> 0..MaxWord]
        BY CASAssumption DEF CASInit, SC!InitialState
    <2> QED
        BY <2>1, <2>2, <2>3 DEF CASInit, CASTypeOK, SC!ControlMsg
<1>2. CASWantsEdge
    BY DEF CASInit, CASWantsEdge
<1> QED
    BY <1>1, <1>2 DEF CASInv, CASMade, CASInit

\* Draining leaves a sequence of messages.
LEMMA DrainType ==
    ASSUME control_tx \in Seq(SC!ControlMsg), SC!ProcessControlMessages
    PROVE  control_tx' \in Seq(SC!ControlMsg)
<1>1. CASE control_tx' = <<>>
    BY <1>1
<1>2. ASSUME NEW k \in 1..Len(control_tx),
             control_tx' = SubSeq(control_tx, k + 1, Len(control_tx))
      PROVE  control_tx' \in Seq(SC!ControlMsg)
    <2>1. \A i \in (k + 1)..Len(control_tx) : control_tx[i] \in SC!ControlMsg
        BY LenProperties, ElementOfSeq
    <2> QED
        BY <1>2, <2>1, LenProperties, SubSeqProperties
<1> QED
    BY <1>1, <1>2 DEF SC!ProcessControlMessages

LEMMA CASStep == CASInv /\ [CASNext]_casVars => CASInv'
<1> SUFFICES ASSUME CASInv, [CASNext]_casVars PROVE CASInv'
    OBVIOUS
<1> USE DEF CASInv
<1>1. ASSUME NEW h \in Handles, LoadArm(h) \/ LoadDisarm(h)
      PROVE  CASInv'
    <2>1. CASTypeOK'
        <3>1. msg' \in [Handles -> SC!ControlMsg]
            BY <1>1 DEF CASTypeOK, LoadArm, LoadDisarm, BeginCall, SC!ControlMsg
        <3>2. at' \in [Handles -> {"idle", "cas", "send"}]
            BY <1>1 DEF CASTypeOK, LoadArm, LoadDisarm, AfterRead
        <3>3. current' \in [Handles -> 0..MaxWord]
            BY <1>1 DEF CASTypeOK, LoadArm, LoadDisarm, AfterRead
        <3>4. UNCHANGED <<desired, stop_requested, control_tx, rx_alive, rate>>
            BY <1>1 DEF LoadArm, LoadDisarm
        <3> QED
            BY <3>1, <3>2, <3>3, <3>4 DEF CASTypeOK
    <2>2. CASWantsEdge' /\ CASMade'
        <3>1. PICK m \in {"Arm", "Disarm"}, b \in 0..1 :
                  /\ BeginCall(h, m) /\ AfterRead(h, b) /\ b = IF m = "Arm" THEN 1 ELSE 0
                  /\ (m = "Arm" => "arm" \in Calls) /\ (m = "Disarm" => "disarm" \in Calls)
                  /\ UNCHANGED <<desired, stop_requested, control_tx, rx_alive, rate>>
            BY <1>1 DEF LoadArm, LoadDisarm
        <3>2. /\ \A g \in Handles : g # h => at'[g] = at[g] /\ msg'[g] = msg[g] /\ current'[g] = current[g]
              /\ at'[h] = IF SC!ArmBit(desired) = b THEN "send" ELSE "cas"
              /\ msg'[h] = m /\ current'[h] = desired
            BY <3>1 DEF CASTypeOK, BeginCall, AfterRead
        <3>3. CASWantsEdge'
            <4>1. WantedBit(h)' = b /\ \A g \in Handles : g # h => WantedBit(g)' = WantedBit(g)
                BY <3>1, <3>2, Zenon DEF WantedBit
            <4>2. "send" # "cas"
                OBVIOUS
            <4>3. at'[h] = "cas" => msg'[h] \in {"Arm", "Disarm"} /\ SC!ArmBit(current'[h]) # WantedBit(h)'
                BY <3>2, <4>1, <4>2, Zenon
            <4>4. ASSUME NEW g \in Handles, g # h, at'[g] = "cas"
                  PROVE  msg'[g] \in {"Arm", "Disarm"} /\ SC!ArmBit(current'[g]) # WantedBit(g)'
                BY <3>2, <4>1, <4>4, Zenon DEF CASWantsEdge
            <4> QED
                BY <4>3, <4>4, Zenon DEF CASWantsEdge
        <3>4. CASMade'
            BY <3>1, <3>2, Zenon DEF CASMade
        <3> QED
            BY <3>3, <3>4
    <2> QED
        BY <2>1, <2>2
<1>2. ASSUME NEW h \in Handles, CompareExchange(h)
      PROVE  CASInv'
    <2>1. CASE desired = current[h]
        <3>1. desired' \in 0..MaxWord
            <4>1. WantedBit(h) \in 0..1
                BY DEF WantedBit
            <4>2. current[h] \in Nat
                BY CASAssumption DEF CASTypeOK
            <4>3. SC!NextWord(current[h], WantedBit(h)) \in Nat
                BY <4>1, <4>2, NextWordIsEdge
            <4> QED
                BY <1>2, <2>1, <4>3, CASAssumption DEF CompareExchange
        <3>2. CASTypeOK'
            BY <1>2, <2>1, <3>1 DEF CASTypeOK, CompareExchange
        <3>3. CASWantsEdge' /\ CASMade'
            BY <1>2, <2>1 DEF CASTypeOK, CASWantsEdge, CASMade, CompareExchange, WantedBit
        <3> QED
            BY <3>2, <3>3
    <2>2. CASE desired # current[h]
        <3>1. CASTypeOK'
            BY <1>2, <2>2 DEF CASTypeOK, CompareExchange, AfterRead
        <3>2. CASWantsEdge' /\ CASMade'
            BY <1>2, <2>2 DEF CASTypeOK, CASWantsEdge, CASMade, CompareExchange, AfterRead, WantedBit
        <3> QED
            BY <3>1, <3>2
    <2> QED
        BY <2>1, <2>2
<1>3. ASSUME NEW h \in Handles, StoreStop(h)
      PROVE  CASInv'
    BY <1>3 DEF CASTypeOK, CASWantsEdge, CASMade, WantedBit, StoreStop, BeginCall, SC!ControlMsg
<1>4. ASSUME NEW h \in Handles, SendMessage(h)
      PROVE  CASInv'
    BY <1>4 DEF CASTypeOK, CASWantsEdge, CASMade, WantedBit, SendMessage
<1>5. ASSUME NEW h \in Handles, NEW p \in Rates, SetRate(h, p)
      PROVE  CASInv'
    BY <1>5, CASAssumption DEF CASTypeOK, CASWantsEdge, CASMade, WantedBit, SetRate
<1>6. ASSUME DriverSide
      PROVE  CASInv'
    <2>1. CASE SC!ProcessControlMessages
        <3>1. control_tx' \in Seq(SC!ControlMsg)
            BY <2>1, DrainType DEF CASTypeOK
        <3> QED
            BY <1>6, <2>1, <3>1 DEF CASTypeOK, CASWantsEdge, CASMade, WantedBit, DriverSide, SC!ProcessControlMessages
    <2>2. ASSUME NEW lo \in Rates, NEW hi \in Rates, SC!UpdatePpsBounds(lo, hi)
          PROVE  CASInv'
        BY <1>6, <2>2, CASAssumption
        DEF CASTypeOK, CASWantsEdge, CASMade, WantedBit, DriverSide, SC!UpdatePpsBounds
    <2>3. CASE SC!DropReceiver
        <3>1. control_tx' \in Seq(SC!ControlMsg)
            BY <2>3 DEF SC!DropReceiver
        <3> QED
            BY <1>6, <2>3, <3>1 DEF CASTypeOK, CASWantsEdge, CASMade, WantedBit, DriverSide, SC!DropReceiver
    <2> QED
        BY <1>6, <2>1, <2>2, <2>3 DEF DriverSide
<1>7. CASE UNCHANGED casVars
    BY <1>7 DEF CASTypeOK, CASWantsEdge, CASMade, WantedBit, casVars
<1> QED
    BY <1>1, <1>2, <1>3, <1>4, <1>5, <1>6, <1>7 DEF CASNext, HandleStep

\* The types, and that a call about to exchange the word wants an edge, hold in
\* every reachable state of the interleaved loops of set_desired_armed.
THEOREM CASInvariant == CASSpec => [](CASTypeOK /\ CASWantsEdge)
    BY CASStarts, CASStep, PTL DEF CASSpec, CASInv

-------------------------------------------------------------------------------
(* Every change of the word is one edge *)

LEMMA CASEdge == CASInv /\ [CASNext]_casVars /\ desired' # desired =>
                     desired' > desired /\ SC!ArmBit(desired') # SC!ArmBit(desired)
<1> SUFFICES ASSUME CASInv, CASNext, desired' # desired
             PROVE  desired' > desired /\ SC!ArmBit(desired') # SC!ArmBit(desired)
    BY DEF casVars
<1>1. PICK h \in Handles : CompareExchange(h) /\ desired = current[h]
    BY DEF CASNext, HandleStep, LoadArm, LoadDisarm, CompareExchange, StoreStop, SendMessage, SetRate,
           DriverSide, SC!ProcessControlMessages, SC!UpdatePpsBounds, SC!DropReceiver
<1>2. WantedBit(h) \in 0..1 /\ desired \in Nat
    BY CASAssumption DEF WantedBit, CASInv, CASTypeOK
<1>3. SC!ArmBit(desired) # WantedBit(h)
    BY <1>1 DEF CASInv, CASWantsEdge, CompareExchange
<1>4. desired' = SC!NextWord(desired, WantedBit(h))
    BY <1>1 DEF CompareExchange
<1> QED
    BY <1>2, <1>3, <1>4, NextWordIsEdge

\* However the calls interleave, the desired-state word only moves up, one edge
\* at a time, and never takes an earlier value again.
THEOREM EdgesAreCounted == CASSpec => EdgesCounted
<1>1. CASInv /\ [CASNext]_casVars =>
          [desired' # desired =>
              desired' > desired /\ SC!ArmBit(desired') # SC!ArmBit(desired)]_casVars
    BY CASEdge
<1> QED
    BY <1>1, CASStarts, CASStep, PTL DEF CASSpec, EdgesCounted

-------------------------------------------------------------------------------
(* The refinement *)

LEMMA RefinedInit == CASInit => \E p, lo, hi \in Rates : SC!ControlInit(p, lo, hi) /\ SC!InBounds(p, lo, hi)
    BY DEF CASInit, SC!ControlInit, SC!InitialState

LEMMA RefinedNext == CASInv /\ [CASNext]_casVars => [SC!ControlNext]_SC!ctlVars
<1> SUFFICES ASSUME CASInv, [CASNext]_casVars PROVE [SC!ControlNext]_SC!ctlVars
    OBVIOUS
<1> DEFINE pend == [h \in Handles |-> IF at[h] = "send" THEN msg[h] ELSE "idle"]
<1>7. CASE UNCHANGED casVars
    BY <1>7 DEF casVars, SC!ctlVars
<1>1. ASSUME NEW h \in Handles, LoadArm(h)
      PROVE  [SC!ControlNext]_SC!ctlVars
    <2>1. CASE SC!ArmBit(desired) = 1
        <3>1. pend[h] = "idle" /\ pend' = [pend EXCEPT ![h] = "Arm"]
            BY <1>1, <2>1 DEF LoadArm, BeginCall, AfterRead, CASInv, CASTypeOK
        <3>2. SC!WordAfter(1) = desired
            BY <2>1 DEF SC!WordAfter
        <3>3. SC!Arm(h)
            BY <1>1, <2>1, <3>1, <3>2
            DEF SC!Arm, SC!SetDesiredArmed, LoadArm, BeginCall, AfterRead, CASInv, CASTypeOK
        <3> QED
            BY <3>3 DEF SC!ControlNext, SC!HandleStep
    <2>2. CASE SC!ArmBit(desired) # 1
        <3>1. pend' = pend
            BY <1>1, <2>2 DEF LoadArm, BeginCall, AfterRead, CASInv, CASTypeOK
        <3> QED
            BY <1>1, <3>1 DEF LoadArm, SC!ctlVars
    <2> QED
        BY <2>1, <2>2
<1>2. ASSUME NEW h \in Handles, LoadDisarm(h)
      PROVE  [SC!ControlNext]_SC!ctlVars
    <2>1. CASE SC!ArmBit(desired) = 0
        <3>1. pend[h] = "idle" /\ pend' = [pend EXCEPT ![h] = "Disarm"]
            BY <1>2, <2>1 DEF LoadDisarm, BeginCall, AfterRead, CASInv, CASTypeOK
        <3>2. SC!WordAfter(0) = desired
            BY <2>1 DEF SC!WordAfter
        <3>3. SC!Disarm(h)
            BY <1>2, <2>1, <3>1, <3>2
            DEF SC!Disarm, SC!SetDesiredArmed, LoadDisarm, BeginCall, AfterRead, CASInv, CASTypeOK
        <3> QED
            BY <3>3 DEF SC!ControlNext, SC!HandleStep
    <2>2. CASE SC!ArmBit(desired) # 0
        <3>1. pend' = pend
            BY <1>2, <2>2 DEF LoadDisarm, BeginCall, AfterRead, CASInv, CASTypeOK
        <3> QED
            BY <1>2, <3>1 DEF LoadDisarm, SC!ctlVars
    <2> QED
        BY <2>1, <2>2
<1>3. ASSUME NEW h \in Handles, CompareExchange(h)
      PROVE  [SC!ControlNext]_SC!ctlVars
    <2>1. msg[h] \in {"Arm", "Disarm"} /\ SC!ArmBit(current[h]) # WantedBit(h)
        BY <1>3 DEF CASInv, CASWantsEdge, CompareExchange
    <2>2. pend[h] = "idle"
        BY <1>3 DEF CompareExchange
    <2>3. msg[h] = "Arm" => WantedBit(h) = 1
        BY DEF WantedBit
    <2>4. msg[h] = "Disarm" => WantedBit(h) = 0
        BY DEF WantedBit
    <2>5. ASSUME desired = current[h] \/ SC!ArmBit(desired) = WantedBit(h)
          PROVE  /\ pend' = [pend EXCEPT ![h] = msg[h]]
                 /\ desired' = SC!WordAfter(WantedBit(h)) /\ SC!WordAfter(WantedBit(h)) <= MaxWord
        <3>1. CASE desired = current[h]
            BY <1>3, <2>1, <3>1 DEF CompareExchange, SC!WordAfter, CASInv, CASTypeOK
        <3>2. CASE desired # current[h] /\ SC!ArmBit(desired) = WantedBit(h)
            <4>1. SC!WordAfter(WantedBit(h)) = desired /\ desired <= MaxWord
                BY <3>2, CASAssumption DEF SC!WordAfter, CASInv, CASTypeOK
            <4>2. desired' = desired /\ at' = [at EXCEPT ![h] = "send"] /\ msg' = msg
                BY <1>3, <3>2 DEF CompareExchange, AfterRead
            <4> QED
                BY <4>1, <4>2 DEF CASInv, CASTypeOK
        <3> QED
            BY <2>5, <3>1, <3>2
    <2>6. "arm" \in Calls \/ msg[h] # "Arm"
        BY <1>3 DEF CASInv, CASMade, CompareExchange
    <2>7. "disarm" \in Calls \/ msg[h] # "Disarm"
        BY <1>3 DEF CASInv, CASMade, CompareExchange
    <2>8. CASE (desired = current[h] \/ SC!ArmBit(desired) = WantedBit(h)) /\ msg[h] = "Arm"
        <3>1. SC!Arm(h)
            BY <1>3, <2>2, <2>3, <2>5, <2>6, <2>8 DEF SC!Arm, SC!SetDesiredArmed, CompareExchange
        <3> QED
            BY <3>1 DEF SC!ControlNext, SC!HandleStep
    <2>9. CASE (desired = current[h] \/ SC!ArmBit(desired) = WantedBit(h)) /\ msg[h] = "Disarm"
        <3>1. SC!Disarm(h)
            BY <1>3, <2>2, <2>4, <2>5, <2>7, <2>9 DEF SC!Disarm, SC!SetDesiredArmed, CompareExchange
        <3> QED
            BY <3>1 DEF SC!ControlNext, SC!HandleStep
    <2>10. CASE ~(desired = current[h] \/ SC!ArmBit(desired) = WantedBit(h))
        <3>1. at' = [at EXCEPT ![h] = "cas"] /\ msg' = msg
            BY <1>3, <2>10 DEF CompareExchange, AfterRead
        <3>2. pend' = pend
            BY <1>3, <3>1 DEF CompareExchange, CASInv, CASTypeOK
        <3> QED
            BY <1>3, <2>10, <3>2 DEF CompareExchange, SC!ctlVars
    <2> QED
        BY <2>1, <2>8, <2>9, <2>10
<1>4. ASSUME NEW h \in Handles, StoreStop(h)
      PROVE  [SC!ControlNext]_SC!ctlVars
    <2>1. pend[h] = "idle" /\ pend' = [pend EXCEPT ![h] = "Stop"]
        BY <1>4 DEF StoreStop, BeginCall, CASInv, CASTypeOK
    <2>2. SC!Stop(h)
        BY <1>4, <2>1 DEF SC!Stop, StoreStop, BeginCall
    <2> QED
        BY <2>2 DEF SC!ControlNext, SC!HandleStep
<1>5. ASSUME NEW h \in Handles, SendMessage(h)
      PROVE  [SC!ControlNext]_SC!ctlVars
    <2>1. pend[h] = msg[h] /\ msg[h] # "idle"
        BY <1>5 DEF SendMessage, CASInv, CASTypeOK, SC!ControlMsg
    <2>2. pend' = [pend EXCEPT ![h] = "idle"]
        BY <1>5 DEF SendMessage, CASInv, CASTypeOK
    <2>3. SC!Notify(h)
        BY <1>5, <2>1, <2>2 DEF SC!Notify, SendMessage
    <2> QED
        BY <2>3 DEF SC!ControlNext, SC!HandleStep
<1>6. ASSUME NEW h \in Handles, NEW p \in Rates, SetRate(h, p)
      PROVE  [SC!ControlNext]_SC!ctlVars
    <2>1. pend[h] = "idle" /\ pend' = pend
        BY <1>6 DEF SetRate
    <2>2. SC!SetPps(h, p)
        BY <1>6, <2>1 DEF SC!SetPps, SetRate
    <2> QED
        BY <2>2 DEF SC!ControlNext, SC!HandleStep
<1>8. CASE DriverSide
    BY <1>8 DEF DriverSide, SC!ControlNext
<1> QED
    BY <1>1, <1>2, <1>3, <1>4, <1>5, <1>6, <1>7, <1>8 DEF CASNext, HandleStep

\* The load and compare-exchange loops of set_desired_armed, in any number and
\* interleaving, implement the one-step calls that the session model uses.
THEOREM CASRefinesControl == CASSpec => ImplementsControl
    BY RefinedInit, RefinedNext, CASStarts, CASStep, PTL
    DEF CASSpec, ImplementsControl, SC!ControlSpec

-------------------------------------------------------------------------------
(* The backend and its owner *)

Wires == [linked : BOOLEAN, held : BOOLEAN, output : BOOLEAN, live : BOOLEAN, used : BOOLEAN]

\* Where the backend is: before and after the device was asked, and once it was judged
Unmet == {"connect", "close", "check"}
Judged == {"stream", "frame", "reclose", "spawn", "thread", "running"}
Met == Judged \cup {"close", "check"}
LifeOwners == Judged \cup Unmet \cup {"dac", "ended"}

LifeTypes ==
    /\ unit \in Kit
    /\ wire \in Wires
    /\ failed \in BOOLEAN /\ given \in BOOLEAN /\ connected \in BOOLEAN
    /\ ask.reconnect \in BOOLEAN /\ session.shut \in BOOLEAN
    /\ owner \in LifeOwners
    /\ target \in {"none", "dac", "stream", "policy"}

\* A backend that is linked or holds a transport has asked its device, whose output model is its
\* kind's; a session is started on a backend that has been linked, so that a device to be connected
\* but once is not lit again.  Unlinked, it is dark or its close has failed; before a driver has it,
\* only a device that its connect lights is lit.
MetInv ==
    /\ wire.linked \/ wire.held \/ owner \in Met => wire.live /\ wire.used
    /\ wire.live => ModelAgrees(unit, unit.live)
    /\ wire.output => wire.linked \/ failed
    /\ wire.output /\ owner \notin {"running", "ended"} => unit.lights

\* What was asked of the start, while it is under way
AskedInv ==
    /\ owner \in Judged \cup Unmet =>
         /\ ask.api \in {"stream", "frame"}
         /\ ask.api = "stream" => ~unit.swap
         /\ ask.api = "frame" => ask.target_buffer = DEFAULT_TARGET_BUFFER
    /\ owner = "dac" => ask.api = "none"
    /\ owner = "stream" => ask.api = "stream"
    /\ owner \in {"frame", "reclose", "spawn", "thread"} => ask.api = "frame"

\* What a session believes of its device is so from the moment the device was judged.
JudgedInv ==
    /\ owner \in Judged => session.caps = unit.live /\ RateFits(unit.live, ask.pps)
    /\ owner \in Judged \ {"running"} =>
         session.cushion = TargetBuffer(ask.target_buffer, unit.kind, unit.live.model)

\* The reconnect target is with the Dac until the start hands it on, and with the policy of a
\* session that asked to reconnect.
TargetInv ==
    /\ owner \in Judged => (target = "policy" <=> ask.reconnect)
    /\ owner \in Unmet \cup {"dac"} => target \in {"none", "dac"}
    /\ owner \in Unmet \cup {"dac", "stream"} /\ given => target # "none"

\* The gauge is up only between the start of the thread and the end of the driver.
GaugeInv == connected => owner \in {"thread", "running"}

LifeInv == LifeTypes /\ MetInv /\ AskedInv /\ JudgedInv /\ TargetInv /\ GaugeInv /\ Owned

-------------------------------------------------------------------------------
(* The calls on the backend *)

\* What a backend leaves behind when its link was lost, or no session had been started on it, is what
\* may be left behind.
LEMMA Leaves ==
    ASSUME OnlyLostLeft, ~wire.linked \/ ask.api = "none", abandoned' = abandoned \cup LeftBehind
    PROVE  OnlyLostLeft'
<1> SUFFICES ASSUME NEW left \in abandoned'
             PROVE  left.kind \in KeepsOnDrop /\ (left.lost \/ ~left.started)
  BY Zenon DEF OnlyLostLeft
<1>1. CASE left \in abandoned
  BY <1>1, Zenon DEF OnlyLostLeft
<1>2. CASE left \in LeftBehind
  <2>1. /\ unit.kind \in KeepsOnDrop
        /\ left = [kind |-> unit.kind, lost |-> ~wire.linked, started |-> ask.api # "none"]
    BY <1>2 DEF LeftBehind
  <2>2. left.kind = unit.kind /\ left.lost = ~wire.linked /\ left.started = (ask.api # "none")
    BY <2>1, Zenon
  <2> QED
    BY <2>1, <2>2
<1> QED
  BY <1>1, <1>2

\* close_and_disconnect leaves the device unlinked, and dark unless the close failed.
LEMMA Closes ==
    ASSUME LifeTypes, OnlyLostLeft, CloseAndDisconnect
    PROVE  /\ wire' \in Wires /\ failed' \in BOOLEAN /\ OnlyLostLeft'
           /\ ~wire'.linked /\ ~wire'.held /\ wire'.live = wire.live /\ wire'.used = wire.used
           /\ wire'.output => failed' /\ wire.output
<1>1. PICK ok \in BOOLEAN : \E lit \in Dimmed(ok) : Disconnected(lit) /\ failed' = lit
  BY DEF CloseAndDisconnect
<1>2. PICK lit \in Dimmed(ok) : Disconnected(lit) /\ failed' = lit
  BY <1>1
<1>3. lit \in BOOLEAN /\ (lit => wire.output)
  BY <1>2 DEF Dimmed, LifeTypes, Wires
<1>4. wire' = [wire EXCEPT !.linked = FALSE, !.held = FALSE, !.output = lit]
  BY <1>2 DEF Disconnected
<1>5. OnlyLostLeft'
  <2>1. CASE UNCHANGED abandoned
    BY <2>1 DEF OnlyLostLeft
  <2>2. CASE ~wire.linked /\ abandoned' = abandoned \cup LeftBehind
    BY <2>2, Leaves
  <2> QED
    BY <1>2, <2>1, <2>2 DEF Disconnected
<1> QED
  BY <1>2, <1>3, <1>4, <1>5 DEF LifeTypes, Wires

\* set_shutter(false) leaves it linked as it was, and dark unless it failed or the link is lost.
LEMMA Shuts ==
    ASSUME LifeTypes, NEW ok \in BOOLEAN, SetShutterClosed(ok)
    PROVE  /\ wire' \in Wires /\ failed' \in BOOLEAN
           /\ wire'.linked = wire.linked /\ wire'.held = wire.held
           /\ wire'.live = wire.live /\ wire'.used = wire.used
           /\ wire'.output => failed' /\ wire.output
           /\ ok /\ wire.linked => ~wire'.output
<1>1. PICK lit \in Dimmed(ok) : wire' = [wire EXCEPT !.output = lit] /\ failed' = lit
  BY DEF SetShutterClosed
<1>2. lit \in BOOLEAN /\ (lit => wire.output) /\ (ok /\ wire.linked => ~lit)
  BY <1>1 DEF Dimmed, LifeTypes, Wires
<1> QED
  BY <1>1, <1>2 DEF LifeTypes, Wires

\* A backend that is dropped lets go of its link, and leaves the light as it is.
LEMMA Drops ==
    ASSUME LifeTypes, OnlyLostLeft, ~wire.linked \/ ask.api = "none", Dropped
    PROVE  /\ wire' \in Wires /\ failed' = failed /\ OnlyLostLeft'
           /\ ~wire'.linked /\ ~wire'.held /\ wire'.live = wire.live /\ wire'.used = wire.used
           /\ wire'.output = wire.output
<1>1. OnlyLostLeft'
  BY Leaves DEF Dropped
<1> QED
  BY <1>1 DEF LifeTypes, Wires, Dropped

\* A connect that succeeds has asked the device.
LEMMA Connects ==
    ASSUME LifeTypes, OnlyLostLeft, ~wire.linked, Relinked
    PROVE  /\ wire' \in Wires /\ wire'.linked /\ wire'.live /\ wire'.used
           /\ wire'.output => wire.output \/ unit.lights
           /\ failed' = failed /\ ModelAgrees(unit, unit.live) /\ CanConnect /\ OnlyLostLeft'
<1>1. OnlyLostLeft'
  BY Leaves DEF Relinked
<1> QED
  BY <1>1 DEF LifeTypes, Wires, Relinked, Connected, Wire

\* One that fails leaves the device unlinked, and lit only if it could not be stopped.
LEMMA FailsToConnect ==
    ASSUME LifeTypes, OnlyLostLeft, ~wire.linked, wire.output => failed, ConnectFails
    PROVE  /\ wire' \in Wires /\ failed' \in BOOLEAN /\ OnlyLostLeft' /\ owner' = "ended"
           /\ ~wire'.linked /\ ~wire'.held /\ wire'.live = wire.live
           /\ wire'.output => failed'
<1>1. PICK enabled \in BOOLEAN, stopped \in BOOLEAN :
        /\ wire' = [wire EXCEPT !.held = FALSE, !.output = wire.output \/ (enabled /\ ~stopped),
                                !.used = TRUE]
        /\ failed' = (failed \/ ~stopped)
        /\ UNCHANGED abandoned \/ abandoned' = abandoned \cup LeftBehind
        /\ owner' = "ended"
  BY DEF ConnectFails
<1>2. OnlyLostLeft'
  <2>1. CASE UNCHANGED abandoned
    BY <2>1 DEF OnlyLostLeft
  <2>2. CASE abandoned' = abandoned \cup LeftBehind
    BY <2>2, Leaves
  <2> QED
    BY <1>1, <2>1, <2>2
<1> QED
  BY <1>1, <1>2 DEF LifeTypes, Wires

-------------------------------------------------------------------------------
(* The end, by whatever way it comes *)

\* A backend that is unlinked and let go is released, if it is dark or known to have been lit.
LEMMA Ending ==
    ASSUME LifeInv, owner' = "ended", unit' = unit, given' = given, target' = target,
           wire' \in Wires, failed' \in BOOLEAN, ~wire'.linked, ~wire'.held, wire'.live = wire.live,
           wire'.output => failed', OnlyLostLeft', connected' = FALSE,
           ask'.reconnect \in BOOLEAN, session'.shut \in BOOLEAN
    PROVE  LifeInv'
<1>1. LifeTypes'
  BY DEF LifeInv, LifeTypes, LifeOwners
<1>2. MetInv'
  BY DEF LifeInv, MetInv, Met, Judged
<1>3. AskedInv' /\ JudgedInv' /\ TargetInv' /\ GaugeInv'
  BY DEF AskedInv, JudgedInv, TargetInv, GaugeInv, Judged, Unmet
<1>4. Owned'
  BY DEF Owned, LitOnlyWhenAsked, SessionFits, TargetKept, EndsReleased
<1> QED
  BY <1>1, <1>2, <1>3, <1>4 DEF LifeInv

\* A start that fails releases the backend.
LEMMA GivesUp ==
    ASSUME LifeInv, GiveUp, owner \notin {"thread", "running"}, UNCHANGED <<unit, given, target, connected>>,
           ask'.reconnect \in BOOLEAN, session'.shut \in BOOLEAN
    PROVE  LifeInv'
<1>1. LifeTypes /\ OnlyLostLeft /\ CloseAndDisconnect /\ owner' = "ended"
  BY DEF LifeInv, Owned, GiveUp
<1>2. connected' = FALSE
  BY DEF LifeInv, GaugeInv, LifeTypes
<1> QED
  BY <1>1, <1>2, Closes, Ending

-------------------------------------------------------------------------------
(* Starting *)

LEMMA InitLife == ASSUME LifeInit(TRUE) PROVE LifeInv
<1>1. PICK b \in IF ModelAgrees(unit, unit.live) /\ ~unit.lights THEN BOOLEAN ELSE {FALSE} :
        wire = Wire(b, b, FALSE, b, b)
  BY DEF LifeInit
<1>2. b \in BOOLEAN /\ (b => ModelAgrees(unit, unit.live))
  BY <1>1
<1>3. owner = "dac" /\ connected = FALSE /\ ~wire.output
  BY <1>1 DEF LifeInit, Wire
<1>4. LifeTypes
  BY <1>1, <1>2 DEF LifeInit, LifeTypes, Wires, Wire, LifeOwners, NoAsk, NoSession, Session
<1>5. MetInv
  BY <1>1, <1>2, <1>3 DEF MetInv, Wire, Met, Judged
<1>6. AskedInv /\ JudgedInv /\ TargetInv /\ GaugeInv
  BY <1>3 DEF LifeInit, NoAsk, AskedInv, JudgedInv, TargetInv, GaugeInv, Judged, Unmet
<1>7. Owned
  BY <1>3 DEF LifeInit, Owned, OnlyLostLeft, LitOnlyWhenAsked, SessionFits, TargetKept, EndsReleased
<1> QED
  BY <1>4, <1>5, <1>6, <1>7 DEF LifeInv

LEMMA GivingLife == ASSUME LifeInv, WithDiscoveryFactory PROVE LifeInv'
<1>1. LifeTypes' /\ MetInv' /\ AskedInv' /\ JudgedInv' /\ TargetInv' /\ GaugeInv'
  BY DEF WithDiscoveryFactory, LifeInv, LifeTypes, MetInv, AskedInv, JudgedInv, TargetInv, GaugeInv,
         Judged, Unmet, ModelAgrees, RateFits
<1>2. Owned'
  BY DEF WithDiscoveryFactory, LifeInv, Owned, OnlyLostLeft, LitOnlyWhenAsked, SessionFits, TargetKept, EndsReleased
<1> QED
  BY <1>1, <1>2 DEF LifeInv

LEMMA StartLife ==
    ASSUME LifeInv, NEW api \in {"stream", "frame"}, NEW speed, NEW buffer, NEW r \in BOOLEAN,
           api = "frame" => buffer = DEFAULT_TARGET_BUFFER, Start(api, speed, buffer, r)
    PROVE  LifeInv'
<1>0. ask'.api = api /\ ask'.target_buffer = buffer /\ ask'.reconnect = r
  BY DEF Start
<1>1. CASE GiveUp
  BY <1>0, <1>1, GivesUp DEF Start, LifeInv, LifeTypes
<1>2. CASE ~GiveUp
  <2>1. owner = "dac" /\ owner' = "connect" /\ UNCHANGED <<unit, wire, failed, abandoned, target, given, session, connected>>
    BY <1>2 DEF Start
  <2>2. api = "stream" => ~unit.swap
    BY <1>2 DEF Start
  <2>3. LifeTypes' /\ MetInv'
    BY <1>0, <2>1 DEF LifeInv, LifeTypes, MetInv, LifeOwners, Unmet, Met, Judged, ModelAgrees
  <2>4. AskedInv' /\ JudgedInv' /\ TargetInv' /\ GaugeInv'
    BY <1>0, <2>1, <2>2 DEF LifeInv, AskedInv, JudgedInv, TargetInv, GaugeInv, Unmet, Judged
  <2>5. Owned'
    BY <2>1 DEF LifeInv, Owned, OnlyLostLeft, LitOnlyWhenAsked, SessionFits, TargetKept, EndsReleased
  <2> QED
    BY <2>3, <2>4, <2>5 DEF LifeInv
<1> QED
  BY <1>1, <1>2

\* A connect leads on to the close that follows it, or to the end.
LEMMA ConnectLife ==
    ASSUME LifeInv, NEW next, <<owner, next>> \in {<<"connect", "close">>, <<"frame", "reclose">>},
           ConnectThenOrEnd(next), UNCHANGED <<unit, ask, target, given, session, connected>>
    PROVE  LifeInv'
<1>0. /\ LifeTypes /\ OnlyLostLeft /\ owner \in {"connect", "frame"} /\ next \in {"close", "reclose"}
      /\ (owner = "connect" => next = "close") /\ (owner = "frame" => next = "reclose")
      /\ (wire.output => unit.lights) /\ (wire.output /\ ~wire.linked => failed)
  BY DEF LifeInv, Owned, MetInv
<1>1. CASE ~wire.linked /\ ConnectFails
  <2>1. connected' = FALSE
    BY <1>0 DEF LifeInv, LifeTypes, GaugeInv
  <2>2. /\ wire' \in Wires /\ failed' \in BOOLEAN /\ OnlyLostLeft' /\ owner' = "ended"
        /\ ~wire'.linked /\ ~wire'.held /\ wire'.live = wire.live /\ (wire'.output => failed')
    BY <1>0, <1>1, FailsToConnect
  <2> QED
    BY <1>0, <2>1, <2>2, Ending DEF LifeTypes
<1>2. CASE ~(~wire.linked /\ ConnectFails)
  <2>1. /\ owner' = next /\ failed' = failed /\ OnlyLostLeft'
        /\ wire' \in Wires /\ wire'.live /\ wire'.used /\ ModelAgrees(unit, unit.live)
        /\ (wire'.output => unit.lights) /\ (wire'.output => wire'.linked \/ failed)
    <3>1. CASE (wire.linked \/ StaleRuntime) /\ owner' = next /\ UNCHANGED <<wire, failed, abandoned>>
      BY <1>0, <3>1 DEF LifeInv, LifeTypes, Wires, MetInv, OnlyLostLeft, StaleRuntime
    <3>2. CASE ~wire.linked /\ Relinked /\ owner' = next
      BY <1>0, <3>2, Connects
    <3> QED
      BY <1>2, <3>1, <3>2 DEF ConnectThenOrEnd
  <2>3. LifeTypes' /\ MetInv'
    BY <1>0, <2>1 DEF LifeTypes, MetInv, LifeOwners, Unmet, Judged, ModelAgrees
  <2>4. AskedInv' /\ JudgedInv' /\ TargetInv' /\ GaugeInv'
    BY <1>0, <2>1 DEF LifeInv, AskedInv, JudgedInv, TargetInv, GaugeInv, Unmet, Judged, RateFits
  <2>5. Owned'
    BY <1>0, <2>1 DEF Owned, LitOnlyWhenAsked, SessionFits, TargetKept, EndsReleased
  <2> QED
    BY <2>3, <2>4, <2>5 DEF LifeInv
<1> QED
  BY <1>1, <1>2

\* The close after it leaves the device dark, if it is within reach.
LEMMA CloseLife ==
    ASSUME LifeInv, <<owner, owner'>> \in {<<"close", "check">>, <<"reclose", "spawn">>},
           SetShutterClosed(TRUE),
           UNCHANGED <<unit, abandoned, ask, target, given, session, connected>>
    PROVE  LifeInv'
<1>0. /\ LifeTypes /\ OnlyLostLeft /\ owner \in {"close", "reclose"} /\ owner' \in {"check", "spawn"}
      /\ (owner = "close" => owner' = "check") /\ (owner = "reclose" => owner' = "spawn")
      /\ (wire.output => unit.lights)
  BY DEF LifeInv, Owned, MetInv
<1>1. /\ wire' \in Wires /\ failed' \in BOOLEAN /\ (wire'.output => failed' /\ wire.output)
      /\ wire'.linked = wire.linked /\ wire'.held = wire.held
      /\ wire'.live = wire.live /\ wire'.used = wire.used
      /\ (wire.linked => ~wire'.output)
  BY <1>0, Shuts
<1>2. wire.live /\ wire.used /\ ModelAgrees(unit, unit.live)
  BY <1>0 DEF LifeInv, MetInv, Met, Judged
<1>3. LifeTypes' /\ MetInv'
  BY <1>0, <1>1, <1>2 DEF LifeTypes, MetInv, LifeOwners, Unmet, Judged, ModelAgrees
<1>4. AskedInv' /\ JudgedInv' /\ TargetInv' /\ GaugeInv'
  BY <1>0 DEF LifeInv, AskedInv, JudgedInv, TargetInv, GaugeInv, Unmet, Judged, RateFits
<1>5. Owned'
  BY <1>0, <1>1 DEF Owned, OnlyLostLeft, LitOnlyWhenAsked, SessionFits, TargetKept, EndsReleased
<1> QED
  BY <1>3, <1>4, <1>5 DEF LifeInv

LEMMA CheckLife == ASSUME LifeInv, Check PROVE LifeInv'
<1>0. LifeTypes /\ owner = "check" /\ UNCHANGED <<unit, ask, given, connected>>
  BY DEF LifeInv, Check
<1>1. caps = unit.live /\ wire.live /\ wire.used
  BY <1>0 DEF LifeInv, MetInv, caps, Met
<1>2. CASE GiveUp /\ UNCHANGED <<target, session>>
  BY <1>0, <1>2, GivesUp DEF LifeTypes
<1>3. CASE ~(GiveUp /\ UNCHANGED <<target, session>>)
  <2>1. /\ owner' = ask.api /\ UNCHANGED <<wire, failed, abandoned>>
        /\ RateFits(unit.live, ask.pps) /\ ~(ask.reconnect /\ target = "none")
        /\ session' = Session(unit.live, TargetBuffer(ask.target_buffer, unit.kind, unit.live.model),
                              "none", TRUE, FALSE)
    BY <1>1, <1>3 DEF Check
  <2>2. /\ ask.reconnect => target' = "policy"
        /\ ~ask.reconnect => target' = IF ask.api = "stream" /\ target # "none" THEN "stream" ELSE "none"
    BY <1>3, Zenon DEF Check
  <2>3. /\ session'.caps = unit.live /\ session'.shut = TRUE
        /\ session'.cushion = TargetBuffer(ask.target_buffer, unit.kind, unit.live.model)
    BY <2>1 DEF Session
  <2>4. ask.api \in {"stream", "frame"}
    BY <1>0 DEF LifeInv, AskedInv, Unmet
  <2>5. LifeTypes' /\ MetInv'
    BY <1>0, <1>1, <2>1, <2>2, <2>3, <2>4 DEF LifeInv, LifeTypes, MetInv, LifeOwners, Judged, ModelAgrees
  <2>6. AskedInv' /\ JudgedInv' /\ GaugeInv'
    BY <1>0, <2>1, <2>3, <2>4 DEF LifeInv, AskedInv, JudgedInv, GaugeInv, Unmet, Judged, RateFits
  <2>7. TargetInv'
    BY <1>0, <2>1, <2>2, <2>4 DEF LifeInv, LifeTypes, TargetInv, Unmet, Judged
  <2>8. Owned'
    BY <1>0, <2>1, <2>4, <2>7 DEF LifeInv, Owned, OnlyLostLeft, LitOnlyWhenAsked, SessionFits, TargetKept,
                                  EndsReleased, TargetInv
  <2> QED
    BY <2>5, <2>6, <2>7, <2>8 DEF LifeInv
<1> QED
  BY <1>2, <1>3

-------------------------------------------------------------------------------
(* A stream in the caller's hands *)

LEMMA StreamStopLife == ASSUME LifeInv, StreamStop PROVE LifeInv'
<1>0. LifeTypes /\ OnlyLostLeft /\ owner = "stream" /\ UNCHANGED <<unit, owner, ask, target, given, connected>>
  BY DEF LifeInv, Owned, StreamStop
<1>1. /\ wire' \in Wires /\ failed' \in BOOLEAN /\ (wire'.output => failed' /\ wire.output)
      /\ OnlyLostLeft' /\ ~wire'.linked /\ ~wire'.held /\ wire'.live = wire.live /\ wire'.used = wire.used
  BY <1>0, Closes DEF StreamStop
<1>2. session'.caps = session.caps /\ session'.cushion = session.cushion /\ session'.shut = session.shut
  BY DEF StreamStop, Session
<1>3. LifeTypes' /\ MetInv'
  BY <1>0, <1>1, <1>2 DEF LifeInv, LifeTypes, MetInv, ModelAgrees
<1>4. AskedInv' /\ JudgedInv' /\ TargetInv' /\ GaugeInv'
  BY <1>0, <1>2 DEF LifeInv, AskedInv, JudgedInv, TargetInv, GaugeInv, RateFits
<1>5. Owned'
  BY <1>0, <1>1 DEF LifeInv, Owned, LitOnlyWhenAsked, SessionFits, TargetKept, EndsReleased
<1> QED
  BY <1>3, <1>4, <1>5 DEF LifeInv

LEMMA IntoDacLife == ASSUME LifeInv, IntoDac PROVE LifeInv'
<1>0. LifeTypes /\ owner = "stream" /\ owner' = "dac" /\ UNCHANGED <<unit, abandoned, given, connected>>
        /\ target' = IF target = "none" THEN "none" ELSE "dac"
  BY DEF LifeInv, IntoDac
<1>1. PICK ok \in BOOLEAN : SetShutterClosed(ok)
  BY DEF IntoDac
<1>2. /\ wire' \in Wires /\ failed' \in BOOLEAN /\ (wire'.output => failed' /\ wire.output)
      /\ wire'.linked = wire.linked /\ wire'.held = wire.held /\ wire'.live = wire.live /\ wire'.used = wire.used
  BY <1>0, <1>1, Shuts
<1>3. session'.shut = TRUE /\ ask'.reconnect = FALSE /\ ask'.api = "none"
  BY DEF IntoDac, NoSession, Session, NoAsk
<1>4. LifeTypes' /\ MetInv'
  BY <1>0, <1>2, <1>3 DEF LifeInv, LifeTypes, MetInv, LifeOwners, Met, Judged, ModelAgrees
<1>5. AskedInv' /\ JudgedInv' /\ TargetInv' /\ GaugeInv'
  BY <1>0, <1>3 DEF LifeInv, LifeTypes, AskedInv, JudgedInv, TargetInv, GaugeInv, Judged, Unmet
<1>6. Owned'
  BY <1>0, <1>2, <1>5 DEF LifeInv, Owned, OnlyLostLeft, LitOnlyWhenAsked, SessionFits, TargetKept, EndsReleased, TargetInv
<1> QED
  BY <1>4, <1>5, <1>6 DEF LifeInv

LEMMA DropLife == ASSUME LifeInv, DropHeld PROVE LifeInv'
<1>0. /\ LifeTypes /\ OnlyLostLeft /\ owner \in {"stream", "dac"} /\ owner' = "ended"
      /\ UNCHANGED <<unit, ask, target, given, session, connected>>
  BY DEF LifeInv, Owned, DropHeld
<1>1. connected' = FALSE
  BY <1>0 DEF LifeInv, LifeTypes, GaugeInv
<1>2. CASE owner = "stream" /\ CloseAndDisconnect
  BY <1>0, <1>1, <1>2, Closes, Ending DEF LifeTypes
<1>3. CASE owner = "dac" /\ Dropped
  <2>1. ask.api = "none" /\ (wire.output => failed)
    BY <1>3 DEF LifeInv, Owned, LitOnlyWhenAsked, AskedInv
  <2> QED
    BY <1>0, <1>1, <1>3, <2>1, Drops, Ending DEF LifeTypes
<1> QED
  BY <1>2, <1>3 DEF DropHeld

LEMMA RunLife == ASSUME LifeInv, Run PROVE LifeInv'
<1>0. LifeTypes /\ owner = "stream" /\ UNCHANGED <<unit, ask, target, given>>
  BY DEF LifeInv, Run
<1>1. CASE GiveUp /\ UNCHANGED <<session, connected>>
  BY <1>0, <1>1, GivesUp DEF LifeTypes
<1>2. CASE ~(GiveUp /\ UNCHANGED <<session, connected>>)
  <2>1. owner' = "running" /\ connected' = TRUE /\ UNCHANGED <<wire, failed, abandoned>>
    BY <1>2 DEF Run
  <2>2. caps = unit.live /\ wire.live /\ wire.used
    BY <1>0 DEF LifeInv, MetInv, caps, Met, Judged
  <2>3. /\ session'.caps = session.caps /\ session'.cushion = session.cushion
        /\ session'.adapter = unit.live.model /\ session'.shut = TRUE
    BY <1>2, <2>2 DEF Run, Session
  <2>4. LifeTypes' /\ MetInv'
    BY <1>0, <2>1, <2>2, <2>3 DEF LifeInv, LifeTypes, MetInv, LifeOwners, Judged, ModelAgrees
  <2>5. AskedInv' /\ JudgedInv' /\ TargetInv' /\ GaugeInv'
    BY <1>0, <2>1, <2>3 DEF LifeInv, AskedInv, JudgedInv, TargetInv, GaugeInv, Judged, Unmet, RateFits
  <2>6. LitOnlyWhenAsked' /\ TargetKept' /\ EndsReleased' /\ OnlyLostLeft'
    BY <1>0, <2>1 DEF LifeInv, Owned, OnlyLostLeft, LitOnlyWhenAsked, TargetKept, EndsReleased, TargetInv, Judged
  <2>7. SessionFits'
    BY <1>0, <2>1, <2>3 DEF LifeInv, SessionFits, AskedInv, JudgedInv, Judged, RateFits
  <2> QED
    BY <2>4, <2>5, <2>6, <2>7 DEF LifeInv, Owned
<1> QED
  BY <1>1, <1>2

-------------------------------------------------------------------------------
(* FrameSession::start and its thread *)

LEMMA SessionConnectLife == ASSUME LifeInv, SessionConnect PROVE LifeInv'
<1>0. LifeTypes /\ owner = "frame" /\ UNCHANGED <<unit, ask, target, given, session, connected>>
  BY DEF LifeInv, SessionConnect
<1>1. CASE GiveUp
  BY <1>0, <1>1, GivesUp DEF LifeTypes
<1>2. CASE ConnectThenOrEnd("reclose")
  BY <1>0, <1>2, ConnectLife
<1>3. CASE wire.linked /\ owner' = "spawn" /\ UNCHANGED <<wire, failed, abandoned>>
  <2>1. LifeTypes' /\ MetInv'
    BY <1>0, <1>3 DEF LifeInv, LifeTypes, MetInv, LifeOwners, Judged, ModelAgrees
  <2>2. AskedInv' /\ JudgedInv' /\ TargetInv' /\ GaugeInv'
    BY <1>0, <1>3 DEF LifeInv, AskedInv, JudgedInv, TargetInv, GaugeInv, Judged, Unmet, RateFits
  <2>3. Owned'
    BY <1>0, <1>3 DEF LifeInv, Owned, OnlyLostLeft, LitOnlyWhenAsked, SessionFits, TargetKept, EndsReleased
  <2> QED
    BY <2>1, <2>2, <2>3 DEF LifeInv
<1> QED
  BY <1>1, <1>2, <1>3 DEF SessionConnect

LEMMA SpawnLife == ASSUME LifeInv, Spawn PROVE LifeInv'
<1>0. LifeTypes /\ owner = "spawn" /\ UNCHANGED <<unit, ask, target, given, session>>
  BY DEF LifeInv, Spawn
<1>1. CASE GiveUp /\ UNCHANGED connected
  BY <1>0, <1>1, GivesUp DEF LifeTypes
<1>2. CASE owner' = "thread" /\ connected' = wire.linked /\ UNCHANGED <<wire, failed, abandoned>>
  <2>0. wire.linked \in BOOLEAN /\ wire.live /\ wire.used
    BY <1>0 DEF LifeInv, LifeTypes, Wires, MetInv, Met, Judged
  <2>1. LifeTypes' /\ MetInv'
    BY <1>0, <1>2, <2>0 DEF LifeInv, LifeTypes, MetInv, LifeOwners, Judged, ModelAgrees
  <2>2. AskedInv' /\ JudgedInv' /\ TargetInv' /\ GaugeInv'
    BY <1>0, <1>2 DEF LifeInv, AskedInv, JudgedInv, TargetInv, GaugeInv, Judged, Unmet, RateFits
  <2>3. Owned'
    BY <1>0, <1>2 DEF LifeInv, Owned, OnlyLostLeft, LitOnlyWhenAsked, SessionFits, TargetKept, EndsReleased
  <2> QED
    BY <2>1, <2>2, <2>3 DEF LifeInv
<1> QED
  BY <1>1, <1>2 DEF Spawn

\* The thread connects only a device that may be connected again, and such a device is not lit
\* by its connect.
LEMMA ThreadLife == ASSUME LifeInv, ThreadStart PROVE LifeInv'
<1>0. /\ LifeTypes /\ OnlyLostLeft /\ owner = "thread" /\ UNCHANGED <<unit, ask, target, given>>
      /\ wire.live /\ wire.used /\ ModelAgrees(unit, unit.live) /\ (wire.output => failed)
      /\ (wire.output => unit.lights) /\ (wire.linked => ~wire.output)
  BY DEF LifeInv, ThreadStart, MetInv, Met, Judged, Owned, LitOnlyWhenAsked
<1>1. CASE owner' = "ended"
  <2>1. ~wire.linked /\ connected' = FALSE /\ Dropped /\ UNCHANGED session
    BY <1>1 DEF ThreadStart
  <2> QED
    BY <1>0, <1>1, <2>1, Drops, Ending DEF LifeTypes
<1>2. CASE owner' # "ended"
  <2>1. /\ owner' = "running" /\ UNCHANGED connected
        /\ \/ (wire.linked \/ StaleRuntime) /\ UNCHANGED <<wire, failed, abandoned>>
           \/ ~wire.linked /\ Relinked
    BY <1>2 DEF ThreadStart
  <2>2. /\ session'.caps = session.caps /\ session'.shut = TRUE /\ session'.adapter = unit.live.model
        /\ session'.cushion = TargetBuffer(DEFAULT_TARGET_BUFFER, unit.kind, unit.live.model)
    BY <1>2 DEF ThreadStart, Session
  <2>3. /\ wire' \in Wires /\ wire'.live /\ wire'.used /\ failed' = failed /\ OnlyLostLeft'
        /\ (wire'.output => failed) /\ (wire'.linked => ~wire'.output)
    <3>1. CASE UNCHANGED <<wire, failed, abandoned>>
      BY <1>0, <3>1 DEF LifeTypes, OnlyLostLeft
    <3>2. CASE ~wire.linked /\ Relinked
      <4>1. CanConnect
        BY <3>2 DEF Relinked
      <4>2. ~unit.lights
        BY <1>0, <4>1, KitAssumption DEF CanConnect, LifeTypes
      <4> QED
        BY <1>0, <3>2, <4>2, Connects
    <3> QED
      BY <2>1, <3>1, <3>2
  <2>4. LifeTypes' /\ MetInv'
    BY <1>0, <2>1, <2>2, <2>3 DEF LifeTypes, MetInv, LifeOwners, Judged, ModelAgrees
  <2>5. AskedInv' /\ JudgedInv' /\ TargetInv' /\ GaugeInv'
    BY <1>0, <2>1, <2>2 DEF LifeInv, AskedInv, JudgedInv, TargetInv, GaugeInv, Judged, Unmet, RateFits
  <2>6. LitOnlyWhenAsked' /\ TargetKept' /\ EndsReleased'
    BY <1>0, <2>1, <2>3 DEF LifeInv, LitOnlyWhenAsked, TargetKept, EndsReleased, TargetInv, Judged
  <2>7. SessionFits'
    BY <1>0, <2>1, <2>2 DEF LifeInv, SessionFits, AskedInv, JudgedInv, Judged, RateFits
  <2> QED
    BY <2>3, <2>4, <2>5, <2>6, <2>7 DEF LifeInv, Owned
<1> QED
  BY <1>1, <1>2

-------------------------------------------------------------------------------
(* The driver, and the end *)

LEMMA DriveLife == ASSUME LifeInv, NEW open \in BOOLEAN, DriveShutter(open) PROVE LifeInv'
<1>0. /\ LifeTypes /\ OnlyLostLeft /\ owner = "running" /\ wire.linked
      /\ UNCHANGED <<unit, abandoned, owner, ask, target, given, connected>>
      /\ wire.output => ~session.shut
  BY DEF LifeInv, Owned, LitOnlyWhenAsked, DriveShutter
<1>1. PICK ok \in BOOLEAN : \E lit \in IF ok THEN {open} ELSE {open, wire.output} :
        /\ wire' = [wire EXCEPT !.output = lit]
        /\ failed' = (lit /\ ~open)
        /\ session' = Session(session.caps, session.cushion, session.adapter, ~open /\ ok,
                              session.stop_requested)
  BY DEF DriveShutter
<1>2. PICK lit \in IF ok THEN {open} ELSE {open, wire.output} :
        /\ wire' = [wire EXCEPT !.output = lit]
        /\ failed' = (lit /\ ~open)
        /\ session' = Session(session.caps, session.cushion, session.adapter, ~open /\ ok,
                              session.stop_requested)
  BY <1>1
<1>3. lit \in BOOLEAN /\ (ok => lit = open)
  BY <1>0, <1>2 DEF LifeTypes, Wires
<1>4. /\ wire' \in Wires /\ wire'.linked = wire.linked /\ wire'.held = wire.held
      /\ wire'.live = wire.live /\ wire'.used = wire.used /\ wire'.output = lit
  BY <1>0, <1>2, <1>3 DEF LifeTypes, Wires
<1>5. /\ session'.caps = session.caps /\ session'.cushion = session.cushion
      /\ session'.adapter = session.adapter /\ session'.shut = (~open /\ ok) /\ failed' \in BOOLEAN
  BY <1>2, <1>3 DEF Session
<1>6. wire'.output => ~session'.shut
  BY <1>3, <1>4, <1>5
<1>7. LifeTypes' /\ MetInv'
  BY <1>0, <1>4, <1>5 DEF LifeInv, LifeTypes, MetInv, ModelAgrees
<1>8. AskedInv' /\ JudgedInv' /\ TargetInv' /\ GaugeInv'
  BY <1>0, <1>5 DEF LifeInv, AskedInv, JudgedInv, TargetInv, GaugeInv, RateFits
<1>9. Owned'
  BY <1>0, <1>4, <1>5, <1>6
     DEF LifeInv, Owned, OnlyLostLeft, LitOnlyWhenAsked, SessionFits, TargetKept, EndsReleased, RateFits
<1> QED
  BY <1>7, <1>8, <1>9 DEF LifeInv

\* A link that is gone, dropped by the driver or lost, leaves the light known to be on or out.
LEMMA UnlinkedLife ==
    ASSUME LifeInv, UNCHANGED <<unit, owner, ask, target, given, session, connected>>,
           wire' \in Wires, failed' \in BOOLEAN, ~wire'.linked, wire'.live = wire.live, wire'.used = wire.used,
           wire'.held => wire.held, wire'.output => failed' /\ wire.output, OnlyLostLeft'
    PROVE  LifeInv'
<1>1. LifeTypes' /\ MetInv'
  BY DEF LifeInv, LifeTypes, MetInv, ModelAgrees
<1>2. AskedInv' /\ JudgedInv' /\ TargetInv' /\ GaugeInv'
  BY DEF LifeInv, AskedInv, JudgedInv, TargetInv, GaugeInv, RateFits
<1>3. Owned'
  BY DEF LifeInv, Owned, LitOnlyWhenAsked, SessionFits, TargetKept, EndsReleased, RateFits
<1> QED
  BY <1>1, <1>2, <1>3 DEF LifeInv

LEMMA DropLinkLife == ASSUME LifeInv, DropLink PROVE LifeInv'
<1>0. /\ LifeTypes /\ OnlyLostLeft /\ wire.linked
      /\ UNCHANGED <<unit, owner, ask, target, given, session, connected>>
  BY DEF LifeInv, Owned, DropLink
<1>1. PICK lit \in {FALSE, wire.output} : Disconnected(lit) /\ failed' = lit
  BY DEF DropLink
<1>2. lit \in BOOLEAN /\ (lit => wire.output)
  BY <1>0, <1>1 DEF LifeTypes, Wires
<1>3. wire' = [wire EXCEPT !.linked = FALSE, !.held = FALSE, !.output = lit] /\ UNCHANGED abandoned
  BY <1>0, <1>1 DEF Disconnected
<1>4. /\ wire' \in Wires /\ ~wire'.linked /\ ~wire'.held
      /\ wire'.live = wire.live /\ wire'.used = wire.used /\ wire'.output = lit
  BY <1>0, <1>2, <1>3 DEF LifeTypes, Wires
<1>5. OnlyLostLeft'
  BY <1>0, <1>3 DEF OnlyLostLeft
<1> QED
  BY <1>0, <1>1, <1>2, <1>4, <1>5, UnlinkedLife

LEMMA ReplaceLife == ASSUME LifeInv, NEW u \in Kit, Replace(u) PROVE LifeInv'
<1>0. /\ LifeTypes /\ OnlyLostLeft /\ owner = "running" /\ target = "policy" /\ UNCHANGED <<owner, ask, target, given>>
      /\ unit' = u /\ failed' = FALSE /\ connected' = TRUE /\ ModelAgrees(u, u.live)
  BY DEF LifeInv, Owned, Replace
<1>1. wire' \in Wires /\ wire'.linked /\ ~wire'.output /\ wire'.live /\ wire'.used
  BY DEF Replace, Wires, Wire
<1>2. /\ session'.caps = u.live /\ session'.shut = TRUE /\ session'.adapter = session.adapter
  BY DEF Replace, Session
<1>3. u.live.model = session.adapter /\ RateFits(u.live, ask.pps) /\ IsSwap(u.live) = IsSwap(session.caps)
  BY DEF Replace, Compatible
<1>4. ask.api = "stream" => ~u.swap
  BY <1>0, <1>3 DEF LifeInv, AskedInv, JudgedInv, MetInv, ModelAgrees, Judged, Met
<1>5. ask.reconnect
  BY <1>0 DEF LifeInv, TargetInv, Judged
<1>9. OnlyLostLeft'
  BY <1>0, Leaves DEF Replace
<1>6. LifeTypes' /\ MetInv'
  BY <1>0, <1>1, <1>2 DEF LifeTypes, MetInv, ModelAgrees
<1>7. AskedInv' /\ JudgedInv' /\ TargetInv' /\ GaugeInv'
  BY <1>0, <1>2, <1>3, <1>4 DEF LifeInv, AskedInv, JudgedInv, TargetInv, GaugeInv, Judged, Unmet, RateFits
<1>8. Owned'
  BY <1>0, <1>1, <1>2, <1>3, <1>4, <1>5, <1>9
     DEF LifeInv, Owned, LitOnlyWhenAsked, SessionFits, TargetKept, EndsReleased, RateFits
<1> QED
  BY <1>6, <1>7, <1>8 DEF LifeInv

LEMMA FinishLife == ASSUME LifeInv, Finish PROVE LifeInv'
<1>0. /\ LifeTypes /\ OnlyLostLeft /\ owner = "running" /\ owner' = "ended" /\ connected' = FALSE
      /\ UNCHANGED <<unit, ask, target, given>> /\ session'.shut = TRUE
  BY DEF LifeInv, Owned, Finish, NoSession, Session
<1>1. CASE CloseAndDisconnect
  BY <1>0, <1>1, Closes, Ending DEF LifeTypes
<1>2. CASE ~wire.linked /\ Dropped
  <2>1. wire.output => failed
    BY <1>2 DEF LifeInv, MetInv
  <2> QED
    BY <1>0, <1>2, <2>1, Drops, Ending DEF LifeTypes
<1> QED
  BY <1>1, <1>2 DEF Finish

LEMMA LoseLife == ASSUME LifeInv, Lose PROVE LifeInv'
<1>0. /\ LifeTypes /\ OnlyLostLeft
      /\ UNCHANGED <<unit, abandoned, owner, ask, target, given, session, connected>>
  BY DEF LifeInv, Owned, Lose
<1>1. PICK lit \in {FALSE, wire.output} :
        wire' = [wire EXCEPT !.linked = FALSE, !.output = lit] /\ failed' = lit
  BY DEF Lose
<1>2. lit \in BOOLEAN /\ (lit => wire.output)
  BY <1>0, <1>1 DEF LifeTypes, Wires
<1>3. /\ wire' \in Wires /\ ~wire'.linked /\ wire'.held = wire.held
      /\ wire'.live = wire.live /\ wire'.used = wire.used /\ wire'.output = lit
  BY <1>0, <1>1, <1>2 DEF LifeTypes, Wires
<1>4. OnlyLostLeft'
  BY <1>0 DEF OnlyLostLeft
<1> QED
  BY <1>0, <1>1, <1>2, <1>3, <1>4, UnlinkedLife

LEMMA NextLife == ASSUME LifeInv, [LifeNext]_lifeVars PROVE LifeInv'
<1>1. CASE UNCHANGED lifeVars
  <2>0. LifeTypes /\ MetInv /\ AskedInv /\ JudgedInv /\ TargetInv /\ GaugeInv /\ Owned
    BY DEF LifeInv
  <2>1. LifeTypes' /\ MetInv'
    BY <1>1, <2>0, Zenon DEF lifeVars, LifeTypes, MetInv, ModelAgrees
  <2>2. AskedInv' /\ JudgedInv'
    BY <1>1, <2>0, Zenon DEF lifeVars, AskedInv, JudgedInv, RateFits
  <2>3. TargetInv' /\ GaugeInv'
    BY <1>1, <2>0, Zenon DEF lifeVars, TargetInv, GaugeInv
  <2>4. Owned'
    BY <1>1, <2>0, Zenon DEF lifeVars, Owned, OnlyLostLeft, LitOnlyWhenAsked, SessionFits, TargetKept, EndsReleased,
                              RateFits
  <2> QED
    BY <2>1, <2>2, <2>3, <2>4 DEF LifeInv
<1>2. ASSUME NEW speed, NEW r \in BOOLEAN, Start("frame", speed, DEFAULT_TARGET_BUFFER, r) PROVE LifeInv'
  BY <1>2, StartLife
<1>3. ASSUME NEW speed, NEW r \in BOOLEAN, NEW buffer, Start("stream", speed, buffer, r) PROVE LifeInv'
  BY <1>3, StartLife
<1>4. CASE Connect
  BY <1>4, ConnectLife DEF Connect
<1>5. CASE Close
  <2>1. owner = "close" /\ UNCHANGED <<unit, ask, target, given, session, connected>>
    BY <1>5 DEF Close
  <2>2. CASE SetShutterClosed(TRUE) /\ owner' = "check" /\ UNCHANGED abandoned
    BY <2>1, <2>2, CloseLife
  <2>3. CASE GiveUp
    BY <2>1, <2>3, GivesUp DEF LifeInv, LifeTypes
  <2> QED
    BY <1>5, <2>2, <2>3 DEF Close
<1>6. CASE SessionClose
  <2>1. owner = "reclose" /\ UNCHANGED <<unit, ask, target, given, session, connected>>
    BY <1>6 DEF SessionClose
  <2>2. CASE SetShutterClosed(TRUE) /\ owner' = "spawn" /\ UNCHANGED abandoned
    BY <2>1, <2>2, CloseLife
  <2>3. CASE GiveUp
    BY <2>1, <2>3, GivesUp DEF LifeInv, LifeTypes
  <2> QED
    BY <1>6, <2>2, <2>3 DEF SessionClose
<1>7. CASE WithDiscoveryFactory \/ Check \/ StreamStop \/ IntoDac \/ DropHeld \/ Run
  BY <1>7, GivingLife, CheckLife, StreamStopLife, IntoDacLife, DropLife, RunLife
<1>8. CASE SessionConnect \/ Spawn \/ ThreadStart \/ DropLink \/ Finish \/ Lose
  BY <1>8, SessionConnectLife, SpawnLife, ThreadLife, DropLinkLife, FinishLife, LoseLife
<1>9. CASE (\E open \in BOOLEAN : DriveShutter(open)) \/ (\E u \in Kit : Replace(u))
  BY <1>9, DriveLife, ReplaceLife
<1> QED
  BY <1>1, <1>2, <1>3, <1>4, <1>5, <1>6, <1>7, <1>8, <1>9 DEF LifeNext

-------------------------------------------------------------------------------
\* Whatever order of opening, starting, losing, stopping and handing back, wherever a connect, a
\* close or a spawn fails, and whatever devices and rates there are: a light that nobody asked for
\* is on only until the close that follows, a session fits the device it has, a reconnect target is
\* not lost, what nobody holds is dark unless its last close failed or its link went while it was
\* lit, and no thread or handle outlives its owner but a Helios's or an oscilloscope's whose link was
\* lost or which no session had (Dac::start_stream, FrameSession::start, Stream::into_dac and their
\* error paths, the Drop implementations of the backends).
THEOREM BackendOwned == LifeInit(TRUE) /\ [][LifeNext]_lifeVars => []Owned
<1>1. LifeInit(TRUE) => LifeInv
  BY InitLife
<1>2. LifeInv /\ [LifeNext]_lifeVars => LifeInv'
  BY NextLife
<1>3. LifeInv => Owned
  BY DEF LifeInv
<1> QED
  BY <1>1, <1>2, <1>3, PTL

-------------------------------------------------------------------------------
(***************************************************************************)
(* The LaserCube on USB.  UnownedDark says nothing of a stream that is     *)
(* being dropped, and OutAfter nothing of the requests before the last.    *)
(* CubeInv says that from the request for `off` in Stream::drop on the     *)
(* last word about the output is `off`, and who can ask for `on` again.    *)
(***************************************************************************)

OnOff == {"on", "off"}

\* The output is off when the requests of q are handled and it now is as o says.
LastWordOff(q, o) ==
    \/ ~o /\ \A i \in 1..Len(q) : q[i].what \notin OnOff
    \/ \E i \in 1..Len(q) : q[i].what = "off" /\ \A j \in 1..Len(q) : j > i => q[j].what \notin OnOff

\* A request, and a sequence of requests
Request(e) == \E names, args : e \in [what : names, arg : args, fresh : BOOLEAN]
Requests(q) == \E names, args : q \in Seq([what : names, arg : args, fresh : BOOLEAN])

\* The stream is gone, or has asked for `off` on its way.
Over ==
    \/ lc \in {"scan", "retry", "end", "released"}
    \/ lc = "top" /\ ~stream
    \/ lc = "drop" /\ (idx = 2 \/ waiting)

\* Where the driver uses the stream of its session
Working == {"reset", "open", "shut", "step", "rate", "data"}

CubeTypes ==
    /\ lc \in LcPlaces /\ ret \in {"retry", "scan", "top", "end"} /\ stream \in BOOLEAN /\ Requests(reqs)
    /\ lc = "drop" => idx \in {1, 2}
    /\ lc \in Working => stream = TRUE
    /\ ~present => reqs = <<>> /\ claim = "free"

OffInv == present /\ Over => LastWordOff(reqs, out) \/ "off" \in unsaid

CubeInv == CubeTypes /\ OffInv

\* What is known of a sequence of requests
LEMMA RequestParts ==
    ASSUME NEW q, Requests(q)
    PROVE  Len(q) \in Nat /\ DOMAIN q = 1..Len(q) /\ Requests(Aged(q)) /\ Len(Aged(q)) = Len(q)
           /\ \A i \in 1..Len(q) : Aged(q)[i].what = q[i].what
<1>1. PICK names, args : q \in Seq([what : names, arg : args, fresh : BOOLEAN])
  BY Zenon DEF Requests
<1> DEFINE R == [what : names, arg : args, fresh : BOOLEAN]
           a == [i \in 1..Len(q) |-> [q[i] EXCEPT !.fresh = FALSE]]
<1>2. Len(q) \in Nat /\ DOMAIN q = 1..Len(q) /\ \A i \in 1..Len(q) : q[i] \in R
  <2> HIDE DEF R
  <2>1. q \in Seq(R)
    BY <1>1, Zenon DEF R
  <2> QED
    BY <2>1
<1>3. \A i \in 1..Len(q) : a[i] \in R /\ a[i].what = q[i].what
  <2>1. \A r \in R : [r EXCEPT !.fresh = FALSE] \in R /\ [r EXCEPT !.fresh = FALSE].what = r.what
    OBVIOUS
  <2>2. \A i \in 1..Len(q) : a[i] = [q[i] EXCEPT !.fresh = FALSE]
    BY Zenon
  <2> HIDE DEF a, R
  <2> QED
    BY <1>2, <2>1, <2>2, Zenon
<1>4. Aged(q) = a
  BY <1>2, Zenon DEF Aged
<1> HIDE DEF a, R
<1>5. a \in [1..Len(q) -> R]
  BY <1>3 DEF a
<1>6. a \in Seq(R) /\ Len(a) = Len(q)
  BY <1>2, <1>5
<1>7. Requests(a)
  BY <1>6, Zenon DEF Requests, R
<1> QED
  BY <1>2, <1>3, <1>4, <1>6, <1>7, Zenon

\* A sequence over a larger set
LEMMA RequestsWider == ASSUME NEW S, NEW T, S \subseteq T, NEW q \in Seq(S) PROVE q \in Seq(T)
<1>1. q \in [1..Len(q) -> S] /\ Len(q) \in Nat
  OBVIOUS
<1>2. q \in [1..Len(q) -> T]
  BY <1>1
<1> QED
  BY <1>1, <1>2

\* One more request at the end
LEMMA RequestAdded ==
    ASSUME NEW q, Requests(q), NEW e, Request(e)
    PROVE  /\ Requests(Append(q, e)) /\ Len(q) \in Nat /\ Len(Append(q, e)) = Len(q) + 1
           /\ Append(q, e)[Len(q) + 1] = e
           /\ \A i \in 1..Len(q) : Append(q, e)[i] = q[i]
<1>1. PICK names, args : q \in Seq([what : names, arg : args, fresh : BOOLEAN])
  BY Zenon DEF Requests
<1>2. PICK names2, args2 : e \in [what : names2, arg : args2, fresh : BOOLEAN]
  BY Zenon DEF Request
<1> DEFINE R == [what : names \cup names2, arg : args \cup args2, fresh : BOOLEAN]
<1>3. e \in R /\ [what : names, arg : args, fresh : BOOLEAN] \subseteq R
  BY <1>2
<1> HIDE DEF R
<1>4. q \in Seq(R)
  BY <1>1, <1>3, RequestsWider, Zenon
<1>5. /\ Append(q, e) \in Seq(R) /\ Len(q) \in Nat /\ Len(Append(q, e)) = Len(q) + 1
      /\ Append(q, e)[Len(q) + 1] = e /\ \A i \in 1..Len(q) : Append(q, e)[i] = q[i]
  BY <1>3, <1>4
<1>6. Requests(Append(q, e))
  BY <1>5, Zenon DEF Requests, R
<1> QED
  BY <1>5, <1>6, Zenon

\* One less at the front
LEMMA RequestTaken ==
    ASSUME NEW q, Requests(q), q # <<>>
    PROVE  /\ Requests(Tail(q)) /\ Len(q) \in Nat \ {0} /\ Len(Tail(q)) = Len(q) - 1 /\ Head(q) = q[1]
           /\ \A i \in 1..(Len(q) - 1) : Tail(q)[i] = q[i + 1]
<1>1. PICK names, args : q \in Seq([what : names, arg : args, fresh : BOOLEAN])
  BY Zenon DEF Requests
<1> DEFINE R == [what : names, arg : args, fresh : BOOLEAN]
<1> HIDE DEF R
<1>2. q \in Seq(R)
  BY <1>1, Zenon DEF R
<1>3. /\ Tail(q) \in Seq(R) /\ Len(q) \in Nat \ {0} /\ Len(Tail(q)) = Len(q) - 1 /\ Head(q) = q[1]
      /\ \A i \in 1..(Len(q) - 1) : Tail(q)[i] = q[i + 1]
  BY <1>2
<1> QED
  BY <1>3, Zenon DEF Requests, R

\* Requests that nobody waits for any more say the same.
LEMMA OffAged ==
    ASSUME NEW q, Requests(q), NEW o, LastWordOff(q, o)
    PROVE  LastWordOff(Aged(q), o)
<1>1. Len(Aged(q)) = Len(q) /\ \A i \in 1..Len(q) : Aged(q)[i].what = q[i].what
  BY RequestParts, Zenon
<1>2. CASE ~o /\ \A i \in 1..Len(q) : q[i].what \notin OnOff
  BY <1>1, <1>2, Zenon DEF LastWordOff
<1>3. CASE \E i \in 1..Len(q) : q[i].what = "off" /\ \A j \in 1..Len(q) : j > i => q[j].what \notin OnOff
  BY <1>1, <1>3, Zenon DEF LastWordOff
<1> QED
  BY <1>2, <1>3, Zenon DEF LastWordOff

\* Another command leaves the last word as it is, and `off` becomes the last word.
LEMMA OffAdded ==
    ASSUME NEW q, Requests(q), NEW e, Request(e), NEW o, e.what = "off" \/ (e.what \notin OnOff /\ LastWordOff(q, o))
    PROVE  LastWordOff(Append(q, e), o)
<1> DEFINE a == Append(q, e)
<1> HIDE DEF a
<1>1. PICK n \in Nat : n = Len(q) /\ Len(a) = n + 1 /\ a[n + 1] = e /\ \A i \in 1..n : a[i] = q[i]
  <2>1. Len(q) \in Nat /\ Len(a) = Len(q) + 1 /\ a[Len(q) + 1] = e /\ \A i \in 1..Len(q) : a[i] = q[i]
    <3>1. /\ Requests(Append(q, e)) /\ Len(q) \in Nat /\ Len(Append(q, e)) = Len(q) + 1
          /\ Append(q, e)[Len(q) + 1] = e
          /\ \A i \in 1..Len(q) : Append(q, e)[i] = q[i]
      <4>1. Requests(q) /\ Request(e)
        OBVIOUS
      <4> QED
        BY ONLY <4>1, RequestAdded
    <3> QED
      BY <3>1, Zenon DEF a
  <2> WITNESS Len(q) \in Nat
  <2> QED
    BY <2>1, Zenon
<1>2. /\ n + 1 \in 1..(n + 1)
      /\ \A i \in 1..(n + 1) : i \in 1..n \/ i = n + 1
      /\ \A i \in 1..n : i \in 1..(n + 1) /\ ~(i > n + 1)
      /\ ~(n + 1 > n + 1)
  OBVIOUS
<1>3. CASE e.what = "off"
  <2>1. \A j \in 1..(n + 1) : ~(j > n + 1)
    BY <1>2, Zenon
  <2> QED
    BY <1>1, <1>2, <1>3, <2>1, Zenon DEF LastWordOff, a
<1>4. CASE e.what \notin OnOff /\ ~o /\ \A i \in 1..Len(q) : q[i].what \notin OnOff
  <2>1. \A i \in 1..(n + 1) : a[i].what \notin OnOff
    BY <1>1, <1>2, <1>4, Zenon
  <2> QED
    BY <1>1, <1>4, <2>1, Zenon DEF LastWordOff, a
<1>5. ASSUME e.what \notin OnOff, NEW i \in 1..n, q[i].what = "off", \A j \in 1..n : j > i => q[j].what \notin OnOff
      PROVE  LastWordOff(a, o)
  <2>1. a[i].what = "off" /\ i \in 1..(n + 1)
    BY <1>1, <1>2, <1>5, Zenon
  <2>2. \A j \in 1..(n + 1) : j > i => a[j].what \notin OnOff
    BY <1>1, <1>2, <1>5, Zenon
  <2> QED
    BY <1>1, <2>1, <2>2, Zenon DEF LastWordOff
<1> QED
  BY <1>1, <1>3, <1>4, <1>5, Zenon DEF LastWordOff, a

\* What became of the output when the device handled request e
Obeyed(e, o, p) == (e.what = "off" => ~p) /\ (e.what \notin OnOff => p = o)

\* The device handles the first request: an `off` turns the output off, and no other
\* command touches it but `on`, after which there is an `off` to come.
LEMMA OffHandled ==
    ASSUME NEW q, Requests(q), q # <<>>, NEW o, NEW p, LastWordOff(q, o), Obeyed(Head(q), o, p)
    PROVE  LastWordOff(Tail(q), p)
<1>0. (Head(q).what = "off" => ~p) /\ (Head(q).what \notin OnOff => p = o)
  BY Zenon DEF Obeyed
<1>1. PICK n \in Nat : /\ Len(q) = n + 1 /\ Len(Tail(q)) = n /\ Head(q) = q[1]
                       /\ \A i \in 1..n : Tail(q)[i] = q[i + 1]
  <2>1. PICK m \in Nat \ {0} : m = Len(q) /\ Len(Tail(q)) = m - 1 /\ Head(q) = q[1]
                               /\ \A i \in 1..(m - 1) : Tail(q)[i] = q[i + 1]
    BY RequestTaken, Zenon
  <2>2. m - 1 \in Nat /\ m = (m - 1) + 1
    OBVIOUS
  <2> QED
    BY <2>1, <2>2, Zenon
<1>2. /\ 1 \in 1..(n + 1) /\ \A i \in 1..n : i + 1 \in 1..(n + 1) /\ i + 1 > 1
      /\ \A i \in 1..(n + 1) : i = 1 \/ (i - 1 \in 1..n /\ i = (i - 1) + 1)
      /\ \A i, j \in 1..n : j > i => j + 1 > i + 1
  OBVIOUS
<1>3. CASE ~o /\ \A i \in 1..Len(q) : q[i].what \notin OnOff
  <2>1. \A i \in 1..n : Tail(q)[i].what \notin OnOff
    BY <1>1, <1>2, <1>3, Zenon
  <2>2. ~p
    BY <1>0, <1>1, <1>2, <1>3, Zenon
  <2> QED
    BY <1>1, <2>1, <2>2, Zenon DEF LastWordOff
<1>4. ASSUME NEW i \in 1..(n + 1), q[i].what = "off", \A j \in 1..(n + 1) : j > i => q[j].what \notin OnOff
      PROVE  LastWordOff(Tail(q), p)
  <2>1. CASE i = 1
    <3>1. ~p
      BY <1>0, <1>1, <1>4, <2>1, Zenon
    <3>2. \A k \in 1..n : Tail(q)[k].what \notin OnOff
      BY <1>1, <1>2, <1>4, <2>1, Zenon
    <3> QED
      BY <1>1, <3>1, <3>2, Zenon DEF LastWordOff
  <2>2. CASE i # 1
    <3>1. PICK k \in 1..n : i = k + 1
      BY <1>2, <2>2, Zenon
    <3>2. Tail(q)[k].what = "off"
      BY <1>1, <1>4, <3>1, Zenon
    <3>3. \A j \in 1..n : j > k => Tail(q)[j].what \notin OnOff
      BY <1>1, <1>2, <1>4, <3>1, Zenon
    <3> QED
      BY <1>1, <3>2, <3>3, Zenon DEF LastWordOff
  <2> QED
    BY <2>1, <2>2, Zenon
<1> QED
  BY <1>1, <1>3, <1>4, Zenon DEF LastWordOff

\* The last word is what OutAfter says.
LEMMA OffMeansOff ==
    ASSUME Requests(reqs), LastWordOff(reqs, out)
    PROVE  ~OutAfter
<1> DEFINE said == {i \in DOMAIN reqs : reqs[i].what \in OnOff}
           Last(i) == i \in said /\ \A j \in said : j <= i
<1>1. PICK n \in Nat : n = Len(reqs) /\ DOMAIN reqs = 1..n
  BY RequestParts, Zenon
<1>2. OutAfter = IF said = {} THEN out ELSE reqs[CHOOSE i \in said : \A j \in said : j <= i].what = "on"
  BY Zenon DEF OutAfter, OnOff
<1>3. CASE ~out /\ \A i \in 1..n : reqs[i].what \notin OnOff
  BY <1>1, <1>2, <1>3, Zenon
<1>4. ASSUME NEW i \in 1..n, reqs[i].what = "off", \A j \in 1..n : j > i => reqs[j].what \notin OnOff
      PROVE  ~OutAfter
  <2>1. i \in said
    BY <1>1, <1>4, Zenon DEF OnOff
  <2>2. \A j \in said : j <= i
    <3>1. \A j \in 1..n : j > i \/ j <= i
      OBVIOUS
    <3> QED
      BY <1>1, <1>4, <3>1, Zenon
  <2>3. \A k \in said : (\A j \in said : j <= k) => k = i
    <3>1. \A k \in 1..n : i <= k /\ k <= i => k = i
      OBVIOUS
    <3> QED
      BY <1>1, <2>1, <2>2, <3>1, Zenon
  <2>4. (CHOOSE k \in said : \A j \in said : j <= k) = i
    BY <2>1, <2>2, <2>3, Zenon
  <2>5. said # {} /\ "off" # "on"
    BY <2>1
  <2> HIDE DEF said
  <2> QED
    BY <1>2, <1>4, <2>4, <2>5, Zenon
<1> QED
  BY <1>1, <1>3, <1>4, Zenon DEF LastWordOff

\* Where a call leads: only the end of a dropped stream leads out of it, and only calls on the stream of the
\* session lead on to others.
Leads(c, d) ==
    /\ d \in LcPlaces \ {"scan", "retry", "end", "top"}
    /\ d \in Working => c \in Working
    /\ d = "released" <=> c = "drop"

\* Of every call
LEMMA Routes == \A c \in CubeCalls : Leads(c, Then[c]) /\ Leads(c, Else[c])
<1>1. CubeCalls = {"runner", "refresh", "enable", "first_close", "give_up", "reset", "open", "shut",
                   "force_close", "rate", "last_close", "end_stop", "stop", "drop"}
  BY DEF CubeCalls, Commands
<1>2. \A c \in CubeCalls : Leads(c, Then[c])
  <2>1. /\ Then["runner"] = "refresh" /\ Then["refresh"] = "enable" /\ Then["enable"] = "first_close"
        /\ Then["first_close"] = "accept" /\ Then["give_up"] = "stop"
    BY DEF Then
  <2>2. /\ Then["reset"] = "open" /\ Then["open"] = "step" /\ Then["shut"] = "step"
        /\ Then["force_close"] = "stop" /\ Then["rate"] = "data"
    BY DEF Then
  <2>3. /\ Then["last_close"] = "end_stop" /\ Then["end_stop"] = "stop" /\ Then["stop"] = "drop"
        /\ Then["drop"] = "released"
    BY DEF Then
  <2>4. /\ Leads("runner", "refresh") /\ Leads("refresh", "enable") /\ Leads("enable", "first_close")
        /\ Leads("first_close", "accept") /\ Leads("give_up", "stop")
    BY <1>1 DEF Leads, LcPlaces, Working
  <2>5. /\ Leads("reset", "open") /\ Leads("open", "step") /\ Leads("shut", "step")
        /\ Leads("force_close", "stop") /\ Leads("rate", "data")
    BY <1>1 DEF Leads, LcPlaces, Working
  <2>6. /\ Leads("last_close", "end_stop") /\ Leads("end_stop", "stop") /\ Leads("stop", "drop")
        /\ Leads("drop", "released")
    BY <1>1 DEF Leads, LcPlaces, Working
  <2> QED
    BY <1>1, <2>1, <2>2, <2>3, <2>4, <2>5, <2>6, Zenon
<1>3. \A c \in CubeCalls : Leads(c, Else[c])
  <2>1. DOMAIN Then = CubeCalls
    BY <1>1 DEF Then
  <2>2. /\ Else["refresh"] = "drop" /\ Else["enable"] = "drop" /\ Else["first_close"] = "give_up"
        /\ Else["reset"] = "force_close" /\ Else["rate"] = "stop"
    BY <1>1, <2>1 DEF Else
  <2>3. \A c \in CubeCalls \ {"refresh", "enable", "first_close", "reset", "rate"} : Else[c] = Then[c]
    BY <1>1, <2>1 DEF Else
  <2>4. /\ Leads("refresh", "drop") /\ Leads("enable", "drop") /\ Leads("first_close", "give_up")
        /\ Leads("reset", "force_close") /\ Leads("rate", "stop")
    BY <1>1 DEF Leads, LcPlaces, Working
  <2> QED
    BY <1>2, <2>2, <2>3, <2>4, Zenon
<1> QED
  BY <1>2, <1>3, Zenon

\* Where the driver goes on without its stream
LEMMA Returns == \A c \in DOMAIN Return : Return[c] \in {"retry", "scan", "top", "end"}
<1>1. DOMAIN Return = {"refresh", "enable", "first_close", "reset", "open", "shut", "rate"}
  BY DEF Return
<1>2. /\ Return["refresh"] = "retry" /\ Return["enable"] = "retry" /\ Return["first_close"] = "retry"
      /\ Return["reset"] = "scan"
  BY DEF Return
<1>3. Return["open"] = "scan" /\ Return["shut"] = "top" /\ Return["rate"] = "scan"
  BY DEF Return
<1> QED
  BY <1>1, <1>2, <1>3, Zenon

\* The commands of a dropped stream
LEMMA DropCommands ==
    /\ "drop" \in CubeCalls /\ Commands["drop"] = <<"off", "clear">> /\ Len(Commands["drop"]) = 2
    /\ Commands["drop"][1] = "off" /\ Commands["drop"][2] = "clear" /\ "clear" \notin OnOff
  BY DEF Commands, CubeCalls, OnOff

\* Nothing to age
LEMMA AgedNone == Aged(<<>>) = <<>>
  BY DEF Aged

-------------------------------------------------------------------------------
(* The driver *)

\* A step that goes to a new place and leaves the device and its requests alone
LEMMA Goes ==
    ASSUME CubeInv, NEW p \in LcPlaces, Goto(p), UNCHANGED <<reqs, out, unsaid, present>>,
           ret' \in {"retry", "scan", "top", "end"}, stream' \in BOOLEAN, ~present => claim' = "free",
           p \in Working => stream' = TRUE,
           p \in {"scan", "retry", "end", "released"} \/ (p = "top" /\ ~stream') => Over
    PROVE  CubeInv'
<1>1. lc' = p /\ idx' = 1 /\ waiting' = FALSE /\ 1 # 2
  BY DEF Goto
<1>2. CubeTypes'
  BY <1>1, Zenon DEF CubeInv, CubeTypes
<1>3. Over' => Over
  BY <1>1, Zenon DEF Over
<1>4. OffInv'
  BY <1>3, Zenon DEF CubeInv, OffInv
<1> QED
  BY <1>2, <1>4, Zenon DEF CubeInv

\* Opening, finding nothing, trying again
LEMMA OpeningKeeps == ASSUME CubeInv, ConnectCube \/ NotFound \/ RetryCube \/ AcceptCube PROVE CubeInv'
<1>0. ret \in {"retry", "scan", "top", "end"} /\ stream \in BOOLEAN /\ (~present => claim = "free")
  BY Zenon DEF CubeInv, CubeTypes
<1>1. CASE ConnectCube
  <2>1. /\ lc = "scan" /\ Goto("runner") /\ UNCHANGED <<reqs, out, unsaid, present, ret, stream>> /\ present
    BY <1>1, Zenon DEF ConnectCube, Rest, pipeVars, cubeVars
  <2>2. "runner" \in LcPlaces \ Working /\ "runner" \notin {"scan", "retry", "end", "released", "top"}
    BY DEF LcPlaces, CubeCalls, Commands, Working
  <2> QED
    BY <1>0, <2>1, <2>2, Goes, Zenon
<1>2. CASE NotFound \/ RetryCube
  <2>1. PICK p \in {"retry", "end", "scan"} :
           lc \in {"scan", "retry"} /\ Goto(p) /\ UNCHANGED <<reqs, out, unsaid, present, claim, ret, stream>>
    BY <1>2, Zenon DEF NotFound, RetryCube, Rest, Stay, pipeVars, cubeVars
  <2>2. p \in LcPlaces \ Working /\ p \in {"scan", "retry", "end", "released"}
    BY <2>1 DEF LcPlaces, Working
  <2>3. Over
    BY <2>1, Zenon DEF Over
  <2> QED
    BY <1>0, <2>1, <2>2, <2>3, Goes, Zenon
<1>3. CASE AcceptCube
  <2>1. UNCHANGED <<reqs, out, unsaid, present, claim>>
    BY <1>3, Zenon DEF AcceptCube, Rest, pipeVars, cubeVars, busVars
  <2>2. CASE Fits
    <3>1. Goto("top") /\ stream' = TRUE /\ ret' = ret
      BY <1>3, <2>2, Zenon DEF AcceptCube
    <3>2. "top" \in LcPlaces \ Working /\ "top" \notin {"scan", "retry", "end", "released"}
      BY DEF LcPlaces, Working
    <3> QED
      BY <1>0, <2>1, <3>1, <3>2, Goes, Zenon
  <2>3. CASE ~Fits
    <3>1. Goto("give_up") /\ ret' = "end" /\ stream' = stream
      BY <1>3, <2>3, Zenon DEF AcceptCube
    <3>2. "give_up" \in LcPlaces \ Working /\ "give_up" \notin {"scan", "retry", "end", "released", "top"}
      BY DEF LcPlaces, CubeCalls, Commands, Working
    <3> QED
      BY <1>0, <2>1, <3>1, <3>2, Goes, Zenon
  <2> QED
    BY <2>2, <2>3, Zenon
<1> QED
  BY <1>1, <1>2, <1>3, Zenon

\* The end of a stream
LEMMA ReleasedKeeps == ASSUME CubeInv, Released PROVE CubeInv'
<1>0. ret \in {"retry", "scan", "top", "end"} /\ (~present => claim = "free")
  BY Zenon DEF CubeInv, CubeTypes
<1>1. /\ lc = "released" /\ Goto(ret) /\ stream' = FALSE /\ UNCHANGED <<reqs, out, unsaid, present, ret>>
      /\ claim' = "free" \/ claim' = claim
  BY Zenon DEF Released, Rest, pipeVars, cubeVars
<1>2. ret \in LcPlaces \ Working
  BY <1>0 DEF LcPlaces, Working
<1>3. Over
  BY <1>1, Zenon DEF Over
<1> QED
  BY <1>0, <1>1, <1>2, <1>3, Goes, Zenon

\* The head of the loop, and the choice of the next chunk
LEMMA LoopKeeps == ASSUME CubeInv, TopCube \/ Step PROVE CubeInv'
<1>0. /\ ret \in {"retry", "scan", "top", "end"} /\ stream \in BOOLEAN /\ (~present => claim = "free")
      /\ lc \in Working => stream = TRUE
  BY Zenon DEF CubeInv, CubeTypes
<1>1. UNCHANGED <<reqs, out, unsaid, present, claim, stream>>
  BY Zenon DEF TopCube, Step, Rest, Stay, pipeVars, cubeVars
<1>p. /\ {"last_close", "scan", "end", "reset", "shut", "step", "open", "rate", "data", "top"} \subseteq LcPlaces
      /\ "last_close" \notin Working \cup {"scan", "retry", "end", "released", "top"}
      /\ "scan" \notin Working /\ "end" \notin Working /\ "top" \notin Working
      /\ "step" \in Working /\ {"reset", "shut", "step", "open", "rate", "data"} \cap {"scan", "retry", "end", "released", "top"} = {}
      /\ "top" \notin {"scan", "retry", "end", "released"}
  BY DEF LcPlaces, CubeCalls, Commands, Working
<1>2. CASE TopCube /\ lc_stop /\ stream
  <2>1. Goto("last_close") /\ ret' = "end"
    BY <1>2, Zenon DEF TopCube
  <2> QED
    BY <1>0, <1>1, <1>p, <2>1, Goes, Zenon
<1>3. CASE TopCube /\ ~stream
  <2>1. lc = "top" /\ (Goto("scan") \/ Goto("end")) /\ ret' = ret
    BY <1>3, Zenon DEF TopCube
  <2>2. Over
    BY <1>3, <2>1, Zenon DEF Over
  <2> QED
    BY <1>0, <1>1, <1>p, <2>1, <2>2, Goes, Zenon
<1>4. CASE TopCube /\ ~lc_stop /\ stream
  <2>1. Goto(Transition(armed)) /\ ret' = ret
    BY <1>4, Zenon DEF TopCube
  <2>2. Transition(armed) \in {"reset", "shut", "step", "open"}
    BY Zenon DEF Transition
  <2>3. stream' = TRUE
    BY <1>0, <1>1, <1>4, Zenon
  <2> QED
    BY <1>0, <1>1, <1>p, <2>1, <2>2, <2>3, Goes, Zenon
<1>5. CASE Step
  <2>1. lc = "step" /\ ret' = ret /\ \E p \in {"rate", "data", "top"} : Goto(p)
    BY <1>5, Zenon DEF Step
  <2>2. stream' = TRUE
    BY <1>0, <1>1, <1>p, <2>1, Zenon
  <2> QED
    BY <1>0, <1>1, <1>p, <2>1, <2>2, Goes, Zenon
<1> QED
  BY <1>2, <1>3, <1>4, <1>5, Zenon

\* Data
LEMMA DataKeeps == ASSUME CubeInv, SendPacket \/ SendPacketFails PROVE CubeInv'
<1>0. /\ ret \in {"retry", "scan", "top", "end"} /\ stream \in BOOLEAN /\ (~present => claim = "free")
      /\ lc \in Working => stream = TRUE
  BY Zenon DEF CubeInv, CubeTypes
<1>1. lc = "data" /\ UNCHANGED <<reqs, out, unsaid, present, claim, stream>>
  BY Zenon DEF SendPacket, SendPacketFails, pipeVars, cubeVars, busVars, usbVars
<1>p. /\ "data" \in Working /\ {"top", "drop"} \subseteq LcPlaces \ Working /\ "data" # "drop" /\ "data" # "top"
      /\ {"top", "drop"} \cap {"scan", "retry", "end", "released"} = {} /\ "drop" # "top"
      /\ "data" \notin {"scan", "retry", "end", "released"}
  BY DEF LcPlaces, CubeCalls, Commands, Working
<1>s. stream' = TRUE
  BY <1>0, <1>1, <1>p, Zenon
<1>2. CASE SendPacket /\ idx < Packets
  <2>1. lc' = lc /\ ret' = ret
    BY <1>2, Zenon DEF SendPacket
  <2>2. ~Over'
    BY <1>1, <1>p, <2>1, Zenon DEF Over
  <2> QED
    BY <1>1, <1>p, <1>s, <2>1, <2>2, Zenon DEF CubeInv, CubeTypes, OffInv
<1>3. CASE SendPacket /\ ~(idx < Packets)
  <2>1. Goto("top") /\ ret' = ret
    BY <1>3, Zenon DEF SendPacket
  <2> QED
    BY <1>0, <1>1, <1>p, <1>s, <2>1, Goes, Zenon
<1>4. CASE SendPacketFails
  <2>1. Goto("drop") /\ ret' = "scan"
    BY <1>4, Zenon DEF SendPacketFails
  <2> QED
    BY <1>0, <1>1, <1>p, <1>s, <2>1, Goes, Zenon
<1> QED
  BY <1>2, <1>3, <1>4, Zenon

-------------------------------------------------------------------------------
(* Calls *)

\* What the end of a command leaves behind
Onward ==
    /\ lc' \in LcPlaces \ {"scan", "retry", "end", "top"} /\ ret' \in {"retry", "scan", "top", "end"}
    /\ lc' = "drop" => idx' \in {1, 2}
    /\ lc' \in Working => lc \in Working
    /\ lc' = "released" => lc = "drop"
    /\ lc' = "drop" /\ (idx' = 2 \/ waiting') => lc = "drop"

\* A new place, reached from a call
LEMMA OnwardTo ==
    ASSUME NEW p, Leads(lc, p), Goto(p), ret' \in {"retry", "scan", "top", "end"}
    PROVE  Onward
<1>1. lc' = p /\ idx' = 1 /\ waiting' = FALSE /\ 1 # 2
  BY DEF Goto
<1> QED
  BY <1>1, Zenon DEF Onward, Leads

\* A call is a place, and not one of those between calls.
LEMMA CallPlaces == CubeCalls \subseteq LcPlaces \ {"scan", "retry", "end", "top", "released"}
  BY DEF LcPlaces, CubeCalls, Commands

\* A command that succeeded
LEMMA CallOkOnward ==
    ASSUME CubeTypes, lc \in CubeCalls, NEW v, CallOk(v)
    PROVE  Onward
<1>0. ret' \in {"retry", "scan", "top", "end"}
  BY Zenon DEF CubeTypes, CallOk
<1>1. CASE idx < Len(Commands[lc])
  <2>1. idx' = idx + 1 /\ waiting' = FALSE /\ lc' = lc
    BY <1>1, Zenon DEF CallOk
  <2>2. lc = "drop" => idx' \in {1, 2}
    <3>1. SUFFICES ASSUME lc = "drop" PROVE idx' \in {1, 2}
      OBVIOUS
    <3>2. idx \in {1, 2} /\ idx < 2
      BY <1>1, <3>1, DropCommands, Zenon DEF CubeTypes
    <3> QED
      BY <2>1, <3>2
  <2>3. lc \in LcPlaces \ {"scan", "retry", "end", "top", "released"}
    BY CallPlaces, Zenon
  <2> QED
    BY <1>0, <2>1, <2>2, <2>3, Zenon DEF Onward
<1>2. CASE ~(idx < Len(Commands[lc]))
  <2>1. Goto(Then[lc])
    BY <1>2, Zenon DEF CallOk
  <2>2. Leads(lc, Then[lc])
    BY Routes, Zenon
  <2> QED
    BY <1>0, <2>1, <2>2, OnwardTo, Zenon
<1> QED
  BY <1>1, <1>2, Zenon

\* A command that failed
LEMMA CallFailsOnward ==
    ASSUME CubeTypes, lc \in CubeCalls, NEW e, CallFails(e)
    PROVE  Onward
<1>1. CASE lc = "runner"
  <2>1. CallOk(0)
    BY <1>1, Zenon DEF CallFails
  <2> QED
    BY <2>1, CallOkOnward, Zenon
<1>2. CASE lc # "runner"
  <2>1. ret' \in {"retry", "scan", "top", "end"}
    BY <1>2, Returns, Zenon DEF CubeTypes, CallFails
  <2>2. CASE Fatal(e) /\ lc # "drop"
    <3>1. Goto("drop")
      BY <1>2, <2>2, Zenon DEF CallFails
    <3>2. Leads(lc, "drop")
      BY <2>2 DEF Leads, LcPlaces, CubeCalls, Commands, Working
    <3> QED
      BY <2>1, <3>1, <3>2, OnwardTo, Zenon
  <2>3. CASE ~(Fatal(e) /\ lc # "drop")
    <3>1. Goto(Else[lc])
      BY <1>2, <2>3, Zenon DEF CallFails
    <3>2. Leads(lc, Else[lc])
      BY Routes, Zenon
    <3> QED
      BY <2>1, <3>1, <3>2, OnwardTo, Zenon
  <2> QED
    BY <2>2, <2>3, Zenon
<1> QED
  BY <1>1, <1>2, Zenon

\* The types after a command, and who may be over
LEMMA OnwardKeeps ==
    ASSUME CubeTypes, Onward, UNCHANGED <<stream, present, claim>>, Requests(reqs'), reqs = <<>> => reqs' = <<>>
    PROVE  CubeTypes' /\ (Over' => lc = "drop")
<1>1. CubeTypes'
  BY Zenon DEF CubeTypes, Onward
<1>2. Over' => lc = "drop"
  BY Zenon DEF Onward, Over
<1> QED
  BY <1>1, <1>2

\* An answer
LEMMA ReceiveKeeps == ASSUME CubeInv, Receive \/ ReceiveFails PROVE CubeInv'
<1>0. CubeTypes /\ lc \in CubeCalls /\ waiting /\ Requests(reqs)
  BY Zenon DEF Receive, ReceiveFails, CubeInv, CubeTypes
<1>1. UNCHANGED <<stream, present, claim, out, unsaid>>
  BY Zenon DEF Receive, ReceiveFails, busVars, cubeVars
<1>2. Onward
  <2>1. \/ CallOk(Head(replies).value)
        \/ CallFails("Invalid")
        \/ \E e \in Errors : CallFails(e)
    BY Zenon DEF Receive, ReceiveFails
  <2> QED
    BY <1>0, <2>1, CallOkOnward, CallFailsOnward, Zenon
<1>3. reqs' = reqs \/ reqs' = Aged(reqs)
  BY Zenon DEF Receive, ReceiveFails, Take, StopWaiting
<1>4. Requests(reqs') /\ (reqs = <<>> => reqs' = <<>>)
  BY <1>0, <1>3, RequestParts, AgedNone, Zenon
<1>5. CubeTypes' /\ (Over' => lc = "drop")
  BY <1>0, <1>1, <1>2, <1>4, OnwardKeeps, Zenon
<1>6. lc = "drop" => Over
  BY <1>0, Zenon DEF Over
<1>7. LastWordOff(reqs, out) => LastWordOff(reqs', out')
  BY <1>0, <1>1, <1>3, OffAged, Zenon
<1> QED
  BY <1>1, <1>5, <1>6, <1>7, Zenon DEF CubeInv, OffInv

\* A command that is sent: `off` is the last word from the drop on.
LEMMA SentKeeps ==
    ASSUME CubeInv, lc \in CubeCalls, Submit(Cmd, chunk_rate), waiting' = TRUE, unsaid' = unsaid \ {Cmd},
           UNCHANGED <<lc, idx, ret, stream, present, claim, out>>
    PROVE  CubeInv'
<1> DEFINE e == [what |-> Cmd, arg |-> chunk_rate, fresh |-> TRUE]
<1>1. Request(e) /\ e.what = Cmd
  <2>1. e \in [what : {Cmd}, arg : {chunk_rate}, fresh : BOOLEAN] /\ e.what = Cmd
    OBVIOUS
  <2> QED
    BY <2>1, Zenon DEF Request
<1>2. reqs' = Append(Aged(reqs), e) /\ Attached
  BY Zenon DEF Submit
<1> HIDE DEF e
<1>3. CubeTypes /\ Requests(reqs) /\ Requests(Aged(reqs))
  BY RequestParts, Zenon DEF CubeInv, CubeTypes
<1>4. present
  <2>1. claim # "free"
    BY <1>2 DEF Attached
  <2> QED
    BY <1>3, <2>1, Zenon DEF CubeTypes
<1>5. CubeTypes'
  <2>1. Requests(reqs')
    BY <1>1, <1>2, <1>3, RequestAdded, Zenon
  <2> QED
    BY <1>3, <1>4, <2>1, Zenon DEF CubeTypes
<1>6. ASSUME Over' PROVE LastWordOff(reqs', out') \/ "off" \in unsaid'
  <2>1. lc = "drop" /\ idx \in {1, 2}
    <3>1. lc \notin {"scan", "retry", "end", "released", "top"}
      BY CallPlaces, Zenon
    <3> QED
      BY <1>3, <1>6, <3>1, Zenon DEF Over, CubeTypes
  <2>2. CASE idx = 1
    <3>1. e.what = "off"
      BY <1>1, <2>1, <2>2, DropCommands, Zenon DEF Cmd
    <3>2. LastWordOff(Append(Aged(reqs), e), out)
      BY <1>1, <1>3, <3>1, OffAdded, Zenon
    <3> QED
      BY <1>2, <3>2, Zenon
  <2>3. CASE idx = 2
    <3>1. Cmd = "clear" /\ e.what \notin OnOff /\ "clear" # "off"
      <4>1. "clear" # "off"
        OBVIOUS
      <4> QED
        BY <1>1, <2>1, <2>3, <4>1, DropCommands, Zenon DEF Cmd
    <3>2. LastWordOff(reqs, out) \/ "off" \in unsaid
      BY <1>4, <2>1, <2>3, Zenon DEF CubeInv, OffInv, Over
    <3>3. CASE LastWordOff(reqs, out)
      <4>1. LastWordOff(Append(Aged(reqs), e), out)
        BY <1>1, <1>3, <3>1, <3>3, OffAged, OffAdded, Zenon
      <4> QED
        BY <1>2, <4>1, Zenon
    <3>4. CASE "off" \in unsaid
      BY <3>1, <3>4, Zenon
    <3> QED
      BY <3>2, <3>3, <3>4, Zenon
  <2> QED
    BY <2>1, <2>2, <2>3, Zenon
<1> QED
  BY <1>5, <1>6, Zenon DEF CubeInv, OffInv

\* A command that could not be sent
LEMMA UnsentKeeps ==
    ASSUME CubeInv, lc \in CubeCalls, NEW e, SendFails(e), unsaid' = unsaid \cup ({Cmd} \cap {"off", "rate"}),
           UNCHANGED <<reqs, stream, present, claim, out>>
    PROVE  CubeInv'
<1>0. CubeTypes /\ Requests(reqs)
  BY Zenon DEF CubeInv, CubeTypes
<1>1. Onward
  <2>1. CASE lc = "runner"
    <3>1. lc' = lc /\ ret' = ret
      BY <2>1, Zenon DEF SendFails
    <3>2. "runner" # "drop" /\ "runner" \notin Working /\ "runner" # "released"
      BY DEF Working
    <3>3. lc \in LcPlaces \ {"scan", "retry", "end", "top"}
      BY CallPlaces, Zenon
    <3> QED
      BY <1>0, <2>1, <3>1, <3>2, <3>3, Zenon DEF Onward, CubeTypes
  <2>2. CASE lc # "runner"
    BY <1>0, <2>2, CallFailsOnward, Zenon DEF SendFails
  <2> QED
    BY <2>1, <2>2, Zenon
<1>2. CubeTypes' /\ (Over' => lc = "drop")
  BY <1>0, <1>1, OnwardKeeps, Zenon
<1>3. ASSUME lc = "drop", present PROVE LastWordOff(reqs, out) \/ "off" \in unsaid'
  <2>1. CASE idx = 1
    BY <1>3, <2>1, DropCommands, Zenon DEF Cmd
  <2>2. CASE idx = 2
    BY <1>3, <2>2, Zenon DEF CubeInv, OffInv, Over
  <2> QED
    BY <1>0, <1>3, <2>1, <2>2, Zenon DEF CubeTypes
<1> QED
  BY <1>2, <1>3, Zenon DEF CubeInv, OffInv

\* send_control
LEMMA SendKeeps == ASSUME CubeInv, Send PROVE CubeInv'
<1>1. lc \in CubeCalls /\ UNCHANGED <<stream, present, claim, out>>
  BY Zenon DEF Send, busVars, cubeVars
<1>2. CASE /\ Submit(Cmd, chunk_rate) /\ waiting' = TRUE /\ unsaid' = unsaid \ {Cmd}
           /\ UNCHANGED <<lc, idx, ret, info, handled, shutter>>
  BY <1>1, <1>2, SentKeeps, Zenon
<1>3. CASE /\ \E e \in Errors : TransferFails(e) /\ SendFails(e)
           /\ unsaid' = unsaid \cup ({Cmd} \cap {"off", "rate"}) /\ UNCHANGED pipeVars
  BY <1>1, <1>3, UnsentKeeps, Zenon DEF pipeVars
<1> QED
  BY <1>2, <1>3, Zenon DEF Send

-------------------------------------------------------------------------------
(* The device, the bus and the application *)

\* The device handles a request: as asked, or its `off` stays unsaid.
LEMMA HandledKeeps ==
    ASSUME CubeInv, present, reqs # <<>>, reqs' = Tail(reqs), ("off" \in unsaid => "off" \in unsaid'),
           UNCHANGED <<lc, idx, waiting, ret, stream, present, claim>>,
           "off" \in unsaid' \/ Obeyed(Head(reqs), out, out')
    PROVE  CubeInv'
<1>1. CubeTypes /\ Requests(reqs) /\ Requests(Tail(reqs))
  BY RequestTaken, Zenon DEF CubeInv, CubeTypes
<1>2. CubeTypes'
  BY <1>1, Zenon DEF CubeTypes
<1>3. Over' => Over
  BY Zenon DEF Over
<1>4. LastWordOff(reqs, out) => LastWordOff(Tail(reqs), out') \/ "off" \in unsaid'
  BY <1>1, OffHandled, Zenon
<1> QED
  BY <1>2, <1>3, <1>4, Zenon DEF CubeInv, OffInv

\* The device answers.
LEMMA AnswerKeeps == ASSUME CubeInv, AnswerCube \/ AnswerRunner PROVE CubeInv'
<1>1. /\ present /\ reqs # <<>> /\ reqs' = Tail(reqs)
      /\ UNCHANGED <<lc, idx, waiting, ret, stream, present, claim>>
  BY Zenon DEF AnswerCube, AnswerRunner, Handle, driverVars, busVars
<1>2. CASE AnswerCube
  <2>1. PICK what \in {"on", "off", "clear", "rate", "get_max", "get_rate"}, obeyed \in BOOLEAN :
            /\ what = Head(reqs).what
            /\ out' = (IF obeyed /\ what \in {"on", "off"} THEN what = "on" ELSE out)
            /\ unsaid' = (IF obeyed THEN unsaid ELSE unsaid \cup ({what} \cap {"off", "rate"}))
    BY <1>2, Zenon DEF AnswerCube, Handle
  <2>2. what = "off" => ~out' \/ "off" \in unsaid'
    <3>1. "off" # "on"
      OBVIOUS
    <3> QED
      BY <2>1, <3>1, Zenon
  <2>3. what \notin OnOff => out' = out
    BY <2>1, Zenon DEF OnOff
  <2>4. ("off" \in unsaid => "off" \in unsaid')
    BY <2>1, Zenon
  <2>5. "off" \in unsaid' \/ Obeyed(Head(reqs), out, out')
    BY <2>1, <2>2, <2>3, Zenon DEF Obeyed
  <2> QED
    BY <1>1, <2>4, <2>5, HandledKeeps, Zenon
<1>3. CASE AnswerRunner
  <2>1. Head(reqs).what = "runner" /\ out' = out /\ unsaid' = unsaid /\ "runner" # "off"
    <3>1. "runner" # "off"
      OBVIOUS
    <3> QED
      BY <1>3, <3>1, Zenon DEF AnswerRunner, Handle, cubeVars
  <2>2. Obeyed(Head(reqs), out, out')
    BY <2>1, Zenon DEF Obeyed
  <2> QED
    BY <1>1, <2>1, <2>2, HandledKeeps, Zenon
<1> QED
  BY <1>2, <1>3, Zenon

\* A step that leaves all of this alone
LEMMA AsideKeeps ==
    ASSUME CubeInv, UNCHANGED <<lc, idx, waiting, ret, stream, present, claim, reqs, out, unsaid>>
    PROVE  CubeInv'
  BY Zenon DEF CubeInv, CubeTypes, OffInv, Over

\* Nothing asked of a device that is off
LEMMA NoRequests == Requests(<<>>) /\ LastWordOff(<<>>, FALSE)
<1>1. <<>> \in Seq([what : {}, arg : {}, fresh : BOOLEAN]) /\ 1..Len(<<>>) = {}
  OBVIOUS
<1>2. Requests(<<>>)
  BY <1>1, Zenon DEF Requests
<1>3. LastWordOff(<<>>, FALSE)
  BY <1>1, Zenon DEF LastWordOff
<1> QED
  BY <1>2, <1>3

\* The device hangs, goes or comes.
LEMMA BusKeeps == ASSUME CubeInv, LcBus PROVE CubeInv'
<1>0. UNCHANGED <<lc, idx, waiting, ret, stream>>
  BY Zenon DEF LcBus, driverVars
<1>1. CASE Hang /\ UNCHANGED <<cubeVars, unsaid>>
  BY <1>0, <1>1, AsideKeeps, Zenon DEF Hang, pipeVars, cubeVars
<1>2. CASE Unplug
  <2>1. present' = FALSE /\ reqs' = <<>> /\ claim' = "free"
    BY <1>2, Zenon DEF Unplug
  <2> QED
    BY <1>0, <2>1, NoRequests, Zenon DEF CubeInv, CubeTypes, OffInv
<1>3. CASE Plug /\ out' = FALSE /\ unsaid' = {}
  <2>1. reqs = <<>> /\ reqs' = <<>> /\ claim' = claim /\ present' = TRUE
    BY <1>3, Zenon DEF Plug, pipeVars, CubeInv, CubeTypes
  <2>2. LastWordOff(reqs', out')
    BY <1>3, <2>1, NoRequests, Zenon
  <2> QED
    BY <1>0, <2>1, <2>2, NoRequests, Zenon DEF CubeInv, CubeTypes, OffInv
<1> QED
  BY <1>1, <1>2, <1>3, Zenon DEF LcBus

\* Every step
LEMMA CubeStep == ASSUME CubeInv, [LcNext]_lcVars PROVE CubeInv'
<1>1. CASE LcThread
  BY <1>1, SendKeeps, ReceiveKeeps, OpeningKeeps, ReleasedKeeps, LoopKeeps, DataKeeps, Zenon DEF LcThread
<1>2. CASE AnswerCube \/ AnswerRunner
  BY <1>2, AnswerKeeps, Zenon
<1>3. CASE LcBus
  BY <1>3, BusKeeps, Zenon
<1>4. CASE Play \/ Wish
  <2>1. UNCHANGED <<lc, idx, waiting, ret, stream, present, claim, reqs, out, unsaid>>
    BY <1>4, Zenon DEF Play, Wish, usbVars, cubeVars, driverVars
  <2> QED
    BY <2>1, AsideKeeps, Zenon
<1>5. CASE UNCHANGED lcVars
  <2>1. UNCHANGED <<lc, idx, waiting, ret, stream, present, claim, reqs, out, unsaid>>
    BY <1>5, Zenon DEF lcVars, usbVars, cubeVars
  <2> QED
    BY <2>1, AsideKeeps, Zenon
<1> QED
  BY <1>1, <1>2, <1>3, <1>4, <1>5, Zenon DEF LcNext

\* The start
LEMMA CubeStart == ASSUME UsbInit, LcInit("scan") PROVE CubeInv
<1>1. lc = "scan" /\ ret = "scan" /\ stream = FALSE /\ out = FALSE /\ present = TRUE /\ reqs = <<>>
  BY Zenon DEF UsbInit, LcInit
<1>2. "scan" \in LcPlaces /\ "scan" # "drop" /\ "scan" \notin Working
  BY DEF LcPlaces, Working
<1>3. LastWordOff(reqs, out)
  BY <1>1, NoRequests, Zenon
<1> QED
  BY <1>1, <1>2, <1>3, NoRequests, Zenon DEF CubeInv, CubeTypes, OffInv

\* No USB LaserCube is left lit when its stream is gone, whatever call of connect,
\* of the driver or of the teardown failed at whatever command (Stream::drop), for
\* any device, rates, lengths of the calls and of the ring, and budget of faults.
THEOREM CubeDark == LcSpec => []UnownedDark
<1>1. UsbInit /\ LcInit("scan") => CubeInv
  BY CubeStart
<1>2. CubeInv /\ [LcNext]_lcVars => CubeInv'
  BY CubeStep
<1>3. CubeInv => UnownedDark
  <2>1. SUFFICES ASSUME CubeInv, lc \in {"scan", "retry", "end"}, present PROVE ~OutAfter \/ "off" \in unsaid
    BY Zenon DEF UnownedDark
  <2>2. LastWordOff(reqs, out) \/ "off" \in unsaid
    BY <2>1, Zenon DEF CubeInv, OffInv, Over
  <2> QED
    BY <2>1, <2>2, OffMeansOff, Zenon DEF CubeInv, CubeTypes
<1> QED
  BY <1>1, <1>2, <1>3, PTL DEF LcSpec
===============================================================================
