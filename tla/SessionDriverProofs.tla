-------------------------- MODULE SessionDriverProofs --------------------------
(***************************************************************************)
(* Safety of a session, for every set of handles, every bound, every       *)
(* adapter and any number of failures.                                     *)
(***************************************************************************)
EXTENDS SessionDriver, SequenceTheorems, TLAPS

-------------------------------------------------------------------------------
(* The types, one part per group of variables. *)

DevType ==
    /\ connected \in BOOLEAN /\ phys \in BOOLEAN
    /\ ring \in Seq(Slice)
    /\ caps \in CapsSet
    /\ faults \in 0..MaxFaults
SrcType ==
    /\ cache \in Slice \cup {NoSlice}
    /\ blank \in 0..BlankSlices
    /\ src_end \in {"no", "ended", "stop_error"}
LoopType ==
    /\ shutter \in ShutterState
    /\ handled \in 0..MaxWord
    /\ retain \in BOOLEAN
    /\ tries \in 0..MaxTransientRetries
PassType ==
    /\ observed \in 0..MaxWord
    /\ is_armed \in BOOLEAN
    /\ pps \in Nat
    /\ exit \in SessionExit \cup {"none", "Err"}
RcType ==
    /\ setup \in Setups
    /\ retries \in Nat
    /\ cand \in [up : BOOLEAN, fits : BOOLEAN, caps : CapsSet]
    /\ conn \in Nat
HistType ==
    /\ wrote \in Slice \cup {NoSlice}
    /\ blanked \in BOOLEAN
    /\ prepared \in 0..MaxWord

Types == ControlTypeOK /\ DevType /\ SrcType /\ LoopType /\ PassType /\ RcType /\ HistType /\ pc \in PcLabels

LEMMA TypeParts == Types <=> TypeOK
BY DEF Types, TypeOK, DevType, SrcType, LoopType, PassType, RcType, HistType

\* A group of variables that a step leaves alone keeps its types.
LEMMA CtlStays == ControlTypeOK /\ UNCHANGED ctlVars => ControlTypeOK'
BY DEF ControlTypeOK, ctlVars
LEMMA DevStays == DevType /\ UNCHANGED devVars => DevType'
BY DEF DevType, devVars
LEMMA SrcStays == SrcType /\ UNCHANGED srcVars => SrcType'
BY DEF SrcType, srcVars
LEMMA LoopStays == LoopType /\ UNCHANGED loopVars => LoopType'
BY DEF LoopType, loopVars
LEMMA PassStays == PassType /\ UNCHANGED passVars => PassType'
BY DEF PassType, passVars
LEMMA RcStays == RcType /\ UNCHANGED rcVars => RcType'
BY DEF RcType, rcVars
LEMMA HistStays == HistType /\ UNCHANGED histVars => HistType'
BY DEF HistType, histVars

-------------------------------------------------------------------------------
(* Types: the operations that several actions share *)

\* The messages taken from the channel are gone, the rest of the state stays.
LEMMA ProcessType ==
    ASSUME ControlTypeOK, ProcessControlMessages
    PROVE  ControlTypeOK'
<1>1. control_tx' \in Seq(ControlMsg)
  <2>1. CASE ControlAction = "Stop"
    <3>1. PICK k \in 1..Len(control_tx) : control_tx' = SubSeq(control_tx, k + 1, Len(control_tx))
      BY <2>1 DEF ProcessControlMessages
    <3>2. QED
      BY <3>1, SubSeqProperties DEF ControlTypeOK
  <2>2. CASE ControlAction # "Stop"
    <3>1. control_tx' = <<>>
      BY <2>2 DEF ProcessControlMessages
    <3>2. QED
      BY <3>1
  <2>3. QED
    BY <2>1, <2>2
<1>2. QED
  BY <1>1 DEF ControlTypeOK, ProcessControlMessages

LEMMA FaultType ==
    ASSUME faults \in 0..MaxFaults, faults' = faults \/ Fault
    PROVE  faults' \in 0..MaxFaults
BY StateAssumption DEF Fault

\* What the driver's commands to the device may change.
LEMMA SetShutterType ==
    ASSUME DevType, NEW open \in BOOLEAN, NEW ok \in BOOLEAN, SetShutter(open, ok)
    PROVE  DevType'
<1>1. connected' \in BOOLEAN /\ phys' \in BOOLEAN
  BY Zenon DEF DevType, SetShutter
<1>2. faults' \in 0..MaxFaults
  <2>1. faults' = faults \/ Fault
    BY Zenon DEF SetShutter
  <2>2. QED
    BY <2>1, FaultType DEF DevType
<1>3. ring' \in Seq(Slice) /\ caps' \in CapsSet
  BY DEF DevType, SetShutter
<1>4. QED
  BY <1>1, <1>2, <1>3 DEF DevType

LEMMA DisconnectType ==
    ASSUME DevType, Disconnect, faults' = faults \/ Fault
    PROVE  DevType'
<1>1. connected' \in BOOLEAN /\ phys' \in BOOLEAN
  BY Zenon DEF DevType, Disconnect
<1>2. faults' \in 0..MaxFaults
  BY FaultType DEF DevType
<1>3. ring' \in Seq(Slice) /\ caps' \in CapsSet
  BY DEF DevType, Disconnect
<1>4. QED
  BY <1>1, <1>2, <1>3 DEF DevType

LEMMA CloseType ==
    ASSUME DevType, shutter \in ShutterState, NEW force \in BOOLEAN,
           CloseShutter \/ CommandClose(force) \/ CloseIfDisarmed
    PROVE  DevType' /\ shutter' \in ShutterState
<1>1. CASE CloseShutter
  BY <1>1, SetShutterType DEF CloseShutter, ShutterState
<1>2. CASE UNCHANGED <<shutter, devVars>>
  BY <1>2, DevStays
<1>3. QED
  BY <1>1, <1>2 DEF CommandClose, CloseIfDisarmed

\* A discarded slice, and a composed one.
LEMMA DiscardType ==
    ASSUME SrcType, LoopType, HistType, DiscardOutput
    PROVE  cache' = NoSlice /\ retain' = FALSE /\ tries' \in 0..MaxTransientRetries /\ blanked' = FALSE
BY DEF DiscardOutput, LoopType, MaxTransientRetries

LEMMA ProduceType ==
    ASSUME SrcType, handled \in 0..MaxWord, conn \in Nat, NEW armed \in BOOLEAN,
           ProduceSlice(armed) \/ ProduceEmpty(armed)
    PROVE  SrcType'
<1>1. blank' \in 0..BlankSlices
  BY StateAssumption DEF SrcType, ProduceSlice, ProduceEmpty, Compose
<1>2. cache' \in Slice \cup {NoSlice}
  BY ControlAssumption DEF SrcType, ProduceSlice, ProduceEmpty, Compose, Slice, SliceKind
<1>3. src_end' \in {"no", "ended", "stop_error"}
  BY DEF SrcType, ProduceSlice, ProduceEmpty
<1>4. QED
  BY <1>1, <1>2, <1>3 DEF SrcType

LEMMA SliceComposed ==
    ASSUME handled \in 0..MaxWord, conn \in Nat, NEW armed \in BOOLEAN, ProduceSlice(armed)
    PROVE  cache' # NoSlice
BY DEF ProduceSlice, Compose, SliceKind, NoSlice

-------------------------------------------------------------------------------
(* Type correctness. A write appends the cached slice to a device ring, so the *)
(* types need to know that there is one.                                       *)

SliceReady ==
    /\ retain => cache # NoSlice
    /\ pc \in {"write", "spin", "spin_none", "spin_compare"} => cache # NoSlice
    /\ Model = "NetworkFifo" => ~retain
    /\ pc = "produce" => Model = "UdpTimed"

LEMMA LoopTypes == Types /\ LoopStep => Types'
<1> SUFFICES ASSUME Types, LoopStep PROVE Types'
  OBVIOUS
<1> USE DEF Types, Goto
<1>1. CASE LoopTop
  BY <1>1, CtlStays, DevStays, SrcStays, LoopStays, RcStays
     DEF LoopTop, PassType, HistType, ControlTypeOK, PcLabels
<1>2. CASE LoopDrain
  BY <1>2, ProcessType, DevStays, SrcStays, LoopStays, PassStays, RcStays, HistStays DEF LoopDrain, PcLabels
<1>3. CASE Load
  BY <1>3, CtlStays, DevStays, SrcStays, LoopStays, RcStays, HistStays
     DEF Load, PassType, ControlTypeOK, PcLabels
<1>4. CASE Fall
  BY <1>4, CtlStays, CloseType, DiscardType, RcStays
     DEF Fall, SrcType, LoopType, PassType, HistType, ControlTypeOK, PcLabels
<1>5. CASE Recheck
  BY <1>5, CtlStays, DevStays, SrcStays, LoopStays, PassStays, RcStays, HistStays DEF Recheck, PcLabels
<1>6. CASE Prepare
  <2>1. DevType'
    BY <1>6 DEF Prepare, DevType
  <2>2. SrcType' /\ LoopType' /\ HistType'
    <3>1. cache' = NoSlice /\ retain' = FALSE /\ tries' \in 0..MaxTransientRetries /\ blanked' = FALSE
      BY <1>6, DiscardType DEF Prepare
    <3>2. blank' \in 0..BlankSlices
      BY <1>6, StateAssumption DEF Prepare
    <3>3. QED
      BY <1>6, <3>1, <3>2 DEF Prepare, SrcType, LoopType, HistType, PassType
  <2>3. QED
    BY <1>6, <2>1, <2>2, CtlStays, PassStays, RcStays DEF Prepare, PcLabels
<1>7. CASE PrepareFails
  <2>1. DevType'
    BY <1>7, DisconnectType DEF PrepareFails
  <2>2. SrcType' /\ LoopType' /\ HistType'
    <3>1. cache' = NoSlice /\ retain' = FALSE /\ tries' \in 0..MaxTransientRetries /\ blanked' = FALSE
      BY <1>7, DiscardType DEF PrepareFails
    <3>2. blank' \in 0..BlankSlices
      BY <1>7, StateAssumption DEF PrepareFails
    <3>3. QED
      BY <1>7, <3>1, <3>2 DEF PrepareFails, SrcType, LoopType, HistType, PassType, ShutterState
  <2>3. QED
    BY <1>7, <2>1, <2>2, CtlStays, PassStays, RcStays DEF PrepareFails, PcLabels
<1>8. CASE Gate
  BY <1>8, CtlStays, DevStays, SrcStays, LoopStays, PassStays, RcStays, HistStays DEF Gate, PcLabels
<1>9. CASE GateClose
  BY <1>9, CtlStays, CloseType, SrcStays, PassStays, RcStays, HistStays DEF GateClose, LoopType, PcLabels
<1>10. CASE Opening
  <2>1. DevType' /\ shutter' \in ShutterState
    BY <1>10, SetShutterType, DevStays DEF Opening, ShutterState, LoopType
  <2>2. QED
    BY <1>10, <2>1, CtlStays, SrcStays, PassStays, RcStays, HistStays DEF Opening, LoopType, PcLabels
<1>11. CASE OpenCheck
  <2>1. DevType' /\ shutter' \in ShutterState
    BY <1>11, CloseType, DevStays DEF OpenCheck, LoopType
  <2>2. QED
    BY <1>11, <2>1, CtlStays, SrcStays, PassStays, RcStays, HistStays DEF OpenCheck, LoopType, PcLabels
<1>12. CASE ArmRead
  <2>1. PassType'
    BY <1>12 DEF ArmRead, PassType, IsArmed
  <2>2. QED
    BY <1>12, <2>1, CtlStays, DevStays, SrcStays, LoopStays, RcStays, HistStays DEF ArmRead, PcLabels
<1>13. CASE EndCheck
  BY <1>13, CtlStays, DevStays, SrcStays, LoopStays, PassStays, RcStays, HistStays DEF EndCheck, PcLabels
<1>14. CASE EndWithError
  BY <1>14, CtlStays, CloseType, SrcStays, RcStays, HistStays DEF EndWithError, LoopType, PassType, PcLabels
<1>15. CASE Stopping
  BY <1>15, CtlStays, CloseType, SrcStays, RcStays, HistStays DEF Stopping, LoopType, PassType, SessionExit, PcLabels
<1>16. CASE EndSession
  <2>1. DevType'
    BY <1>16, DisconnectType, DevStays DEF EndSession
  <2>2. ControlTypeOK'
    <3>1. control_tx' \in Seq(ControlMsg)
      <4>1. control_tx' = <<>>
        BY <1>16 DEF EndSession, DropReceiver
      <4>2. QED
        BY <4>1
    <3>2. QED
      BY <1>16, <3>1 DEF EndSession, DropReceiver, ControlTypeOK
  <2>3. QED
    BY <1>16, <2>1, <2>2, SrcStays, LoopStays, PassStays, RcStays, HistStays DEF EndSession, PcLabels
<1>17. QED
  BY <1>1, <1>2, <1>3, <1>4, <1>5, <1>6, <1>7, <1>8, <1>9, <1>10, <1>11, <1>12, <1>13,
     <1>14, <1>15, <1>16 DEF LoopStep

LEMMA RetainOrProduceType ==
    ASSUME Types, RetainOrProduce
    PROVE  SrcType' /\ retain' \in BOOLEAN /\ pc' \in {"write", "endcheck"}
<1>1. SrcType'
  <2>1. UNCHANGED srcVars \/ ProduceSlice(is_armed) \/ ProduceEmpty(is_armed)
    BY DEF RetainOrProduce
  <2>2. QED
    BY <2>1, SrcStays, ProduceType DEF Types, LoopType, PassType, RcType
<1>2. QED
  BY <1>1 DEF RetainOrProduce, Types, LoopType, Goto

LEMMA AdapterTypes == Types /\ SliceReady /\ AdapterStep => Types'
<1> SUFFICES ASSUME Types, SliceReady, AdapterStep PROVE Types'
  OBVIOUS
<1> USE DEF Types, Goto
<1>1. CASE WaitEnds \/ WaitStopped
  BY <1>1, CtlStays, DevStays, SrcStays, LoopStays, PassStays, RcStays, HistStays
     DEF WaitEnds, WaitStopped, AfterWait, PcLabels
<1>2. CASE WaitClose
  BY <1>2, CtlStays, CloseType, SrcStays, PassStays, RcStays, HistStays DEF WaitClose, LoopType, PcLabels
<1>3. CASE WaitDrain
  BY <1>3, ProcessType, DevStays, SrcStays, LoopStays, PassStays, RcStays, HistStays
     DEF WaitDrain, ControlAction, PcLabels
<1>4. CASE NetworkFifoPace \/ UdpTimedPace \/ FrameSwapNotReady \/ BlockingIdle
  BY <1>4, CtlStays, DevStays, SrcStays, LoopStays, PassStays, RcStays, HistStays
     DEF NetworkFifoPace, UdpTimedPace, FrameSwapNotReady, BlockingIdle, PcLabels
<1>5. CASE NetworkFifoProduce
  <2>1. SrcType'
    BY <1>5, ProduceType DEF NetworkFifoProduce, LoopType, PassType, RcType
  <2>2. PassType'
    BY <1>5 DEF NetworkFifoProduce, PassType, ControlTypeOK
  <2>3. QED
    BY <1>5, <2>1, <2>2, CtlStays, DevStays, LoopStays, RcStays, HistStays DEF NetworkFifoProduce, PcLabels
<1>6. CASE SpinDrain
  <2>1. ControlTypeOK'
    BY <1>6, ProcessType, CtlStays DEF SpinDrain
  <2>2. pc' \in PcLabels
    BY <1>6 DEF SpinDrain, ControlAction, PcLabels
  <2>3. QED
    BY <1>6, <2>1, <2>2, DevStays, SrcStays, LoopStays, PassStays, RcStays, HistStays DEF SpinDrain
<1>7. CASE SpinClose
  <2>1. pc' \in PcLabels
    BY <1>7 DEF SpinClose, PcLabels
  <2>2. QED
    BY <1>7, <2>1, CtlStays, CloseType, SrcStays, PassStays, RcStays, HistStays DEF SpinClose, LoopType
<1>8. CASE SpinCompare
  BY <1>8, CtlStays, DevStays, SrcStays, LoopStays, PassStays, RcStays, HistStays DEF SpinCompare, PcLabels
<1>9. CASE SpinStalled
  BY <1>9, CtlStays, DisconnectType, SrcStays, LoopStays, PassStays, RcStays, HistStays DEF SpinStalled, PcLabels
<1>10. CASE UdpTimedProduce
  <2>1. SrcType' /\ retain' \in BOOLEAN /\ pc' \in PcLabels
    BY <1>10, RetainOrProduceType DEF UdpTimedProduce, PcLabels
  <2>2. PassType'
    BY <1>10 DEF UdpTimedProduce, PassType, ControlTypeOK
  <2>3. QED
    BY <1>10, <2>1, <2>2, CtlStays, DevStays, RcStays, HistStays DEF UdpTimedProduce, LoopType
<1>11. CASE FrameSwapProduce \/ BlockingProduce
  <2>1. SrcType' /\ retain' \in BOOLEAN /\ pc' \in PcLabels
    BY <1>11, RetainOrProduceType DEF FrameSwapProduce, BlockingProduce, PcLabels
  <2>2. QED
    BY <1>11, <2>1, CtlStays, DevStays, PassStays, RcStays, HistStays DEF FrameSwapProduce, BlockingProduce, LoopType
<1>12. CASE WriteAccepted
  <2>1. cache \in Slice
    BY <1>12 DEF WriteAccepted, SliceReady, SrcType
  <2>2. DevType'
    BY <1>12, <2>1 DEF WriteAccepted, DevType
  <2>3. SrcType' /\ LoopType'
    <3>1. cache' = NoSlice /\ retain' = FALSE /\ tries' = 0 /\ UNCHANGED <<blank, src_end, shutter, handled>>
      BY <1>12 DEF WriteAccepted
    <3>2. QED
      BY <3>1, 0 \in 0..3, Zenon DEF SrcType, LoopType, MaxTransientRetries
  <2>4. HistType'
    <3>1. blanked' \in BOOLEAN
      BY <1>12, Zenon DEF WriteAccepted
    <3>2. QED
      BY <1>12, <2>1, <3>1 DEF WriteAccepted, HistType
  <2>5. QED
    BY <1>12, <2>2, <2>3, <2>4, CtlStays, PassStays, RcStays DEF WriteAccepted, PcLabels
<1>13. CASE WriteWouldBlock
  BY <1>13, CtlStays, DevStays, SrcStays, LoopStays, PassStays, RcStays, HistStays DEF WriteWouldBlock, PcLabels
<1>14. CASE BlockingRetry
  <2>1. DevType' /\ shutter' \in ShutterState
    BY <1>14, CloseType, DevStays DEF BlockingRetry, LoopType
  <2>2. QED
    BY <1>14, <2>1, CtlStays, SrcStays, PassStays, RcStays, HistStays DEF BlockingRetry, LoopType, PcLabels
<1>15. CASE WriteDisconnected
  <2>1. DevType'
    BY <1>15, DisconnectType, DevStays DEF WriteDisconnected
  <2>2. QED
    BY <1>15, <2>1, CtlStays, SrcStays, LoopStays, PassStays, RcStays, HistStays DEF WriteDisconnected, PcLabels
<1>16. CASE WriteTransient
  <2>1. DevType'
    BY <1>16, DisconnectType, DevStays DEF WriteTransient
  <2>2. LoopType'
    <3>1. /\ UNCHANGED <<shutter, handled>>
          /\ \/ tries < MaxTransientRetries /\ tries' = tries + 1 /\ retain' = retain
             \/ tries' = 0 /\ retain' = FALSE
      BY <1>16 DEF WriteTransient
    <3>2. retain' \in BOOLEAN
      BY <3>1, Zenon DEF LoopType
    <3>3. tries' \in 0..MaxTransientRetries
      BY <3>1 DEF LoopType, MaxTransientRetries
    <3>4. QED
      BY <3>1, <3>2, <3>3 DEF LoopType
  <2>3. QED
    BY <1>16, <2>1, <2>2, CtlStays, SrcStays, PassStays, RcStays, HistStays DEF WriteTransient, PcLabels
<1>17. CASE WriteStopped
  <2>1. DevType'
    BY <1>17, FaultType DEF WriteStopped, DevType
  <2>2. QED
    BY <1>17, <2>1, CtlStays, SrcStays, LoopStays, PassStays, RcStays, HistStays DEF WriteStopped, PcLabels
<1>18. CASE DrainEnds
  BY <1>18, CtlStays, DevStays, SrcStays, LoopStays, PassStays, RcStays, HistStays DEF DrainEnds, PcLabels
<1>19. CASE DrainPoll
  BY <1>19, CtlStays, CloseType, SrcStays, PassStays, RcStays, HistStays DEF DrainPoll, LoopType, PcLabels
<1>20. CASE DrainControls
  BY <1>20, ProcessType, DevStays, SrcStays, LoopStays, PassStays, RcStays, HistStays DEF DrainControls, PcLabels
<1>21. CASE ResetBeforeBlank
  <2>1. ring' \in Seq(Slice)
    <3>1. ring' = <<>> \/ ring' = ring
      BY <1>21 DEF ResetBeforeBlank
    <3>2. QED
      BY <3>1, EmptySeq, Zenon DEF DevType
  <2>2. faults' \in 0..MaxFaults
    BY <1>21, FaultType DEF ResetBeforeBlank, DevType
  <2>3. DevType'
    BY <1>21, <2>1, <2>2 DEF ResetBeforeBlank, DevType
  <2>4. QED
    BY <1>21, <2>3, CtlStays, SrcStays, LoopStays, PassStays, RcStays, HistStays DEF ResetBeforeBlank, PcLabels
<1>22. CASE BlankClose
  BY <1>22, CtlStays, CloseType, SrcStays, PassStays, RcStays, HistStays DEF BlankClose, LoopType, PcLabels
<1>23. CASE BlankWrite
  <2>1. [kind |-> "park", gen |-> handled, conn |-> conn] \in Slice
    BY ControlAssumption DEF Slice, LoopType, RcType
  <2>2. DevType'
    BY <1>23, <2>1 DEF BlankWrite, DevType
  <2>3. PassType'
    BY <1>23 DEF BlankWrite, PassType, SessionExit
  <2>4. QED
    BY <1>23, <2>2, <2>3, CtlStays, SrcStays, LoopStays, RcStays, HistStays DEF BlankWrite, PcLabels
<1>24. QED
  BY <1>1, <1>2, <1>3, <1>4, <1>5, <1>6, <1>7, <1>8, <1>9, <1>10, <1>11, <1>12, <1>13, <1>14, <1>15, <1>16, <1>17, <1>18, <1>19, <1>20, <1>21, <1>22, <1>23 DEF AdapterStep

LEMMA LeaveType ==
    ASSUME PassType, NEW e \in SessionExit, Leave(e)
    PROVE  PassType' /\ pc' \in PcLabels
BY DEF Leave, PassType, Goto, PcLabels

LEMMA RetryLaterType ==
    ASSUME retries \in Nat, RetryLater
    PROVE  retries' \in Nat /\ pc' \in PcLabels
BY DEF RetryLater, Goto, PcLabels

LEMMA DropCandidateType ==
    ASSUME DevType, cand \in [up : BOOLEAN, fits : BOOLEAN, caps : CapsSet], DropCandidate
    PROVE  DevType' /\ cand' \in [up : BOOLEAN, fits : BOOLEAN, caps : CapsSet]
<1>1. phys' \in BOOLEAN
  BY Zenon DEF DropCandidate, DevType
<1>2. QED
  BY <1>1 DEF DropCandidate, DevType

LEMMA ReconnectTypes == Types /\ ReconnectStep => Types'
<1> SUFFICES ASSUME Types, ReconnectStep PROVE Types'
  OBVIOUS
<1> USE DEF Types
<1>a. /\ "Disconnected" \in SessionExit /\ "Stopped" \in SessionExit
      /\ "IncompatibleDevice" \in SessionExit
  BY DEF SessionExit
<1>b. 0 \in 0..MaxWord
  BY ControlAssumption
<1>1. CASE ReconnectBegin
  <2>1. PassType' /\ pc' \in PcLabels /\ retries' \in Nat
    BY <1>1, <1>a, LeaveType, PassStays DEF ReconnectBegin, RcType, Goto, PcLabels
  <2>2. QED
    BY <1>1, <2>1, CtlStays, DevStays, SrcStays, LoopStays, HistStays DEF ReconnectBegin, RcType
<1>2. CASE ReconnectCheck
  <2>1. PassType' /\ pc' \in PcLabels
    BY <1>2, <1>a, LeaveType, PassStays DEF ReconnectCheck, Goto, PcLabels
  <2>2. QED
    BY <1>2, <2>1, CtlStays, DevStays, SrcStays, LoopStays, HistStays, RcStays DEF ReconnectCheck
<1>3. CASE ReconnectBackoff
  <2>1. PassType' /\ pc' \in PcLabels
    BY <1>3, <1>a, LeaveType, PassStays DEF ReconnectBackoff, Goto, PcLabels
  <2>2. QED
    BY <1>3, <2>1, CtlStays, DevStays, SrcStays, LoopStays, HistStays, RcStays DEF ReconnectBackoff
<1>4. CASE ReconnectOpenFails
  <2>1. PassType' /\ pc' \in PcLabels /\ retries' \in Nat
    BY <1>4, <1>a, LeaveType, RetryLaterType, PassStays DEF ReconnectOpenFails, RcType
  <2>2. QED
    BY <1>4, <2>1, CtlStays, DevStays, SrcStays, LoopStays, HistStays DEF ReconnectOpenFails, RcType
<1>5. CASE ReconnectOpen
  <2>1. phys' \in BOOLEAN /\ cand' \in [up : BOOLEAN, fits : BOOLEAN, caps : CapsSet]
    <3>1. PICK up \in BOOLEAN, fits \in BOOLEAN, c \in CapsSet :
             cand' = [up |-> up, fits |-> fits, caps |-> c] /\ phys' \in IF up THEN BOOLEAN ELSE {phys}
      BY <1>5 DEF ReconnectOpen
    <3>2. phys' \in BOOLEAN
      BY <3>1, Zenon DEF DevType
    <3>3. QED
      BY <3>1, <3>2
  <2>2. QED
    BY <1>5, <2>1, CtlStays, SrcStays, LoopStays, PassStays, HistStays
       DEF ReconnectOpen, DevType, RcType, Goto, PcLabels
<1>6. CASE ReconnectValidate
  <2>1. /\ DevType' /\ cand' \in [up : BOOLEAN, fits : BOOLEAN, caps : CapsSet]
        /\ PassType' /\ pc' \in PcLabels
    <3>1. CASE Valid
      BY <1>6, <3>1, DevStays, PassStays DEF ReconnectValidate, RcType, Goto, PcLabels
    <3>2. CASE ~Valid
      BY <1>6, <3>2, <1>a, DropCandidateType, LeaveType DEF ReconnectValidate, RcType
    <3>3. QED
      BY <3>1, <3>2
  <2>2. QED
    BY <1>6, <2>1, CtlStays, SrcStays, LoopStays, HistStays DEF ReconnectValidate, RcType
<1>7. CASE ReconnectRevalidate
  <2>1. /\ DevType' /\ cand' \in [up : BOOLEAN, fits : BOOLEAN, caps : CapsSet]
        /\ PassType' /\ pc' \in PcLabels
    <3>1. CASE Valid
      BY <1>7, <3>1, DevStays, PassStays DEF ReconnectRevalidate, RcType, Goto, PcLabels
    <3>2. CASE ~Valid
      BY <1>7, <3>2, <1>a, DropCandidateType, LeaveType DEF ReconnectRevalidate, RcType
    <3>3. QED
      BY <3>1, <3>2
  <2>2. QED
    BY <1>7, <2>1, CtlStays, SrcStays, LoopStays, HistStays DEF ReconnectRevalidate, RcType
<1>8. CASE ReconnectConnect
  <2>1. phys' \in BOOLEAN
    BY <1>8, Zenon DEF ReconnectConnect, DevType
  <2>2. cand' \in [up : BOOLEAN, fits : BOOLEAN, caps : CapsSet]
    BY <1>8 DEF ReconnectConnect
  <2>3. QED
    BY <1>8, <2>1, <2>2, CtlStays, SrcStays, LoopStays, PassStays, HistStays
       DEF ReconnectConnect, DevType, RcType, Goto, PcLabels
<1>9. CASE ReconnectConnectFails
  <2>1. PassType' /\ pc' \in PcLabels /\ retries' \in Nat
    BY <1>9, <1>a, LeaveType, RetryLaterType, PassStays DEF ReconnectConnectFails, RcType
  <2>2. QED
    BY <1>9, <2>1, CtlStays, SrcStays, LoopStays, HistStays DEF ReconnectConnectFails, RcType, DevType
<1>10. CASE ReconnectClose
  <2>1. DevType'
    BY <1>10 DEF ReconnectClose, DevType
  <2>2. QED
    BY <1>10, <2>1, CtlStays, SrcStays, LoopStays, PassStays, RcStays, HistStays DEF ReconnectClose, Goto, PcLabels
<1>11. CASE ReconnectCloseFails
  <2>1. phys' \in BOOLEAN
    BY <1>11, Zenon DEF ReconnectCloseFails, DevType
  <2>2. cand' \in [up : BOOLEAN, fits : BOOLEAN, caps : CapsSet]
    BY <1>11 DEF ReconnectCloseFails, RcType
  <2>3. QED
    BY <1>11, <2>1, <2>2, RetryLaterType, CtlStays, SrcStays, LoopStays, PassStays, HistStays
       DEF ReconnectCloseFails, DevType, RcType
<1>12. CASE ReconnectRejected
  BY <1>12, <1>a, DropCandidateType, LeaveType, CtlStays, SrcStays, LoopStays, HistStays
     DEF ReconnectRejected, RcType
<1>13. CASE ReconnectAccept
  <2>1. cand.caps \in CapsSet /\ cand.caps.min \in Nat /\ cand.caps.max \in Nat
    BY StateAssumption DEF RcType
  <2>2. ControlTypeOK'
    BY <1>13, <2>1 DEF ReconnectAccept, UpdatePpsBounds, ControlTypeOK
  <2>3. DevType'
    BY <1>13, <2>1 DEF ReconnectAccept, DevType
  <2>4. SrcType'
    BY <1>13, StateAssumption DEF ReconnectAccept, SrcType
  <2>5. LoopType'
    BY <1>13, <1>b, 0 \in 0..3
       DEF ReconnectAccept, LoopType, MaxTransientRetries, InitialState, ShutterState
  <2>6. HistType'
    BY <1>13, <1>b DEF ReconnectAccept, HistType, InitialState
  <2>7. QED
    BY <1>13, <2>2, <2>3, <2>4, <2>5, <2>6, PassStays DEF ReconnectAccept, RcType, Goto, PcLabels
<1>14. QED
  BY <1>1, <1>2, <1>3, <1>4, <1>5, <1>6, <1>7, <1>8, <1>9, <1>10, <1>11, <1>12, <1>13 DEF ReconnectStep

\* The calls of the handles leave the driver alone.
LEMMA HandleTypes ==
    ASSUME ControlTypeOK, NEW h \in Handles, HandleStep(h)
    PROVE  ControlTypeOK'
<1>1. ASSUME NEW b \in {0, 1}, NEW m \in ControlMsg, SetDesiredArmed(h, b, m)
      PROVE  ControlTypeOK'
  <2>1. WordAfter(b) \in Nat
    BY ControlAssumption, <1>1 DEF WordAfter, NextWord, ControlTypeOK
  <2>2. QED
    BY <1>1, <2>1, ControlAssumption DEF SetDesiredArmed, ControlTypeOK
<1>2. CASE Arm(h) \/ Disarm(h)
  BY <1>1, <1>2 DEF Arm, Disarm, ControlMsg
<1>3. CASE Stop(h)
  BY <1>3 DEF Stop, ControlTypeOK, ControlMsg
<1>4. CASE Notify(h)
  BY <1>4 DEF Notify, ControlTypeOK
<1>5. ASSUME NEW r \in Rates, SetPps(h, r) PROVE ControlTypeOK'
  BY <1>5, ControlAssumption DEF SetPps, ControlTypeOK
<1>6. QED
  BY <1>2, <1>3, <1>4, <1>5 DEF HandleStep

LEMMA NextTypes == Types /\ SliceReady /\ [Next]_vars => Types'
<1> SUFFICES ASSUME Types, SliceReady, [Next]_vars PROVE Types'
  OBVIOUS
<1>1. CASE Controls
  BY <1>1, HandleTypes, DevStays, SrcStays, LoopStays, PassStays, RcStays, HistStays
     DEF Types, Controls, restVars
<1>2. CASE DriverStep
  BY <1>2, LoopTypes, AdapterTypes, ReconnectTypes DEF DriverStep
<1>3. CASE DeviceLost
  BY <1>3, DisconnectType, CtlStays, SrcStays, LoopStays, PassStays, RcStays, HistStays
     DEF Types, DeviceLost
<1>4. CASE DeviceDrains
  <2>1. DevType'
    BY <1>4, HeadTailProperties DEF DeviceDrains, DevType, Types
  <2>2. QED
    BY <1>4, <2>1, CtlStays, SrcStays, LoopStays, PassStays, RcStays, HistStays DEF Types, DeviceDrains
<1>5. CASE UNCHANGED vars
  BY <1>5, CtlStays, DevStays, SrcStays, LoopStays, PassStays, RcStays, HistStays DEF Types, vars
<1>6. QED
  BY <1>1, <1>2, <1>3, <1>4, <1>5 DEF Next, Finished

\* The adapter's flag and the source's cache stay in step. Most steps touch neither.
LEMMA ReadyStays ==
    ASSUME SliceReady, UNCHANGED <<cache, retain, setup>>,
           cache # NoSlice \/ pc' \notin {"write", "spin", "spin_none", "spin_compare"},
           pc' = "produce" => pc = "produce" \/ Model = "UdpTimed"
    PROVE  SliceReady'
BY DEF SliceReady, Model

LEMMA ReadyDiscarded ==
    ASSUME cache' = NoSlice, retain' = FALSE, pc' \notin {"write", "spin", "spin_none", "spin_compare", "produce"}
    PROVE  SliceReady'
BY DEF SliceReady

LEMMA LoopReady == SliceReady /\ LoopStep => SliceReady'
<1> SUFFICES ASSUME SliceReady, LoopStep PROVE SliceReady'
  OBVIOUS
<1> USE DEF Goto, srcVars, loopVars, rcVars
<1>1. CASE LoopTop \/ LoopDrain \/ Load \/ Recheck
  BY <1>1, ReadyStays DEF LoopTop, LoopDrain, Load, Recheck
<1>2. CASE Fall \/ Prepare \/ PrepareFails
  BY <1>2, ReadyDiscarded DEF Fall, Prepare, PrepareFails, DiscardOutput
<1>3. CASE Gate \/ GateClose \/ Opening \/ OpenCheck
  BY <1>3, ReadyStays DEF Gate, GateClose, Opening, OpenCheck
<1>4. CASE ArmRead \/ EndCheck \/ EndWithError
  BY <1>4, ReadyStays DEF ArmRead, EndCheck, EndWithError
<1>5. CASE Stopping \/ EndSession
  BY <1>5, ReadyStays DEF Stopping, EndSession
<1>6. QED
  BY <1>1, <1>2, <1>3, <1>4, <1>5 DEF LoopStep

LEMMA AdapterReady == Types /\ SliceReady /\ AdapterStep => SliceReady'
<1> SUFFICES ASSUME Types, SliceReady, AdapterStep PROVE SliceReady'
  OBVIOUS
<1> USE DEF Goto, srcVars, loopVars, rcVars
<1>a. \A armed \in BOOLEAN : ProduceSlice(armed) => cache' # NoSlice
  BY SliceComposed DEF Types, LoopType, RcType
<1>b. is_armed \in BOOLEAN
  BY DEF Types, PassType
<1>1. CASE NetworkFifoProduce
  BY <1>1, <1>a, <1>b DEF NetworkFifoProduce, SliceReady, Model
<1>2. CASE RetainOrProduce /\ UNCHANGED rcVars /\ Model # "NetworkFifo"
  BY <1>2, <1>a, <1>b DEF RetainOrProduce, SliceReady, Model
<1>3. CASE WriteAccepted
  BY <1>3, ReadyDiscarded DEF WriteAccepted
<1>4. CASE WriteTransient
  BY <1>4 DEF WriteTransient, SliceReady, Model
<1>5. CASE WaitEnds \/ WaitStopped \/ WaitClose \/ WaitDrain
  BY <1>5, ReadyStays DEF WaitEnds, WaitStopped, WaitClose, WaitDrain, AfterWait, ControlAction
<1>6. CASE NetworkFifoPace \/ UdpTimedPace \/ FrameSwapNotReady \/ BlockingIdle
  BY <1>6, ReadyStays DEF NetworkFifoPace, UdpTimedPace, FrameSwapNotReady, BlockingIdle
<1>7. CASE SpinDrain \/ SpinClose \/ SpinCompare \/ SpinStalled
  <2>1. cache # NoSlice \/ pc \in {"spin_stop", "spin_changed"}
    BY <1>7 DEF SpinDrain, SpinClose, SpinCompare, SpinStalled, SliceReady
  <2>2. UNCHANGED <<cache, retain, setup>> /\ pc' # "produce"
    BY <1>7 DEF SpinDrain, SpinClose, SpinCompare, SpinStalled, ControlAction
  <2>3. pc \in {"spin_stop", "spin_changed"} => pc' \in {"stopping", "endcheck"}
    BY <1>7 DEF SpinDrain, SpinClose, SpinCompare, SpinStalled
  <2>4. QED
    BY <2>1, <2>2, <2>3, ReadyStays
<1>8. CASE WriteWouldBlock \/ BlockingRetry \/ WriteDisconnected \/ WriteStopped
  <2>1. CASE WriteWouldBlock
    BY <2>1, ReadyStays DEF WriteWouldBlock, SliceReady
  <2>2. QED
    BY <1>8, <2>1, ReadyStays DEF BlockingRetry, WriteDisconnected, WriteStopped
<1>9. CASE DrainEnds \/ DrainPoll \/ DrainControls
  BY <1>9, ReadyStays DEF DrainEnds, DrainPoll, DrainControls
<1>10. CASE ResetBeforeBlank \/ BlankClose \/ BlankWrite
  BY <1>10, ReadyStays DEF ResetBeforeBlank, BlankClose, BlankWrite
<1>11. CASE UdpTimedProduce \/ FrameSwapProduce \/ BlockingProduce
  BY <1>2, <1>11 DEF UdpTimedProduce, FrameSwapProduce, BlockingProduce, SliceReady
<1>12. QED
  BY <1>1, <1>3, <1>4, <1>5, <1>6, <1>7, <1>8, <1>9, <1>10, <1>11 DEF AdapterStep

LEMMA ReconnectReady == SliceReady /\ ReconnectStep => SliceReady'
<1> SUFFICES ASSUME SliceReady, ReconnectStep PROVE SliceReady'
  OBVIOUS
<1> USE DEF Goto, Leave, RetryLater, srcVars, loopVars, rcVars
<1>1. CASE ReconnectBegin \/ ReconnectCheck \/ ReconnectBackoff
  BY <1>1, ReadyStays DEF ReconnectBegin, ReconnectCheck, ReconnectBackoff
<1>2. CASE ReconnectOpenFails \/ ReconnectOpen \/ ReconnectValidate
  BY <1>2, ReadyStays DEF ReconnectOpenFails, ReconnectOpen, ReconnectValidate
<1>3. CASE ReconnectConnect \/ ReconnectConnectFails \/ ReconnectClose
  BY <1>3, ReadyStays DEF ReconnectConnect, ReconnectConnectFails, ReconnectClose
<1>4. CASE ReconnectCloseFails \/ ReconnectRevalidate \/ ReconnectRejected
  BY <1>4, ReadyStays DEF ReconnectCloseFails, ReconnectRevalidate, ReconnectRejected
<1>5. CASE ReconnectAccept
  BY <1>5, ReadyDiscarded DEF ReconnectAccept
<1>6. QED
  BY <1>1, <1>2, <1>3, <1>4, <1>5 DEF ReconnectStep

LEMMA NextReady == Types /\ SliceReady /\ [Next]_vars => SliceReady'
<1> SUFFICES ASSUME Types, SliceReady, [Next]_vars PROVE SliceReady'
  OBVIOUS
<1>1. CASE Controls \/ DeviceLost \/ DeviceDrains \/ UNCHANGED vars
  BY <1>1, ReadyStays DEF Controls, DeviceLost, DeviceDrains, restVars, vars, srcVars, loopVars, rcVars, SliceReady
<1>2. QED
  BY <1>1, LoopReady, AdapterReady, ReconnectReady DEF Next, DriverStep, Finished

LEMMA InitTypes == Init => Types /\ SliceReady
<1> SUFFICES ASSUME Init PROVE Types /\ SliceReady
  OBVIOUS
<1>1. PICK s \in Setups, c \in CapsSet, p \in Rates :
        /\ setup = s
        /\ ControlInit(p, c.min, c.max)
        /\ connected = TRUE /\ phys = FALSE /\ ring = <<>> /\ caps = c /\ faults = 0
        /\ cache = NoSlice /\ blank = 0 /\ src_end = "no"
        /\ shutter = "Closed" /\ handled = InitialState /\ retain = FALSE /\ tries = 0
        /\ pc = "top" /\ observed = InitialState /\ is_armed = FALSE /\ pps = p /\ exit = "none"
        /\ retries = 0 /\ cand = [up |-> FALSE, fits |-> FALSE, caps |-> c] /\ conn = 0
        /\ wrote = NoSlice /\ blanked = FALSE /\ prepared = InitialState
  BY DEF Init
<1>2. c.min \in Nat /\ c.max \in Nat /\ p \in Nat /\ 0 \in 0..MaxWord
      /\ 0 \in 0..MaxFaults /\ 0 \in 0..BlankSlices /\ 0 \in 0..3
  BY StateAssumption, ControlAssumption
<1>3. ControlTypeOK
  <2>1. control_tx \in Seq(ControlMsg)
    BY <1>1, EmptySeq, Zenon DEF ControlInit
  <2>2. QED
    BY <1>1, <1>2, <2>1 DEF ControlInit, ControlTypeOK, InitialState
<1>4. DevType
  BY <1>1, <1>2, EmptySeq, Zenon DEF DevType
<1>5. SrcType /\ LoopType /\ HistType
  BY <1>1, <1>2, Zenon DEF SrcType, LoopType, HistType, InitialState, MaxTransientRetries, ShutterState
<1>6. PassType /\ RcType
  BY <1>1, <1>2 DEF PassType, RcType, InitialState
<1>7. QED
  BY <1>1, <1>3, <1>4, <1>5, <1>6 DEF Types, PcLabels, SliceReady

\* Type correctness of a session, and with it that whenever an adapter is to
\* write, or remembers that it owes a write, the source holds a slice.
THEOREM SessionTypes == Spec => [](TypeOK /\ RetainedIsCached)
<1>1. Types /\ SliceReady /\ [Next]_vars => (Types /\ SliceReady)'
  BY NextTypes, NextReady
<1>2. Types /\ SliceReady => TypeOK /\ RetainedIsCached
  BY TypeParts DEF SliceReady, RetainedIsCached
<1>3. QED
  BY <1>1, <1>2, InitTypes, PTL DEF Spec

-------------------------------------------------------------------------------
(* The shutter. *)

RcLabels ==
    {"rc_begin", "rc_check", "rc_backoff", "rc_open", "rc_validate", "rc_connect",
     "rc_close", "rc_revalidate", "rc_bounds"}
DarkLabels == {"rc_revalidate", "rc_bounds"}
ExitLabels == {"blank_write", "end"}

\* The belief of the driver can be trusted because a backend is only taken over
\* dark, and because while it is replaced there is no connection to believe in.
ShutterInv ==
    /\ ShutterTruth
    /\ pc \in RcLabels => ~connected
    /\ pc \in DarkLabels => ~phys
    /\ pc \in ExitLabels /\ connected => shutter # "Open"

LEMMA ShutStays ==
    ASSUME ShutterInv, UNCHANGED <<connected, phys, shutter>>,
           pc' \in RcLabels => pc \in RcLabels \/ ~connected,
           pc' \in DarkLabels => pc \in DarkLabels,
           pc' \in ExitLabels => pc \in ExitLabels \/ ~connected
    PROVE  ShutterInv'
BY DEF ShutterInv, ShutterTruth

LEMMA ShutUnlinked ==
    ASSUME ~connected', pc' \notin DarkLabels
    PROVE  ShutterInv'
BY DEF ShutterInv, ShutterTruth

LEMMA ShutClosed ==
    ASSUME Types, CloseShutter, pc' \notin RcLabels
    PROVE  ShutterInv'
<1>1. PICK ok \in BOOLEAN : SetShutter(FALSE, ok) /\ shutter' = IF ok THEN "Closed" ELSE "Unknown"
  BY DEF CloseShutter
<1>2. shutter' # "Open"
  BY <1>1
<1>3. connected' /\ shutter' = "Closed" => ~phys'
  BY <1>1 DEF SetShutter, Types, DevType
<1>4. QED
  BY <1>2, <1>3 DEF ShutterInv, ShutterTruth, RcLabels, DarkLabels

LEMMA ShutCommanded ==
    ASSUME Types, ShutterInv, pc' \notin RcLabels, pc' \notin ExitLabels, NEW force \in BOOLEAN,
           CommandClose(force) \/ CloseIfDisarmed \/ UNCHANGED <<shutter, devVars>>
    PROVE  ShutterInv'
<1>1. CloseShutter \/ UNCHANGED <<shutter, devVars>>
  BY DEF CommandClose, CloseIfDisarmed
<1>2. CASE UNCHANGED <<shutter, devVars>>
  BY <1>2, ShutStays DEF devVars, RcLabels, DarkLabels
<1>3. QED
  BY <1>1, <1>2, ShutClosed

LEMMA LoopShut == Types /\ ShutterInv /\ LoopStep => ShutterInv'
<1> SUFFICES ASSUME Types, ShutterInv, LoopStep PROVE ShutterInv'
  OBVIOUS
<1> USE DEF Goto, devVars, loopVars, RcLabels, DarkLabels, ExitLabels
<1>1. CASE LoopTop
  BY <1>1, ShutStays DEF LoopTop
<1>2. CASE LoopDrain \/ Load \/ Recheck
  BY <1>2, ShutStays DEF LoopDrain, Load, Recheck
<1>3. CASE Fall
  BY <1>3, ShutCommanded DEF Fall
<1>4. CASE Prepare
  BY <1>4, ShutStays DEF Prepare
<1>5. CASE PrepareFails
  BY <1>5, ShutUnlinked DEF PrepareFails, Disconnect
<1>6. CASE Gate \/ ArmRead \/ EndCheck
  BY <1>6, ShutStays DEF Gate, ArmRead, EndCheck
<1>7. CASE GateClose
  BY <1>7, ShutCommanded DEF GateClose
<1>8. CASE OpenCheck
  BY <1>8, ShutCommanded DEF OpenCheck
<1>9. CASE EndWithError \/ Stopping
  BY <1>9, ShutClosed DEF EndWithError, Stopping, CommandClose
<1>10. CASE EndSession
  BY <1>10, ShutStays, ShutUnlinked DEF EndSession, Disconnect
<1>11. CASE Opening
  <2>1. CASE UNCHANGED <<shutter, devVars>>
    BY <1>11, <2>1, ShutStays DEF Opening
  <2>2. CASE shutter' \in {"Open", "Unknown"}
    BY <1>11, <2>2 DEF Opening, ShutterInv, ShutterTruth
  <2>3. QED
    BY <1>11, <2>1, <2>2 DEF Opening
<1>12. QED
  BY <1>1, <1>2, <1>3, <1>4, <1>5, <1>6, <1>7, <1>8, <1>9, <1>10, <1>11 DEF LoopStep

LEMMA AdapterShut == Types /\ ShutterInv /\ AdapterStep => ShutterInv'
<1> SUFFICES ASSUME Types, ShutterInv, AdapterStep PROVE ShutterInv'
  OBVIOUS
<1> USE DEF Goto, devVars, loopVars, RcLabels, DarkLabels, ExitLabels
<1>1. CASE WaitEnds \/ WaitStopped \/ WaitDrain
  BY <1>1, ShutStays DEF WaitEnds, WaitStopped, WaitDrain, AfterWait, ControlAction
<1>2. CASE WaitClose \/ SpinClose \/ DrainPoll
  BY <1>2, ShutCommanded DEF WaitClose, SpinClose, DrainPoll
<1>3. CASE NetworkFifoPace \/ UdpTimedPace \/ FrameSwapNotReady \/ BlockingIdle
  BY <1>3, ShutStays DEF NetworkFifoPace, UdpTimedPace, FrameSwapNotReady, BlockingIdle
<1>4. CASE NetworkFifoProduce
  BY <1>4, ShutStays DEF NetworkFifoProduce
<1>5. CASE UdpTimedProduce \/ FrameSwapProduce \/ BlockingProduce
  BY <1>5, ShutStays DEF UdpTimedProduce, FrameSwapProduce, BlockingProduce, RetainOrProduce
<1>6. CASE SpinDrain \/ SpinCompare
  BY <1>6, ShutStays DEF SpinDrain, SpinCompare, ControlAction
<1>7. CASE SpinStalled
  BY <1>7, ShutUnlinked DEF SpinStalled, Disconnect
<1>8. CASE WriteAccepted \/ WriteStopped
  BY <1>8, ShutStays DEF WriteAccepted, WriteStopped
<1>9. CASE WriteWouldBlock
  BY <1>9, ShutStays DEF WriteWouldBlock
<1>10. CASE BlockingRetry
  BY <1>10, ShutCommanded DEF BlockingRetry
<1>11. CASE WriteDisconnected
  BY <1>11, ShutUnlinked, ShutStays DEF WriteDisconnected, Disconnect
<1>12. CASE WriteTransient
  BY <1>12, ShutUnlinked, ShutStays DEF WriteTransient, Disconnect
<1>13. CASE DrainEnds \/ DrainControls \/ ResetBeforeBlank
  BY <1>13, ShutStays DEF DrainEnds, DrainControls, ResetBeforeBlank
<1>14. CASE BlankClose
  BY <1>14, ShutClosed DEF BlankClose
<1>15. CASE BlankWrite
  BY <1>15, ShutStays DEF BlankWrite
<1>16. QED
  BY <1>1, <1>2, <1>3, <1>4, <1>5, <1>6, <1>7, <1>8, <1>9, <1>10, <1>11, <1>12, <1>13, <1>14, <1>15 DEF AdapterStep

LEMMA ReconnectShut == Types /\ ShutterInv /\ ReconnectStep => ShutterInv'
<1> SUFFICES ASSUME Types, ShutterInv, ReconnectStep PROVE ShutterInv'
  OBVIOUS
<1> USE DEF Goto, Leave, RetryLater, devVars, loopVars, RcLabels, DarkLabels, ExitLabels
<1>a. pc \in RcLabels /\ ~connected
  BY DEF ReconnectStep, ReconnectBegin, ReconnectCheck, ReconnectBackoff, ReconnectOpenFails,
     ReconnectOpen, ReconnectValidate, ReconnectConnect, ReconnectConnectFails, ReconnectClose,
     ReconnectCloseFails, ReconnectRevalidate, ReconnectRejected, ReconnectAccept, ShutterInv
<1>1. CASE ReconnectBegin \/ ReconnectCheck \/ ReconnectBackoff
  <2>1. CASE ReconnectBegin
    BY <2>1, <1>a, ShutUnlinked DEF ReconnectBegin
  <2>2. CASE ReconnectCheck
    BY <2>2, <1>a, ShutUnlinked DEF ReconnectCheck
  <2>3. CASE ReconnectBackoff
    BY <2>3, <1>a, ShutUnlinked DEF ReconnectBackoff
  <2>4. QED
    BY <1>1, <2>1, <2>2, <2>3, Zenon
<1>2. CASE ReconnectOpenFails \/ ReconnectOpen \/ ReconnectValidate
  BY <1>2, <1>a, ShutUnlinked DEF ReconnectOpenFails, ReconnectOpen, ReconnectValidate, DropCandidate
<1>3. CASE ReconnectConnect \/ ReconnectCloseFails
  <2>1. connected' = connected /\ pc' \in {"rc_close", "rc_check"}
    BY <1>3, Zenon DEF ReconnectConnect, ReconnectCloseFails
  <2>2. QED
    BY <1>a, <2>1, ShutUnlinked
<1>4. CASE ReconnectConnectFails
  BY <1>4, <1>a, ShutUnlinked DEF ReconnectConnectFails
<1>5. CASE ReconnectClose
  BY <1>5, <1>a DEF ReconnectClose, ShutterInv, ShutterTruth
<1>6. CASE ReconnectRevalidate
  BY <1>6, <1>a, ShutStays, ShutUnlinked DEF ReconnectRevalidate, DropCandidate
<1>7. CASE ReconnectRejected
  BY <1>7, <1>a, ShutUnlinked DEF ReconnectRejected, DropCandidate
<1>8. CASE ReconnectAccept
  BY <1>8, <1>a DEF ReconnectAccept, ShutterInv, ShutterTruth
<1>9. QED
  BY <1>1, <1>2, <1>3, <1>4, <1>5, <1>6, <1>7, <1>8 DEF ReconnectStep

\* The driver believes the shutter closed only while the device is dark, and it
\* leaves a connected device with the shutter commanded closed: for any number
\* of failures, at any point, of commands, links and candidates.
THEOREM ShutterSafety == Spec => [](ShutterTruth /\ ExitClosed)
<1>1. Init => ShutterInv
  BY DEF Init, ShutterInv, ShutterTruth, RcLabels, DarkLabels, ExitLabels
<1>2. Types /\ ShutterInv /\ [Next]_vars => ShutterInv'
  <2> SUFFICES ASSUME Types, ShutterInv, [Next]_vars PROVE ShutterInv'
    OBVIOUS
  <2>1. CASE Controls \/ DeviceDrains \/ UNCHANGED vars
    BY <2>1, ShutStays DEF Controls, DeviceDrains, restVars, vars, devVars, loopVars
  <2>2. CASE DeviceLost
    BY <2>2, ShutUnlinked DEF DeviceLost, Disconnect, ShutterInv, DarkLabels, RcLabels
  <2>3. QED
    BY <2>1, <2>2, LoopShut, AdapterShut, ReconnectShut DEF Next, DriverStep, Finished
<1>3. Types /\ SliceReady /\ [Next]_vars => (Types /\ SliceReady)'
  BY NextTypes, NextReady
<1>4. Types /\ ShutterInv => ShutterTruth /\ ExitClosed
  BY DEF Types, LoopType, ShutterState, ShutterInv, ExitLabels, ExitClosed, ShutterTruth
<1>5. QED
  BY <1>1, <1>2, <1>3, <1>4, InitTypes, PTL DEF Spec

===============================================================================
