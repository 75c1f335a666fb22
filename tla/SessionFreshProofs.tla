-------------------------- MODULE SessionFreshProofs --------------------------
(***************************************************************************)
(* What a session promises across arms, disarms, rate changes and          *)
(* reconnects, for every set of handles, every bound, every adapter and    *)
(* any number of failures: rates the device takes, no notification lost,   *)
(* and a fresh start of the output for every generation.                   *)
(***************************************************************************)
EXTENDS SessionDriverProofs

-------------------------------------------------------------------------------
(* Rates *)

\* From the head of the loop to the write, the places at which pps is in use.
RateLabels ==
    {"drain", "load", "recheck", "prepare", "gate", "opening", "opencheck", "armread", "step",
     "wait", "waitdrain", "produce", "write", "spin", "spin_none", "spin_compare"}

\* The shared bounds are those of the backend in use, the shared rate lies in them,
\* and so does the copy a pass goes by, which no pass carries over to another backend.
RateInv ==
    /\ rate.min = caps.min /\ rate.max = caps.max
    /\ InBounds(rate.pps, rate.min, rate.max)
    /\ pc \in RateLabels => InBounds(pps, caps.min, caps.max)

LEMMA RateStays ==
    ASSUME RateInv, UNCHANGED <<rate, caps, pps>>, pc' \in RateLabels => pc \in RateLabels
    PROVE  RateInv'
BY DEF RateInv

\* The rate is read again: at the head of a pass, and by UdpTimed after its wait.
LEMMA RateRead ==
    ASSUME RateInv, UNCHANGED <<rate, caps>>, pps' = rate.pps
    PROVE  RateInv'
BY DEF RateInv, InBounds

LEMMA CloseKeepsCaps ==
    ASSUME NEW force \in BOOLEAN,
           CloseShutter \/ CommandClose(force) \/ CloseIfDisarmed \/ UNCHANGED <<shutter, devVars>>
    PROVE  UNCHANGED <<ring, caps>>
BY DEF CloseShutter, CommandClose, CloseIfDisarmed, SetShutter, devVars

LEMMA LoopRate == RateInv /\ LoopStep => RateInv'
<1> SUFFICES ASSUME RateInv, LoopStep PROVE RateInv'
  OBVIOUS
<1> USE DEF Goto, ctlVars, devVars, passVars, RateLabels
<1>1. CASE LoopTop
  <2>1. CASE stop_requested
    BY <1>1, <2>1, RateStays DEF LoopTop
  <2>2. CASE ~stop_requested
    BY <1>1, <2>2, RateRead DEF LoopTop
  <2>3. QED
    BY <2>1, <2>2
<1>2. CASE LoopDrain \/ Load \/ Recheck
  BY <1>2, RateStays DEF LoopDrain, Load, Recheck, ProcessControlMessages
<1>3. CASE Fall \/ GateClose \/ OpenCheck
  <2>1. UNCHANGED caps
    BY <1>3, CloseKeepsCaps DEF Fall, GateClose, OpenCheck
  <2>2. QED
    BY <1>3, <2>1, RateStays DEF Fall, GateClose, OpenCheck
<1>4. CASE Prepare \/ PrepareFails
  BY <1>4, RateStays DEF Prepare, PrepareFails, Disconnect
<1>5. CASE Gate \/ ArmRead \/ EndCheck
  BY <1>5, RateStays DEF Gate, ArmRead, EndCheck
<1>6. CASE EndWithError \/ Stopping
  <2>1. UNCHANGED caps
    BY <1>6, CloseKeepsCaps DEF EndWithError, Stopping
  <2>2. QED
    BY <1>6, <2>1, RateStays DEF EndWithError, Stopping
<1>7. CASE EndSession
  BY <1>7, RateStays DEF EndSession, Disconnect, DropReceiver
<1>8. CASE Opening
  BY <1>8, RateStays DEF Opening, SetShutter
<1>9. QED
  BY <1>1, <1>2, <1>3, <1>4, <1>5, <1>6, <1>7, <1>8 DEF LoopStep

LEMMA AdapterRate == RateInv /\ AdapterStep => RateInv'
<1> SUFFICES ASSUME RateInv, AdapterStep PROVE RateInv'
  OBVIOUS
<1> USE DEF Goto, ctlVars, devVars, passVars, RateLabels
<1>1. CASE WaitEnds \/ WaitStopped \/ WaitDrain
  BY <1>1, RateStays DEF WaitEnds, WaitStopped, WaitDrain, AfterWait, ProcessControlMessages
<1>2. CASE WaitClose \/ SpinClose \/ DrainPoll \/ BlockingRetry \/ BlankClose
  <2>1. UNCHANGED caps
    BY <1>2, CloseKeepsCaps DEF WaitClose, SpinClose, DrainPoll, BlockingRetry, BlankClose
  <2>2. QED
    BY <1>2, <2>1, RateStays DEF WaitClose, SpinClose, DrainPoll, BlockingRetry, BlankClose
<1>3. CASE NetworkFifoPace \/ UdpTimedPace \/ FrameSwapNotReady \/ BlockingIdle
  BY <1>3, RateStays DEF NetworkFifoPace, UdpTimedPace, FrameSwapNotReady, BlockingIdle
<1>4. CASE NetworkFifoProduce \/ FrameSwapProduce \/ BlockingProduce
  BY <1>4, RateStays DEF NetworkFifoProduce, FrameSwapProduce, BlockingProduce, RetainOrProduce
<1>5. CASE UdpTimedProduce
  BY <1>5, RateRead DEF UdpTimedProduce
<1>6. CASE SpinDrain \/ SpinCompare \/ SpinStalled
  BY <1>6, RateStays DEF SpinDrain, SpinCompare, SpinStalled, ProcessControlMessages, Disconnect
<1>7. CASE WriteAccepted \/ WriteWouldBlock \/ WriteStopped
  BY <1>7, RateStays DEF WriteAccepted, WriteWouldBlock, WriteStopped
<1>8. CASE WriteDisconnected \/ WriteTransient
  BY <1>8, RateStays DEF WriteDisconnected, WriteTransient, Disconnect
<1>9. CASE DrainEnds \/ DrainControls \/ ResetBeforeBlank \/ BlankWrite
  BY <1>9, RateStays DEF DrainEnds, DrainControls, ResetBeforeBlank, BlankWrite, ProcessControlMessages
<1>10. QED
  BY <1>1, <1>2, <1>3, <1>4, <1>5, <1>6, <1>7, <1>8, <1>9 DEF AdapterStep

\* A candidate becomes the backend only together with its bounds, and only if the
\* rate in force lies in them.
LEMMA ReconnectRate == RateInv /\ ReconnectStep => RateInv'
<1> SUFFICES ASSUME RateInv, ReconnectStep PROVE RateInv'
  OBVIOUS
<1> USE DEF Goto, Leave, RetryLater, DropCandidate, ctlVars, devVars, passVars, RateLabels
<1>1. CASE ReconnectBegin \/ ReconnectCheck \/ ReconnectBackoff
  BY <1>1, RateStays DEF ReconnectBegin, ReconnectCheck, ReconnectBackoff
<1>2. CASE ReconnectOpenFails \/ ReconnectOpen \/ ReconnectValidate
  BY <1>2, RateStays DEF ReconnectOpenFails, ReconnectOpen, ReconnectValidate
<1>3. CASE ReconnectConnect \/ ReconnectConnectFails \/ ReconnectClose
  BY <1>3, RateStays DEF ReconnectConnect, ReconnectConnectFails, ReconnectClose
<1>4. CASE ReconnectCloseFails \/ ReconnectRevalidate \/ ReconnectRejected
  BY <1>4, RateStays DEF ReconnectCloseFails, ReconnectRevalidate, ReconnectRejected
<1>5. CASE ReconnectAccept
  BY <1>5 DEF ReconnectAccept, UpdatePpsBounds, RateInv, InBounds
<1>6. QED
  BY <1>1, <1>2, <1>3, <1>4, <1>5 DEF ReconnectStep

LEMMA HandleRate ==
    ASSUME RateInv, NEW h \in Handles, HandleStep(h), UNCHANGED <<caps, pps, pc>>
    PROVE  RateInv'
<1>1. CASE Arm(h) \/ Disarm(h) \/ Stop(h) \/ Notify(h)
  BY <1>1, RateStays DEF Arm, Disarm, SetDesiredArmed, Stop, Notify
<1>2. ASSUME NEW p \in Rates, SetPps(h, p) PROVE RateInv'
  BY <1>2 DEF SetPps, RateInv, InBounds
<1>3. QED
  BY <1>1, <1>2 DEF HandleStep

LEMMA NextRate == RateInv /\ [Next]_vars => RateInv'
<1> SUFFICES ASSUME RateInv, [Next]_vars PROVE RateInv'
  OBVIOUS
<1>1. CASE Controls
  BY <1>1, HandleRate DEF Controls, restVars, devVars, passVars
<1>2. CASE DeviceLost \/ DeviceDrains \/ UNCHANGED vars
  BY <1>2, RateStays DEF DeviceLost, DeviceDrains, Disconnect, vars, ctlVars, devVars, passVars
<1>3. QED
  BY <1>1, <1>2, LoopRate, AdapterRate, ReconnectRate DEF Next, DriverStep, Finished

LEMMA InitRate == Init => RateInv
BY DEF Init, ControlInit, RateInv, RateLabels, InBounds

\* What the loop keeps at every step: its types; a rate inside the range of the device
\* that is written to, although set_pps, reconnects and the copy a pass goes by
\* interleave; and a device that is left dark unless a command failed.
THEOREM SessionSafety == Spec => []SessionSound
<1>1. Spec => []RateInv
  BY InitRate, NextRate, PTL DEF Spec
<1>2. RateInv => RateInCaps
  BY DEF RateInv, RateInCaps, RateLabels
<1>3. QED
  BY <1>1, <1>2, SessionTypes, ShutterSafety, PTL DEF SessionSound

-------------------------------------------------------------------------------
(* Notifications *)

\* From the end of the transition to the end of the adapter's step.
StepLabels ==
    {"gate", "opening", "opencheck", "armread", "step", "wait", "waitdrain", "produce",
     "write", "spin", "spin_none", "spin_compare", "blocking_retry"}

WakeDue == control_tx # <<>> \/ Pending # {}

\* A word that the transition has not seen is still announced: the channel is emptied
\* before the word is read, and a wait that takes a message ends.
WakeInv ==
    /\ pc # "done" => rx_alive
    /\ pc = "recheck" => handled = observed
    /\ pc \in {"recheck", "prepare"} /\ desired # observed => WakeDue
    /\ pc \in StepLabels /\ desired # handled => WakeDue

\* A step of the driver that takes no message and no word.
LEMMA WakeStays ==
    ASSUME WakeInv, UNCHANGED <<desired, control_tx, call, rx_alive, handled>>,
           pc # "done", pc' \in StepLabels => pc \in StepLabels, pc' \notin {"recheck", "prepare"}
    PROVE  WakeInv'
BY DEF WakeInv, WakeDue, Pending

\* A step of the driver, or of the session as it ends, after which it does not wait.
LEMMA WakeElsewhere ==
    ASSUME pc' # "done" => rx_alive', pc' \notin StepLabels, pc' \notin {"recheck", "prepare"}
    PROVE  WakeInv'
BY DEF WakeInv, StepLabels

\* What is taken from the channel was there.
LEMMA ChannelEmpty ==
    ASSUME ControlTypeOK, ProcessControlMessages, ControlAction = "None"
    PROVE  control_tx = <<>> /\ control_tx' = <<>>
BY DEF ProcessControlMessages, ControlAction

LEMMA LoopWake == WakeInv /\ LoopStep => WakeInv'
<1> SUFFICES ASSUME WakeInv, LoopStep PROVE WakeInv'
  OBVIOUS
<1> USE DEF Goto, ctlVars, loopVars, StepLabels
<1>1. CASE LoopTop \/ LoopDrain
  BY <1>1, WakeElsewhere DEF LoopTop, LoopDrain, ProcessControlMessages, WakeInv
<1>2. CASE Load
  BY <1>2 DEF Load, WakeInv
<1>3. CASE Fall
  BY <1>3 DEF Fall, WakeInv
<1>4. CASE Recheck
  BY <1>4 DEF Recheck, passVars, WakeInv, WakeDue, Pending
<1>5. CASE Prepare
  BY <1>5 DEF Prepare, passVars, WakeInv, WakeDue, Pending
<1>6. CASE PrepareFails \/ EndCheck
  BY <1>6, WakeElsewhere DEF PrepareFails, EndCheck, WakeInv
<1>7. CASE Gate \/ GateClose \/ Opening
  BY <1>7, WakeStays DEF Gate, GateClose, Opening
<1>8. CASE OpenCheck \/ ArmRead
  BY <1>8, WakeStays DEF OpenCheck, ArmRead
<1>9. CASE EndWithError \/ Stopping \/ EndSession
  BY <1>9, WakeElsewhere DEF EndWithError, Stopping, EndSession, WakeInv
<1>10. QED
  BY <1>1, <1>2, <1>3, <1>4, <1>5, <1>6, <1>7, <1>8, <1>9 DEF LoopStep

LEMMA AdapterWake == Types /\ WakeInv /\ AdapterStep => WakeInv'
<1> SUFFICES ASSUME Types, WakeInv, AdapterStep PROVE WakeInv'
  OBVIOUS
<1> USE DEF Goto, ctlVars, loopVars, StepLabels
<1>1. CASE WaitEnds \/ WaitStopped \/ WaitClose
  BY <1>1, WakeStays DEF WaitEnds, WaitStopped, WaitClose, AfterWait
<1>2. CASE WaitDrain \/ SpinDrain
  <2>1. CASE pc' \in StepLabels
    <3>1. ProcessControlMessages /\ ControlAction = "None"
      BY <1>2, <2>1 DEF WaitDrain, SpinDrain, ControlAction
    <3>2. UNCHANGED ctlVars
      BY <3>1, ChannelEmpty DEF ProcessControlMessages, Types
    <3>3. QED
      BY <1>2, <2>1, <3>2, WakeStays DEF WaitDrain, SpinDrain
  <2>2. CASE pc' \notin StepLabels
    BY <1>2, <2>2, WakeElsewhere DEF WaitDrain, SpinDrain, ProcessControlMessages, ControlAction, WakeInv
  <2>3. QED
    BY <2>1, <2>2
<1>3. CASE NetworkFifoPace \/ UdpTimedPace \/ FrameSwapNotReady \/ BlockingIdle
  BY <1>3, WakeStays DEF NetworkFifoPace, UdpTimedPace, FrameSwapNotReady, BlockingIdle
<1>4. CASE NetworkFifoProduce
  BY <1>4, WakeStays DEF NetworkFifoProduce
<1>5. CASE UdpTimedProduce \/ FrameSwapProduce \/ BlockingProduce
  BY <1>5, WakeStays DEF UdpTimedProduce, FrameSwapProduce, BlockingProduce, RetainOrProduce
<1>6. CASE SpinClose \/ SpinCompare \/ SpinStalled
  BY <1>6, WakeStays DEF SpinClose, SpinCompare, SpinStalled
<1>7. CASE WriteAccepted \/ WriteWouldBlock \/ WriteStopped
  BY <1>7, WakeStays DEF WriteAccepted, WriteWouldBlock, WriteStopped
<1>8. CASE WriteDisconnected \/ WriteTransient \/ BlockingRetry
  BY <1>8, WakeStays DEF WriteDisconnected, WriteTransient, BlockingRetry
<1>9. CASE DrainEnds \/ DrainPoll \/ DrainControls
  BY <1>9, WakeElsewhere DEF DrainEnds, DrainPoll, DrainControls, ProcessControlMessages, WakeInv
<1>10. CASE ResetBeforeBlank \/ BlankClose \/ BlankWrite
  BY <1>10, WakeElsewhere DEF ResetBeforeBlank, BlankClose, BlankWrite, WakeInv
<1>11. QED
  BY <1>1, <1>2, <1>3, <1>4, <1>5, <1>6, <1>7, <1>8, <1>9, <1>10 DEF AdapterStep

LEMMA ReconnectWake == WakeInv /\ ReconnectStep => WakeInv'
<1> SUFFICES ASSUME WakeInv, ReconnectStep PROVE WakeInv'
  OBVIOUS
<1> USE DEF Goto, Leave, RetryLater, ctlVars, StepLabels, WakeInv
<1>1. CASE ReconnectBegin \/ ReconnectCheck \/ ReconnectBackoff
  BY <1>1, WakeElsewhere DEF ReconnectBegin, ReconnectCheck, ReconnectBackoff
<1>2. CASE ReconnectOpenFails \/ ReconnectOpen \/ ReconnectValidate
  BY <1>2, WakeElsewhere DEF ReconnectOpenFails, ReconnectOpen, ReconnectValidate
<1>3. CASE ReconnectConnect \/ ReconnectConnectFails \/ ReconnectClose
  BY <1>3, WakeElsewhere DEF ReconnectConnect, ReconnectConnectFails, ReconnectClose
<1>4. CASE ReconnectCloseFails \/ ReconnectRevalidate \/ ReconnectRejected
  BY <1>4, WakeElsewhere DEF ReconnectCloseFails, ReconnectRevalidate, ReconnectRejected
<1>5. CASE ReconnectAccept
  BY <1>5, WakeElsewhere DEF ReconnectAccept, UpdatePpsBounds
<1>6. QED
  BY <1>1, <1>2, <1>3, <1>4, <1>5 DEF ReconnectStep

\* A call that has recorded a word is pending until its message is in the channel.
LEMMA HandleWake ==
    ASSUME Types, WakeInv, NEW h \in Handles, HandleStep(h), UNCHANGED <<pc, handled, observed>>
    PROVE  WakeInv'
<1>1. CASE Arm(h) \/ Disarm(h) \/ Stop(h)
  <2>1. call'[h] \in {"Arm", "Disarm", "Stop"} /\ UNCHANGED rx_alive
    BY <1>1 DEF Arm, Disarm, Stop, SetDesiredArmed, Types, ControlTypeOK
  <2>2. h \in Pending'
    BY <2>1 DEF Pending
  <2>3. QED
    BY <2>1, <2>2 DEF WakeInv, WakeDue
<1>2. CASE Notify(h)
  <2>1. CASE rx_alive
    <3>1. control_tx' = Append(control_tx, call[h])
      BY <1>2, <2>1 DEF Notify
    <3>2. control_tx' # <<>>
      BY <3>1 DEF Types, ControlTypeOK
    <3>3. QED
      BY <1>2, <3>2 DEF Notify, WakeInv, WakeDue
  <2>2. CASE ~rx_alive
    BY <1>2, <2>2 DEF Notify, WakeInv, StepLabels
  <2>3. QED
    BY <2>1, <2>2
<1>3. ASSUME NEW p \in Rates, SetPps(h, p) PROVE WakeInv'
  BY <1>3 DEF SetPps, WakeInv, WakeDue, Pending
<1>4. QED
  BY <1>1, <1>2, <1>3 DEF HandleStep

\* A driver that waits has work to wake up to: a desired state it has not handled comes
\* with a message in the channel or with a call that is about to send one, whatever
\* the handles record between any two of the driver's reads.
THEOREM WakeSafety == Spec => []NoLostWake
<1>1. Init => WakeInv
  BY DEF Init, ControlInit, WakeInv, StepLabels
<1>2. Types /\ WakeInv /\ [Next]_vars => WakeInv'
  <2> SUFFICES ASSUME Types, WakeInv, [Next]_vars PROVE WakeInv'
    OBVIOUS
  <2>1. CASE Controls
    BY <2>1, HandleWake DEF Controls, restVars, loopVars, passVars
  <2>2. CASE DeviceLost \/ DeviceDrains \/ UNCHANGED vars
    BY <2>2 DEF DeviceLost, DeviceDrains, vars, ctlVars, loopVars, passVars, WakeInv, WakeDue, Pending
  <2>3. QED
    BY <2>1, <2>2, LoopWake, AdapterWake, ReconnectWake DEF Next, DriverStep, Finished
<1>3. WakeInv => NoLostWake
  BY DEF WakeInv, NoLostWake, StepLabels, Waiting, WakeDue
<1>4. QED
  BY <1>1, <1>2, <1>3, SessionTypes, TypeParts, PTL DEF Spec

-------------------------------------------------------------------------------
(* Fresh starts *)

\* The backend is gone, or the session is over: only a replacement leads back.
GoneLabels == RcLabels \cup {"end", "done"}
\* Before the output of a pass is composed.
FirstLabels == {"drain", "load", "recheck", "prepare"}

RingClean == \A i \in 1..Len(ring) : ring[i].gen = handled /\ ring[i].conn = conn

\* Every slice of q belongs to the word g and to the connection c.
Clean(q, g, c) == \A i \in 1..Len(q) : q[i].gen = g /\ q[i].conn = c

\* A slice of that word and connection keeps it so.
LEMMA CleanAppended ==
    ASSUME NEW S, NEW q \in Seq(S), NEW s \in S, Clean(q, s.gen, s.conn)
    PROVE  Clean(Append(q, s), s.gen, s.conn)
<1> DEFINE r == Append(q, s)
<1>1. /\ Len(q) \in Nat /\ Len(r) = Len(q) + 1 /\ r[Len(q) + 1] = s
      /\ \A i \in 1..Len(q) : r[i] = q[i]
  OBVIOUS
<1> HIDE DEF r
<1>2. \A i \in 1..Len(r) : i \in 1..Len(q) \/ i = Len(q) + 1
  BY <1>1
<1>3. Clean(r, s.gen, s.conn)
  BY <1>1, <1>2, Zenon DEF Clean
<1>4. QED
  BY <1>3, Zenon DEF r

\* Words only grow, so that a word once left behind never comes back.
WordInv ==
    /\ handled <= desired /\ observed <= desired /\ prepared <= handled
    /\ pc \in {"recheck", "gate", "opening"} => handled = observed

\* An armed word that was handled without its preparation is not the desired one any
\* more, or its preparation is next.
OpenInv ==
    /\ OpenPrepared
    /\ pc = "recheck" => shutter # "Open" /\ cache = NoSlice
    /\ pc = "prepare" => shutter # "Open" /\ (cache = NoSlice \/ observed # handled)
    /\ pc = "opening" => IsArmed(handled) /\ prepared = handled
    /\ \/ ~IsArmed(handled) \/ prepared = handled \/ handled < desired
       \/ pc \in {"recheck", "prepare"} \cup GoneLabels

\* What waits in the cache or in the ring of a prepared device is of this generation;
\* what is cached is retained, but for NetworkFifo.
SliceInv ==
    /\ CacheCurrent
    /\ Model # "NetworkFifo" /\ cache # NoSlice => retain \/ pc \in GoneLabels
    /\ Model # "BlockingFifo" => ring = <<>>
    /\ connected /\ IsArmed(handled) /\ prepared = handled => RingClean

\* Until a blank slice of the generation was accepted, one is cached or still due.
BlankInv ==
    /\ BlankFirst
    /\ pc \in FirstLabels => wrote = NoSlice
    /\ Model # "NetworkFifo" /\ BlankSlices > 0 /\ IsArmed(handled) /\ prepared = handled =>
          /\ cache.kind = "lit" => blanked
          /\ blank > 0 \/ cache.kind = "blank" \/ blanked

FreshInv == WordInv /\ OpenInv /\ SliceInv /\ BlankInv

\* A step of the driver that leaves the output of the generation alone.
LEMMA FreshStays ==
    ASSUME Types, FreshInv,
           UNCHANGED <<desired, handled, prepared, cache, retain, ring, conn, setup, blank, wrote, blanked>>,
           observed' \in {observed, desired}, connected' => connected,
           shutter' # "Open" \/ shutter' = shutter,
           pc \notin {"recheck", "prepare"}, pc' \notin {"recheck", "prepare", "gate", "opening"},
           pc' \in FirstLabels => pc \in FirstLabels, pc \in GoneLabels => pc' \in GoneLabels
    PROVE  FreshInv'
<1> USE DEF FreshInv
<1>1. WordInv'
  BY DEF WordInv, Types, ControlTypeOK
<1>2. OpenInv'
  BY DEF OpenInv, OpenPrepared
<1>3. SliceInv'
  BY DEF SliceInv, CacheCurrent, RingClean, Model
<1>4. BlankInv'
  BY DEF BlankInv, BlankFirst, Model
<1>5. QED
  BY <1>1, <1>2, <1>3, <1>4

\* No close opens the shutter, finds a link or touches what is queued.
LEMMA Closing ==
    ASSUME Types, NEW force \in BOOLEAN, CommandClose(force) \/ CloseIfDisarmed \/ CloseShutter
    PROVE  /\ shutter' # "Open" \/ shutter' = shutter
           /\ connected' => connected
           /\ UNCHANGED <<ring, caps>>
           /\ CommandClose(FALSE) => shutter' # "Open"
<1>1. CASE CloseShutter
  <2>1. PICK ok \in BOOLEAN : SetShutter(FALSE, ok) /\ shutter' = IF ok THEN "Closed" ELSE "Unknown"
    BY <1>1 DEF CloseShutter
  <2>2. shutter' # "Open"
    BY <2>1
  <2>3. connected' \in {connected, FALSE} /\ UNCHANGED <<ring, caps>>
    BY <2>1, Zenon DEF SetShutter
  <2>4. connected' => connected
    BY <2>3, Zenon
  <2>5. QED
    BY <2>2, <2>3, <2>4
<1>2. CASE UNCHANGED <<shutter, devVars>> /\ ~CloseShutter
  <2>1. CommandClose(FALSE) => shutter = "Closed"
    BY <1>2 DEF CommandClose
  <2>2. QED
    BY <1>2, <2>1 DEF devVars
<1>3. QED
  BY <1>1, <1>2 DEF CommandClose, CloseIfDisarmed

LEMMA NotArmed == ~IsArmed(InitialState)
BY DEF IsArmed, ArmBit, InitialState

\* handle_shutter_transition: the steps that take over a word.
LEMMA FallFresh ==
    ASSUME Types, FreshInv, Fall
    PROVE  FreshInv' /\ shutter' # "Open" /\ handled' # handled
<1> USE DEF FreshInv, Types
<1>1. /\ pc = "load" /\ desired # handled /\ pc' = "recheck"
      /\ handled' = desired /\ observed' = desired /\ desired' = desired /\ prepared' = prepared
      /\ cache' = NoSlice /\ retain' = FALSE /\ blanked' = FALSE
      /\ UNCHANGED <<wrote, conn, setup, blank>>
  BY DEF Fall, DiscardOutput, Goto, ctlVars, rcVars
<1>2. shutter' # "Open" /\ UNCHANGED ring /\ (connected' => connected)
  BY Closing DEF Fall
<1>3. prepared < desired
  BY <1>1 DEF WordInv, LoopType, HistType, ControlTypeOK
<1>4. WordInv'
  BY <1>1, <1>3 DEF WordInv, LoopType, HistType, ControlTypeOK
<1>5. OpenInv'
  BY <1>1, <1>2 DEF OpenInv, OpenPrepared
<1>6. SliceInv'
  BY <1>1, <1>2, <1>3 DEF SliceInv, CacheCurrent, Model, LoopType, HistType, ControlTypeOK
<1>7. BlankInv'
  BY <1>1, <1>3, SMTT(30) DEF BlankInv, BlankFirst, FirstLabels, NoSlice, Model, LoopType, HistType, ControlTypeOK
<1>8. QED
  BY <1>1, <1>2, <1>4, <1>5, <1>6, <1>7

LEMMA LoadFresh ==
    ASSUME Types, FreshInv, Load
    PROVE  FreshInv'
<1> USE DEF FreshInv, Types
<1>1. /\ pc = "load" /\ observed' = desired
      /\ UNCHANGED <<desired, handled, prepared, cache, retain, ring, conn, setup, blank, wrote, blanked, connected, shutter>>
      /\ \/ desired = handled /\ pc' = "gate"
         \/ desired # handled /\ ~NeedsFalling(desired) /\ pc' = "prepare"
  BY DEF Load, Goto, ctlVars, devVars, srcVars, loopVars, rcVars, histVars
<1>2. WordInv'
  BY <1>1 DEF WordInv, ControlTypeOK
<1>3. OpenInv'
  BY <1>1 DEF OpenInv, OpenPrepared, NeedsFalling, GoneLabels, RcLabels
<1>4. SliceInv'
  BY <1>1 DEF SliceInv, CacheCurrent, RingClean, Model, GoneLabels, RcLabels
<1>5. BlankInv'
  BY <1>1 DEF BlankInv, BlankFirst, FirstLabels, Model
<1>6. QED
  BY <1>2, <1>3, <1>4, <1>5

LEMMA RecheckFresh ==
    ASSUME Types, FreshInv, Recheck
    PROVE  FreshInv'
<1> USE DEF FreshInv, Types
<1>1. /\ pc = "recheck"
      /\ UNCHANGED <<desired, handled, prepared, observed, cache, retain, ring, conn, setup, blank, wrote, blanked, connected, shutter>>
      /\ \/ desired # observed /\ pc' = "armread"
         \/ desired = observed /\ IsArmed(observed) /\ pc' = "prepare"
         \/ desired = observed /\ ~IsArmed(observed) /\ pc' = "gate"
  BY DEF Recheck, Goto, ctlVars, devVars, srcVars, loopVars, passVars, rcVars, histVars
<1>2. WordInv'
  BY <1>1 DEF WordInv
<1>3. OpenInv'
  BY <1>1 DEF OpenInv, OpenPrepared, WordInv, ControlTypeOK, LoopType
<1>4. SliceInv'
  BY <1>1 DEF SliceInv, CacheCurrent, RingClean, Model, OpenInv
<1>5. BlankInv'
  BY <1>1 DEF BlankInv, BlankFirst, FirstLabels, Model
<1>6. QED
  BY <1>2, <1>3, <1>4, <1>5

LEMMA PrepareFresh ==
    ASSUME Types, FreshInv, Prepare
    PROVE  FreshInv' /\ shutter' # "Open"
<1> USE DEF FreshInv, Types
<1>1. /\ pc = "prepare" /\ pc' = "gate" /\ handled' = observed /\ prepared' = observed
      /\ cache' = NoSlice /\ retain' = FALSE /\ blanked' = FALSE /\ blank' = BlankSlices
      /\ ring' = (IF Model = "BlockingFifo" /\ connected THEN <<>> ELSE ring)
      /\ UNCHANGED <<desired, observed, wrote, conn, setup, connected, shutter>>
  BY DEF Prepare, DiscardOutput, Goto, ctlVars, passVars, rcVars
<1>2. WordInv'
  BY <1>1 DEF WordInv, PassType
<1>3. OpenInv'
  BY <1>1 DEF OpenInv, OpenPrepared
<1>4. SliceInv'
  <2>1. connected => ring' = <<>>
    BY <1>1 DEF SliceInv
  <2>2. connected => RingClean'
    BY <2>1 DEF RingClean
  <2>3. QED
    BY <1>1, <2>2 DEF SliceInv, CacheCurrent, Model
<1>5. BlankInv'
  <2>1. wrote' = NoSlice /\ cache' = NoSlice /\ blank' = BlankSlices /\ pc' = "gate"
    BY <1>1 DEF BlankInv, FirstLabels
  <2>2. QED
    BY <2>1 DEF BlankInv, BlankFirst, FirstLabels, NoSlice
<1>6. QED
  BY <1>1, <1>2, <1>3, <1>4, <1>5 DEF OpenInv

LEMMA PrepareFailsFresh ==
    ASSUME Types, FreshInv, PrepareFails
    PROVE  FreshInv'
<1> USE DEF FreshInv, Types
<1>1. /\ pc = "prepare" /\ pc' = "rc_begin" /\ ~connected' /\ shutter' # "Open"
      /\ cache' = NoSlice /\ retain' = FALSE /\ blanked' = FALSE /\ blank' = BlankSlices
      /\ UNCHANGED <<desired, handled, observed, prepared, ring, wrote, conn, setup>>
  BY DEF PrepareFails, DiscardOutput, Disconnect, Goto, ctlVars, passVars, rcVars
<1>2. WordInv'
  BY <1>1 DEF WordInv
<1>3. OpenInv'
  BY <1>1 DEF OpenInv, OpenPrepared, GoneLabels, RcLabels
<1>4. SliceInv'
  BY <1>1 DEF SliceInv, CacheCurrent, Model
<1>5. BlankInv'
  <2>1. wrote' = NoSlice
    BY <1>1 DEF BlankInv, FirstLabels
  <2>2. QED
    BY <1>1, <2>1 DEF BlankInv, BlankFirst, FirstLabels, NoSlice
<1>6. QED
  BY <1>2, <1>3, <1>4, <1>5

\* The word that is opened for is the desired one, so its preparation is done.
LEMMA OpenFresh ==
    ASSUME Types, FreshInv, Gate \/ Opening
    PROVE  FreshInv'
<1> USE DEF FreshInv, Types
<1>1. /\ pc \in {"gate", "opening"}
      /\ UNCHANGED <<desired, handled, prepared, observed, cache, retain, ring, conn, setup, blank, wrote, blanked>>
      /\ connected' => connected
  BY DEF Gate, Opening, SetShutter, Goto, ctlVars, devVars, srcVars, loopVars, passVars, rcVars, histVars, DevType
<1>2. \/ pc = "gate" /\ IsArmed(observed) /\ desired = observed /\ pc' = "opening" /\ shutter' = shutter
      \/ pc = "gate" /\ pc' = "armread" /\ shutter' = shutter
      \/ pc = "opening" /\ pc' = "opencheck"
  BY DEF Gate, Opening, Goto, loopVars
<1>3. WordInv'
  BY <1>1, <1>2 DEF WordInv
<1>4. OpenInv'
  <2>1. handled \in 0..MaxWord /\ desired \in 0..MaxWord
    BY Zenon DEF ControlTypeOK, LoopType
  <2>2. OpenInv /\ WordInv
    BY Zenon
  <2> HIDE DEF FreshInv, Types
  <2>3. QED
    BY <1>1, <1>2, <2>1, <2>2 DEF OpenInv, OpenPrepared, WordInv, GoneLabels, RcLabels
<1>5. SliceInv'
  BY <1>1, <1>2 DEF SliceInv, CacheCurrent, RingClean, Model, GoneLabels, RcLabels
<1>6. BlankInv'
  BY <1>1, <1>2 DEF BlankInv, BlankFirst, FirstLabels, Model
<1>7. QED
  BY <1>3, <1>4, <1>5, <1>6

LEMMA TopFresh ==
    ASSUME FreshInv, LoopTop
    PROVE  FreshInv'
<1> USE DEF FreshInv
<1>1. /\ pc = "top" /\ wrote' = NoSlice
      /\ pc' \in {"stopping", "drain", "rc_begin"}
      /\ UNCHANGED <<desired, handled, prepared, observed, cache, retain, ring, conn, setup, blank, blanked, connected, shutter>>
  BY DEF LoopTop, Goto, ctlVars, devVars, srcVars, loopVars, rcVars
<1>2. WordInv' /\ OpenInv'
  BY <1>1 DEF WordInv, OpenInv, OpenPrepared, GoneLabels, RcLabels
<1>3. SliceInv'
  BY <1>1 DEF SliceInv, CacheCurrent, RingClean, Model, GoneLabels, RcLabels
<1>4. BlankInv'
  BY <1>1 DEF BlankInv, BlankFirst, NoSlice, Model
<1>5. QED
  BY <1>2, <1>3, <1>4

LEMMA LoopFresh == Types /\ FreshInv /\ LoopStep => FreshInv'
<1> SUFFICES ASSUME Types, FreshInv, LoopStep PROVE FreshInv'
  OBVIOUS
<1> USE DEF Goto, ctlVars, devVars, srcVars, loopVars, passVars, rcVars, histVars, FirstLabels, GoneLabels, RcLabels
<1>1. CASE LoopDrain \/ ArmRead \/ EndCheck
  <2>1. CASE LoopDrain
    BY <2>1, FreshStays DEF LoopDrain, ProcessControlMessages
  <2>2. CASE ArmRead
    BY <2>2, FreshStays DEF ArmRead
  <2>3. CASE EndCheck
    BY <2>3, FreshStays DEF EndCheck
  <2>4. QED
    BY <1>1, <2>1, <2>2, <2>3, Zenon
<1>2. CASE GateClose \/ OpenCheck
  <2>1. /\ shutter' # "Open" \/ shutter' = shutter
        /\ connected' => connected
        /\ UNCHANGED ring
    BY <1>2, Closing DEF GateClose, OpenCheck
  <2>2. QED
    BY <1>2, <2>1, FreshStays DEF GateClose, OpenCheck
<1>3. CASE EndWithError \/ Stopping
  <2>1. /\ shutter' # "Open" \/ shutter' = shutter
        /\ connected' => connected
        /\ UNCHANGED ring
    BY <1>3, Closing DEF EndWithError, Stopping
  <2>2. QED
    BY <1>3, <2>1, FreshStays DEF EndWithError, Stopping
<1>4. CASE EndSession
  <2>1. (connected' => connected) /\ UNCHANGED ring
    BY <1>4 DEF EndSession, Disconnect
  <2>2. QED
    BY <1>4, <2>1, FreshStays DEF EndSession, DropReceiver
<1>5. QED
  BY <1>1, <1>2, <1>3, <1>4, TopFresh, LoadFresh, FallFresh, RecheckFresh, PrepareFresh, PrepareFailsFresh, OpenFresh
     DEF LoopStep

\* A slice that is composed takes its place in the startup-blank window, because the
\* cache is empty whenever an adapter that retains composes one.
LEMMA ComposeFresh ==
    ASSUME Types, FreshInv, ProduceSlice(is_armed) \/ ProduceEmpty(is_armed),
           UNCHANGED <<desired, handled, prepared, ring, conn, setup, wrote, blanked, connected, shutter>>,
           observed' \in {observed, desired}, pc \in {"step", "produce"}, pc' \in {"write", "endcheck"},
           Model = "NetworkFifo" \/ (~retain /\ (cache' = NoSlice \/ retain'))
    PROVE  FreshInv'
<1> USE DEF FreshInv, Types
<1>1. WordInv' /\ OpenInv'
  <2>1. WordInv /\ OpenInv /\ desired \in 0..MaxWord
    BY Zenon DEF ControlTypeOK
  <2> HIDE DEF FreshInv, Types
  <2>2. WordInv'
    BY <2>1 DEF WordInv
  <2>3. OpenInv'
    BY <2>1 DEF OpenInv, OpenPrepared, GoneLabels, RcLabels
  <2>4. QED
    BY <2>2, <2>3
<1>2. cache' = NoSlice \/ (cache'.gen = handled /\ cache'.conn = conn)
  BY SMTT(30) DEF ProduceSlice, ProduceEmpty, Compose
<1>3. SliceInv'
  BY <1>2 DEF SliceInv, CacheCurrent, RingClean, Model
<1>4. ASSUME Model # "NetworkFifo", BlankSlices > 0, IsArmed(handled), prepared = handled
      PROVE  (cache'.kind = "lit" => blanked) /\ (blank' > 0 \/ cache'.kind = "blank" \/ blanked)
  <2>1. cache = NoSlice
    BY <1>4 DEF SliceInv, GoneLabels, RcLabels
  <2>2. blank > 0 \/ blanked
    BY <1>4, <2>1 DEF BlankInv, NoSlice
  <2>3. CASE ProduceEmpty(is_armed)
    BY <2>2, <2>3 DEF ProduceEmpty, NoSlice
  <2>4. CASE ProduceSlice(is_armed)
    BY <2>2, <2>4 DEF ProduceSlice, Compose, SliceKind, SrcType
  <2>5. QED
    BY <2>3, <2>4
<1>5. BlankInv'
  BY <1>4 DEF BlankInv, BlankFirst, FirstLabels, Model
<1>6. QED
  BY <1>1, <1>3, <1>5

LEMMA RetainFresh ==
    ASSUME Types, SliceReady, FreshInv, RetainOrProduce, Model # "NetworkFifo", pc \in {"step", "produce"},
           UNCHANGED <<desired, handled, prepared, ring, conn, setup, wrote, blanked, connected, shutter, observed>>
    PROVE  FreshInv'
<1>1. CASE retain /\ Goto("write") /\ UNCHANGED <<srcVars, retain>>
  BY <1>1, FreshStays DEF Goto, srcVars, FirstLabels, GoneLabels, RcLabels
<1>2. CASE ~retain /\ ProduceSlice(is_armed) /\ retain' = TRUE /\ Goto("write")
  BY <1>2, ComposeFresh DEF Goto
<1>3. CASE ~retain /\ ProduceEmpty(is_armed) /\ UNCHANGED retain /\ Goto("endcheck")
  <2>1. cache' = NoSlice
    BY <1>3 DEF ProduceEmpty
  <2>2. QED
    BY <1>3, <2>1, ComposeFresh DEF Goto
<1>4. QED
  BY <1>1, <1>2, <1>3 DEF RetainOrProduce

LEMMA AcceptedFresh ==
    ASSUME Types, SliceReady, FreshInv, WriteAccepted
    PROVE  FreshInv'
<1> USE DEF FreshInv, Types
<1>1. /\ pc = "write" /\ pc' \in {"wait", "endcheck"} /\ wrote' = cache /\ cache' = NoSlice
      /\ blanked' = (blanked \/ cache.kind = "blank")
      /\ ring' = (IF Model = "BlockingFifo" THEN Append(ring, cache) ELSE ring)
      /\ UNCHANGED <<desired, handled, prepared, observed, conn, setup, blank, connected, shutter>>
  BY DEF WriteAccepted, Goto, ctlVars, passVars, rcVars
<1>2. cache \in Slice /\ cache.gen = handled /\ cache.conn = conn
  BY <1>1 DEF SliceReady, SliceInv, CacheCurrent, SrcType
<1>3. WordInv' /\ OpenInv'
  BY <1>1 DEF WordInv, OpenInv, OpenPrepared, GoneLabels, RcLabels
<1>4. SliceInv'
  <2>1. RingClean => RingClean'
    <3>1. CASE Model = "BlockingFifo"
      <4>1. ring' = Append(ring, cache) /\ ring \in Seq(Slice)
        BY <1>1, <3>1 DEF DevType
      <4>2. /\ Len(ring') = Len(ring) + 1 /\ ring'[Len(ring) + 1] = cache
            /\ \A i \in 1..Len(ring) : ring'[i] = ring[i]
        BY <1>2, <4>1
      <4>3. \A i \in 1..Len(ring') : i \in 1..Len(ring) \/ i = Len(ring) + 1
        BY <4>1, <4>2
      <4>4. QED
        BY <1>1, <1>2, <4>2, <4>3 DEF RingClean
    <3>2. CASE Model # "BlockingFifo"
      BY <1>1, <3>2 DEF RingClean
    <3>3. QED
      BY <3>1, <3>2
  <2>2. QED
    BY <1>1, <2>1 DEF SliceInv, CacheCurrent, Model
<1>5. BlankInv'
  <2>1. pc' \notin FirstLabels
    BY <1>1 DEF FirstLabels
  <2>2. BlankFirst'
    BY <1>1, <1>2, Zenon DEF BlankInv, BlankFirst, Model
  <2>3. cache'.kind = "none"
    BY <1>1 DEF NoSlice
  <2>4. ASSUME Model # "NetworkFifo", BlankSlices > 0, IsArmed(handled), prepared = handled
        PROVE  blank' > 0 \/ blanked'
    BY <1>1, <2>4 DEF BlankInv
  <2>5. QED
    BY <1>1, <2>1, <2>2, <2>3, <2>4 DEF BlankInv, Model
<1>6. QED
  BY <1>3, <1>4, <1>5

\* Frame swap gives up a frame only together with the connection.
LEMMA TransientFresh ==
    ASSUME FreshInv, WriteTransient
    PROVE  FreshInv'
<1> USE DEF FreshInv
<1>1. /\ pc = "write"
      /\ UNCHANGED <<desired, handled, prepared, observed, cache, ring, conn, setup, blank, wrote, blanked, shutter>>
      /\ \/ pc' = "endcheck" /\ UNCHANGED <<connected, retain>>
         \/ pc' = "rc_begin" /\ ~connected'
  BY DEF WriteTransient, Disconnect, Goto, ctlVars, devVars, srcVars, passVars, rcVars, histVars
<1>2. WordInv' /\ OpenInv'
  BY <1>1 DEF WordInv, OpenInv, OpenPrepared, GoneLabels, RcLabels
<1>3. SliceInv'
  BY <1>1 DEF SliceInv, CacheCurrent, RingClean, Model, GoneLabels, RcLabels
<1>4. BlankInv'
  BY <1>1 DEF BlankInv, BlankFirst, FirstLabels, Model
<1>5. QED
  BY <1>2, <1>3, <1>4

\* The end of a stream clears the ring, and puts one dark slice of this generation there.
LEMMA DrainFresh ==
    ASSUME Types, FreshInv, ResetBeforeBlank \/ BlankWrite
    PROVE  FreshInv'
<1> USE DEF FreshInv, Types
<1>1. /\ UNCHANGED <<desired, handled, prepared, observed, cache, retain, conn, setup, blank, wrote, blanked, shutter, connected>>
      /\ pc \in {"blank", "blank_write"} /\ pc' \in {"blank_close", "end"}
  BY DEF ResetBeforeBlank, BlankWrite, Goto, ctlVars, srcVars, loopVars, passVars, rcVars, histVars
<1>2. \/ ring' = ring
      \/ ring' = <<>>
      \/ Model = "BlockingFifo" /\ ring' = Append(ring, [kind |-> "park", gen |-> handled, conn |-> conn])
  BY DEF ResetBeforeBlank, BlankWrite
<1>3. WordInv' /\ OpenInv'
  BY <1>1 DEF WordInv, OpenInv, OpenPrepared, GoneLabels, RcLabels
<1>4. RingClean => RingClean'
  <2>1. CASE ring' = ring \/ ring' = <<>>
    BY <1>1, <2>1 DEF RingClean
  <2>2. CASE ring' = Append(ring, [kind |-> "park", gen |-> handled, conn |-> conn])
    <3> DEFINE park == [kind |-> "park", gen |-> handled, conn |-> conn]
    <3>1. park \in Slice
      BY ControlAssumption DEF Slice, LoopType, RcType
    <3>2. ring \in Seq(Slice) /\ park.gen = handled /\ park.conn = conn
      BY Zenon DEF DevType
    <3> HIDE DEF FreshInv, Types, park
    <3>3. ASSUME RingClean PROVE Clean(Append(ring, park), handled, conn)
      <4>1. Clean(ring, park.gen, park.conn)
        BY <3>2, <3>3, Zenon DEF RingClean, Clean
      <4>2. Clean(Append(ring, park), park.gen, park.conn)
        BY <3>1, <3>2, <4>1, CleanAppended, Zenon
      <4>3. QED
        BY <3>2, <4>2, Zenon
    <3>4. QED
      BY <1>1, <2>2, <3>3, Zenon DEF RingClean, Clean, park
  <2>3. QED
    BY <1>2, <2>1, <2>2
<1>5. SliceInv'
  BY <1>1, <1>2, <1>4 DEF SliceInv, CacheCurrent, Model, GoneLabels, RcLabels
<1>6. BlankInv'
  BY <1>1 DEF BlankInv, BlankFirst, FirstLabels, Model
<1>7. QED
  BY <1>3, <1>5, <1>6

LEMMA AdapterFresh == Types /\ SliceReady /\ FreshInv /\ AdapterStep => FreshInv'
<1> SUFFICES ASSUME Types, SliceReady, FreshInv, AdapterStep PROVE FreshInv'
  OBVIOUS
<1> USE DEF Goto, ctlVars, devVars, srcVars, loopVars, passVars, rcVars, histVars, FirstLabels, GoneLabels, RcLabels
<1>1. CASE WaitEnds \/ WaitStopped
  <2>1. CASE WaitEnds
    BY <2>1, FreshStays DEF WaitEnds, AfterWait
  <2>2. CASE WaitStopped
    BY <2>2, FreshStays DEF WaitStopped
  <2>3. QED
    BY <1>1, <2>1, <2>2, Zenon
<1>2. CASE WaitDrain \/ SpinDrain \/ DrainControls
  <2>1. pc' \in {"stopping", "endcheck", "wait", "spin_stop", "spin_changed", "spin_none", "finish", "blank"}
    BY <1>2 DEF WaitDrain, SpinDrain, DrainControls, ControlAction
  <2>2. pc \in {"waitdrain", "spin", "finish_drain"} /\ UNCHANGED desired
    BY <1>2 DEF WaitDrain, SpinDrain, DrainControls, ProcessControlMessages
  <2>3. UNCHANGED <<devVars, srcVars, loopVars, passVars, rcVars, histVars>>
    BY <1>2, Zenon DEF WaitDrain, SpinDrain, DrainControls
  <2>4. QED
    BY <2>1, <2>2, <2>3, FreshStays
<1>3. CASE WaitClose \/ SpinClose \/ DrainPoll \/ BlankClose \/ BlockingRetry
  <2>1. /\ shutter' # "Open" \/ shutter' = shutter
        /\ connected' => connected
        /\ UNCHANGED ring
    BY <1>3, Closing DEF WaitClose, SpinClose, DrainPoll, BlankClose, BlockingRetry
  <2>2. QED
    BY <1>3, <2>1, FreshStays DEF WaitClose, SpinClose, DrainPoll, BlankClose, BlockingRetry
<1>4. CASE NetworkFifoPace \/ UdpTimedPace \/ FrameSwapNotReady \/ BlockingIdle
  <2>1. pc = "step" /\ pc' \in {"wait", "endcheck", "produce"}
    BY <1>4 DEF NetworkFifoPace, UdpTimedPace, FrameSwapNotReady, BlockingIdle
  <2>2. UNCHANGED <<ctlVars, devVars, srcVars, loopVars, passVars, rcVars, histVars>>
    BY <1>4, Zenon DEF NetworkFifoPace, UdpTimedPace, FrameSwapNotReady, BlockingIdle
  <2>3. QED
    BY <2>1, <2>2, FreshStays
<1>5. CASE NetworkFifoProduce
  BY <1>5, ComposeFresh DEF NetworkFifoProduce
<1>6. CASE UdpTimedProduce \/ FrameSwapProduce \/ BlockingProduce
  <2>1. RetainOrProduce /\ pc \in {"step", "produce"} /\ Model # "NetworkFifo"
    BY <1>6 DEF UdpTimedProduce, FrameSwapProduce, BlockingProduce, SliceReady
  <2>2. UNCHANGED <<desired, handled, prepared, ring, conn, setup, wrote, blanked, connected, shutter, observed>>
    BY <1>6 DEF UdpTimedProduce, FrameSwapProduce, BlockingProduce
  <2>3. QED
    BY <2>1, <2>2, RetainFresh
<1>7. CASE SpinCompare \/ SpinStalled
  <2>1. CASE SpinCompare
    BY <2>1, FreshStays DEF SpinCompare
  <2>2. CASE SpinStalled
    <3>1. ~connected' /\ UNCHANGED ring
      BY <2>2 DEF SpinStalled, Disconnect
    <3>2. QED
      BY <2>2, <3>1, FreshStays DEF SpinStalled
  <2>3. QED
    BY <1>7, <2>1, <2>2
<1>8. CASE WriteWouldBlock \/ WriteStopped \/ DrainEnds
  BY <1>8, FreshStays DEF WriteWouldBlock, WriteStopped, DrainEnds
<1>9. CASE WriteDisconnected
  <2>1. (connected' = connected \/ connected' = FALSE) /\ UNCHANGED ring
    BY <1>9 DEF WriteDisconnected, Disconnect
  <2>2. connected' => connected
    BY <2>1, Zenon
  <2>3. QED
    BY <1>9, <2>1, <2>2, FreshStays DEF WriteDisconnected
<1>10. QED
  BY <1>1, <1>2, <1>3, <1>4, <1>5, <1>6, <1>7, <1>8, <1>9, AcceptedFresh, TransientFresh, DrainFresh DEF AdapterStep

\* Until a candidate is accepted nothing is composed, and then everything starts over.
LEMMA AcceptFresh ==
    ASSUME Types, FreshInv, ReconnectAccept
    PROVE  FreshInv'
<1> USE DEF FreshInv, Types
<1>1. /\ pc' = "top" /\ shutter' = "Closed" /\ handled' = InitialState /\ prepared' = InitialState
      /\ cache' = NoSlice /\ UNCHANGED <<desired, observed, ring, setup>>
  BY DEF ReconnectAccept, UpdatePpsBounds, Goto, passVars
<1>2. WordInv'
  BY <1>1 DEF WordInv, InitialState, ControlTypeOK
<1>3. OpenInv'
  BY <1>1, NotArmed DEF OpenInv, OpenPrepared
<1>4. SliceInv'
  BY <1>1, NotArmed DEF SliceInv, CacheCurrent, Model
<1>5. BlankInv'
  BY <1>1, NotArmed DEF BlankInv, BlankFirst, FirstLabels
<1>6. QED
  BY <1>2, <1>3, <1>4, <1>5

LEMMA ReconnectFresh == Types /\ FreshInv /\ ReconnectStep => FreshInv'
<1> SUFFICES ASSUME Types, FreshInv, ReconnectStep PROVE FreshInv'
  OBVIOUS
<1> USE DEF Goto, Leave, RetryLater, DropCandidate, ctlVars, devVars, srcVars, loopVars, passVars, histVars,
        FirstLabels, GoneLabels, RcLabels
<1>1. CASE ReconnectBegin \/ ReconnectCheck \/ ReconnectBackoff
  <2>1. CASE ReconnectBegin
    BY <2>1, FreshStays DEF ReconnectBegin
  <2>2. CASE ReconnectCheck
    BY <2>2, FreshStays DEF ReconnectCheck, rcVars
  <2>3. CASE ReconnectBackoff
    BY <2>3, FreshStays DEF ReconnectBackoff, rcVars
  <2>4. QED
    BY <1>1, <2>1, <2>2, <2>3
<1>2. CASE ReconnectOpenFails \/ ReconnectOpen \/ ReconnectValidate
  BY <1>2, FreshStays DEF ReconnectOpenFails, ReconnectOpen, ReconnectValidate
<1>3. CASE ReconnectConnect \/ ReconnectConnectFails \/ ReconnectClose
  <2>1. CASE ReconnectConnect
    BY <2>1, FreshStays DEF ReconnectConnect
  <2>2. CASE ReconnectConnectFails
    BY <2>2, FreshStays DEF ReconnectConnectFails
  <2>3. CASE ReconnectClose
    BY <2>3, FreshStays DEF ReconnectClose, rcVars
  <2>4. QED
    BY <1>3, <2>1, <2>2, <2>3
<1>4. CASE ReconnectCloseFails \/ ReconnectRevalidate \/ ReconnectRejected
  <2>1. CASE ReconnectCloseFails
    BY <2>1, FreshStays DEF ReconnectCloseFails
  <2>2. CASE ReconnectRevalidate
    BY <2>2, FreshStays DEF ReconnectRevalidate
  <2>3. CASE ReconnectRejected
    BY <2>3, FreshStays DEF ReconnectRejected
  <2>4. QED
    BY <1>4, <2>1, <2>2, <2>3
<1>5. QED
  BY <1>1, <1>2, <1>3, <1>4, AcceptFresh DEF ReconnectStep

\* A call moves the desired word up, or leaves it.
LEMMA WordGrows ==
    ASSUME NEW w \in Nat, NEW b \in {0, 1}
    PROVE  NextWord(w, b) \in Nat /\ NextWord(w, b) > w
BY DEF NextWord

LEMMA HandleFresh ==
    ASSUME Types, FreshInv, NEW h \in Handles, HandleStep(h), UNCHANGED restVars
    PROVE  FreshInv'
<1> USE DEF FreshInv, Types
<1>1. desired' \in Nat /\ desired' >= desired
  <2>1. ASSUME NEW b \in {0, 1}, NEW m \in ControlMsg, SetDesiredArmed(h, b, m)
        PROVE  desired' \in Nat /\ desired' >= desired
    <3>1. desired \in Nat
      BY DEF ControlTypeOK
    <3>2. desired' = desired \/ desired' = NextWord(desired, b)
      BY <2>1 DEF SetDesiredArmed, WordAfter
    <3>3. QED
      BY <3>1, <3>2, WordGrows
  <2>2. CASE Arm(h) \/ Disarm(h)
    BY <2>1, <2>2 DEF Arm, Disarm, ControlMsg
  <2>3. CASE UNCHANGED desired
    BY <2>3 DEF ControlTypeOK
  <2>4. QED
    BY <2>2, <2>3 DEF HandleStep, Stop, Notify, SetPps
<1>2. UNCHANGED <<pc, handled, prepared, observed, cache, retain, ring, conn, setup, blank, wrote, blanked, connected, shutter>>
  BY DEF restVars, devVars, srcVars, loopVars, passVars, rcVars, histVars
<1>3. WordInv'
  <2>1. WordInv /\ desired \in 0..MaxWord /\ handled \in 0..MaxWord /\ observed \in 0..MaxWord
    BY Zenon DEF ControlTypeOK, LoopType, PassType
  <2> HIDE DEF FreshInv, Types
  <2>2. QED
    BY <1>1, <1>2, <2>1 DEF WordInv
<1>4. OpenInv'
  <2>1. handled < desired => handled < desired'
    BY <1>1 DEF ControlTypeOK, LoopType
  <2>2. QED
    BY <1>2, <2>1, Zenon DEF OpenInv, OpenPrepared
<1>5. SliceInv'
  BY <1>2 DEF SliceInv, CacheCurrent, RingClean, Model
<1>6. BlankInv'
  BY <1>2 DEF BlankInv, BlankFirst, Model
<1>7. QED
  BY <1>3, <1>4, <1>5, <1>6

\* A link that is lost and a ring that plays out leave the generation alone.
LEMMA DeviceFresh ==
    ASSUME Types, FreshInv, DeviceLost \/ DeviceDrains \/ UNCHANGED vars
    PROVE  FreshInv'
<1> USE DEF FreshInv, Types
<1>1. /\ UNCHANGED <<pc, desired, handled, prepared, observed, cache, retain, conn, setup, blank, wrote, blanked, shutter>>
      /\ connected' => connected
      /\ ring' = ring \/ (ring # <<>> /\ ring' = Tail(ring))
  <2> USE DEF ctlVars, devVars, srcVars, loopVars, passVars, rcVars, histVars
  <2>1. CASE DeviceLost
    BY <2>1 DEF DeviceLost, Disconnect
  <2>2. CASE DeviceDrains
    BY <2>2 DEF DeviceDrains
  <2>3. CASE UNCHANGED vars
    BY <2>3 DEF vars
  <2>4. QED
    BY <2>1, <2>2, <2>3
<1>2. WordInv' /\ OpenInv'
  BY <1>1 DEF WordInv, OpenInv, OpenPrepared
<1>3. RingClean => RingClean'
  BY <1>1 DEF RingClean, DevType
<1>4. SliceInv'
  BY <1>1, <1>3 DEF SliceInv, CacheCurrent, Model
<1>5. BlankInv'
  BY <1>1 DEF BlankInv, BlankFirst, Model
<1>6. QED
  BY <1>2, <1>4, <1>5

LEMMA InitFresh == Init => FreshInv
<1> SUFFICES ASSUME Init PROVE FreshInv
  OBVIOUS
<1>1. /\ desired = 0 /\ handled = 0 /\ observed = 0 /\ prepared = 0 /\ pc = "top"
      /\ shutter = "Closed" /\ cache = NoSlice /\ ring = <<>> /\ wrote = NoSlice
  BY DEF Init, ControlInit, InitialState
<1>2. WordInv /\ OpenInv
  BY <1>1, NotArmed DEF WordInv, OpenInv, OpenPrepared, InitialState
<1>3. SliceInv /\ BlankInv
  BY <1>1, NotArmed DEF SliceInv, CacheCurrent, BlankInv, BlankFirst, FirstLabels, InitialState
<1>4. QED
  BY <1>2, <1>3 DEF FreshInv

LEMMA NextFresh == Types /\ SliceReady /\ FreshInv /\ [Next]_vars => FreshInv'
<1> SUFFICES ASSUME Types, SliceReady, FreshInv, [Next]_vars PROVE FreshInv'
  OBVIOUS
<1>1. CASE Controls
  BY <1>1, HandleFresh DEF Controls
<1>2. QED
  BY <1>1, DeviceFresh, LoopFresh, AdapterFresh, ReconnectFresh DEF Next, DriverStep, Finished

LEMMA AlwaysFresh == Spec => [](Types /\ SliceReady /\ FreshInv)
BY InitTypes, InitFresh, NextTypes, NextReady, NextFresh, PTL DEF Spec

\* What an arm promises of the light, for every generation: the shutter opens only after
\* its preparation, over a ring that holds nothing older, the first slice that is
\* accepted is a blank one, and what is cached for a retry was composed since, whatever
\* was armed, disarmed or lost in between (handle_shutter_transition).
THEOREM FreshSafety == Spec => []FreshStart
<1>1. FreshInv => FreshStart
  BY DEF FreshInv, OpenInv, SliceInv, BlankInv, FreshStart, OpenPrepared, NoStaleReplay, RingClean
<1>2. QED
  BY <1>1, AlwaysFresh, PTL

-------------------------------------------------------------------------------
(* Transitions *)

LEMMA QuietClean ==
    ASSUME UNCHANGED <<handled, cache>>
    PROVE  HandledWhenShut /\ VerbatimRetry
BY DEF HandledWhenShut, VerbatimRetry, CacheStep

LEMMA LoopClean == Types /\ FreshInv /\ LoopStep => HandledWhenShut /\ VerbatimRetry
<1> SUFFICES ASSUME Types, FreshInv, LoopStep PROVE HandledWhenShut /\ VerbatimRetry
  OBVIOUS
<1>a. CacheCurrent
  BY DEF FreshInv, SliceInv
<1> USE DEF srcVars, loopVars
<1>1. CASE Fall
  <2>1. shutter' # "Open" /\ handled' # handled /\ cache' = NoSlice
    BY <1>1, FallFresh DEF Fall, DiscardOutput
  <2>2. QED
    BY <1>a, <2>1 DEF HandledWhenShut, VerbatimRetry, CacheStep, CacheCurrent
<1>2. CASE Prepare
  <2>1. shutter' # "Open" /\ cache' = NoSlice /\ handled' = observed
    BY <1>2, PrepareFresh DEF Prepare, DiscardOutput
  <2>2. cache = NoSlice \/ observed # handled
    BY <1>2 DEF FreshInv, OpenInv, Prepare
  <2>3. QED
    BY <1>a, <2>1, <2>2 DEF HandledWhenShut, VerbatimRetry, CacheStep, CacheCurrent
<1>3. CASE PrepareFails
  <2>1. UNCHANGED handled /\ cache' = NoSlice /\ ~connected'
    BY <1>3 DEF PrepareFails, DiscardOutput, Disconnect
  <2>2. QED
    BY <2>1 DEF HandledWhenShut, VerbatimRetry, CacheStep
<1>4. CASE LoopTop \/ LoopDrain \/ Load \/ Recheck \/ Gate \/ GateClose
  BY <1>4, QuietClean DEF LoopTop, LoopDrain, Load, Recheck, Gate, GateClose
<1>5. CASE Opening \/ OpenCheck \/ ArmRead \/ EndCheck
  BY <1>5, QuietClean DEF Opening, OpenCheck, ArmRead, EndCheck
<1>6. CASE EndWithError \/ Stopping \/ EndSession
  BY <1>6, QuietClean DEF EndWithError, Stopping, EndSession
<1>7. QED
  BY <1>1, <1>2, <1>3, <1>4, <1>5, <1>6 DEF LoopStep

LEMMA AdapterClean == Types /\ SliceReady /\ FreshInv /\ AdapterStep => HandledWhenShut /\ VerbatimRetry
<1> SUFFICES ASSUME Types, SliceReady, FreshInv, AdapterStep PROVE HandledWhenShut /\ VerbatimRetry
  OBVIOUS
<1> USE DEF srcVars, loopVars
<1>1. CASE NetworkFifoProduce
  BY <1>1 DEF NetworkFifoProduce, HandledWhenShut, VerbatimRetry
<1>2. CASE UdpTimedProduce \/ FrameSwapProduce \/ BlockingProduce
  <2>1. RetainOrProduce /\ UNCHANGED handled /\ pc \in {"step", "produce"} /\ Model # "NetworkFifo"
    BY <1>2 DEF UdpTimedProduce, FrameSwapProduce, BlockingProduce, SliceReady
  <2>2. UNCHANGED cache \/ ~retain
    BY <2>1 DEF RetainOrProduce
  <2>3. ~retain => cache = NoSlice
    BY <2>1 DEF FreshInv, SliceInv, GoneLabels, RcLabels
  <2>4. QED
    BY <2>1, <2>2, <2>3 DEF HandledWhenShut, VerbatimRetry, CacheStep
<1>3. CASE WriteAccepted
  BY <1>3 DEF WriteAccepted, HandledWhenShut, VerbatimRetry, CacheStep
<1>4. CASE WaitEnds \/ WaitStopped \/ WaitClose \/ WaitDrain \/ NetworkFifoPace
  BY <1>4, QuietClean DEF WaitEnds, WaitStopped, WaitClose, WaitDrain, NetworkFifoPace
<1>5. CASE SpinDrain \/ SpinClose \/ SpinCompare \/ SpinStalled
  BY <1>5, QuietClean DEF SpinDrain, SpinClose, SpinCompare, SpinStalled
<1>6. CASE UdpTimedPace \/ FrameSwapNotReady \/ BlockingIdle \/ WriteWouldBlock
  BY <1>6, QuietClean DEF UdpTimedPace, FrameSwapNotReady, BlockingIdle, WriteWouldBlock
<1>7. CASE BlockingRetry \/ WriteDisconnected \/ WriteTransient \/ WriteStopped
  BY <1>7, QuietClean DEF BlockingRetry, WriteDisconnected, WriteTransient, WriteStopped
<1>8. CASE DrainEnds \/ DrainPoll \/ DrainControls
  BY <1>8, QuietClean DEF DrainEnds, DrainPoll, DrainControls
<1>9. CASE ResetBeforeBlank \/ BlankClose \/ BlankWrite
  BY <1>9, QuietClean DEF ResetBeforeBlank, BlankClose, BlankWrite
<1>10. QED
  BY <1>1, <1>2, <1>3, <1>4, <1>5, <1>6, <1>7, <1>8, <1>9 DEF AdapterStep

LEMMA ReconnectClean == Types /\ FreshInv /\ ReconnectStep => HandledWhenShut /\ VerbatimRetry
<1> SUFFICES ASSUME Types, FreshInv, ReconnectStep PROVE HandledWhenShut /\ VerbatimRetry
  OBVIOUS
<1> USE DEF srcVars, loopVars
<1>1. CASE ReconnectAccept
  <2>1. shutter' = "Closed" /\ cache' = NoSlice /\ conn' # conn
    BY <1>1 DEF ReconnectAccept, Types, RcType
  <2>2. cache # NoSlice => cache.conn = conn
    BY DEF FreshInv, SliceInv, CacheCurrent
  <2>3. QED
    BY <2>1, <2>2 DEF HandledWhenShut, VerbatimRetry, CacheStep
<1>2. CASE ReconnectBegin \/ ReconnectCheck \/ ReconnectBackoff \/ ReconnectOpenFails \/ ReconnectOpen
  BY <1>2, QuietClean DEF ReconnectBegin, ReconnectCheck, ReconnectBackoff, ReconnectOpenFails, ReconnectOpen
<1>3. CASE ReconnectValidate \/ ReconnectConnect \/ ReconnectConnectFails \/ ReconnectClose
  BY <1>3, QuietClean DEF ReconnectValidate, ReconnectConnect, ReconnectConnectFails, ReconnectClose
<1>4. CASE ReconnectCloseFails \/ ReconnectRevalidate \/ ReconnectRejected
  BY <1>4, QuietClean DEF ReconnectCloseFails, ReconnectRevalidate, ReconnectRejected
<1>5. QED
  BY <1>1, <1>2, <1>3, <1>4 DEF ReconnectStep

\* Output of one generation never meets the next: no transition and no replacement of
\* the backend is taken over with the shutter open, also when a disarm and an arm fall
\* between two passes, and a slice that an adapter retains is offered again unchanged
\* until it is written or its generation or connection is over.
THEOREM CleanTransitions == Spec => TransitionsClean
<1>1. Types /\ SliceReady /\ FreshInv /\ [Next]_vars => [HandledWhenShut /\ VerbatimRetry]_vars
  <2> SUFFICES ASSUME Types, SliceReady, FreshInv, Next PROVE HandledWhenShut /\ VerbatimRetry
    OBVIOUS
  <2>1. CASE Controls \/ DeviceLost \/ DeviceDrains \/ Finished
    BY <2>1, QuietClean DEF Controls, DeviceLost, DeviceDrains, Finished, restVars, vars, srcVars, loopVars
  <2>2. QED
    BY <2>1, LoopClean, AdapterClean, ReconnectClean DEF Next, DriverStep
<1>2. QED
  BY <1>1, AlwaysFresh, PTL DEF Spec, TransitionsClean

===============================================================================
