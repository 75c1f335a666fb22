---------------------------- MODULE OutputAdapters ----------------------------
(***************************************************************************)
(* One scheduling step of the four OutputModelAdapters                     *)
(* (presentation/output_model/).  A step starts at pc = "step".  Its       *)
(* outcome is where it leaves the thread:                                  *)
(*   Continue, StateChanged -> "endcheck"   (the driver treats them alike) *)
(*   Stopped                -> "stopping"                                  *)
(*   Disconnected           -> "rc_begin"                                  *)
(* How long a wait lasts is left open: every wait may end at any poll.     *)
(***************************************************************************)
EXTENDS SessionState

MaxTransientRetries == 3   \* MAX_TRANSIENT_WRITE_RETRIES

-------------------------------------------------------------------------------
(* sleep_with_control_check and sleep_until_precise *)

AfterWait == IF Model = "UdpTimed" THEN "produce" ELSE "endcheck"

WaitEnds ==
    /\ pc = "wait"
    /\ Goto(AfterWait)
    /\ UNCHANGED <<ctlVars, devVars, srcVars, loopVars, passVars, rcVars, histVars>>

WaitStopped ==
    /\ pc = "wait"
    /\ stop_requested
    /\ Goto("stopping")
    /\ UNCHANGED <<ctlVars, devVars, srcVars, loopVars, passVars, rcVars, histVars>>

WaitClose ==
    /\ pc = "wait"
    /\ ~stop_requested
    /\ CloseIfDisarmed
    /\ Goto("waitdrain")
    /\ UNCHANGED <<ctlVars, srcVars, handled, retain, tries, passVars, rcVars, histVars>>

\* Faulty variant: a wait that takes a notification and goes on waiting.
WaitDrainSwallows ==
    /\ pc = "waitdrain"
    /\ ProcessControlMessages
    /\ Goto(IF ControlAction = "Stop" THEN "stopping" ELSE "wait")
    /\ UNCHANGED <<devVars, srcVars, loopVars, passVars, rcVars, histVars>>

WaitDrain ==
    /\ pc = "waitdrain"
    /\ ProcessControlMessages
    /\ Goto(CASE ControlAction = "Stop" -> "stopping"
              [] ControlAction = "StateChanged" -> "endcheck"
              [] ControlAction = "None" -> "wait")
    /\ UNCHANGED <<devVars, srcVars, loopVars, passVars, rcVars, histVars>>

-------------------------------------------------------------------------------
(* NetworkFifoAdapter::step *)

\* The buffer is above its target or the deficit is below the write quantum: a
\* wait. No deficit at all: a millisecond without looking at the controls.
NetworkFifoPace ==
    /\ pc = "step"
    /\ Model = "NetworkFifo"
    /\ \/ Goto("wait")
       \/ Goto("endcheck")
    /\ UNCHANGED <<ctlVars, devVars, srcVars, loopVars, passVars, rcVars, histVars>>

\* Every step composes afresh, also when a slice is still cached.
NetworkFifoProduce ==
    /\ pc = "step"
    /\ Model = "NetworkFifo"
    /\ \/ ProduceSlice(is_armed) /\ observed' = desired /\ Goto("write")
       \/ ProduceEmpty(is_armed) /\ UNCHANGED observed /\ Goto("endcheck")
    /\ UNCHANGED <<ctlVars, devVars, loopVars, is_armed, pps, exit, rcVars, histVars>>

\* The WouldBlock spin: the stop flag, then the channel, then the shutter, then
\* the desired state, each read once per turn.
SpinDrain ==
    /\ pc = "spin"
    /\ IF stop_requested
       THEN Goto("stopping") /\ UNCHANGED ctlVars
       ELSE /\ ProcessControlMessages
            /\ Goto(CASE ControlAction = "Stop" -> "spin_stop"
                      [] ControlAction = "StateChanged" -> "spin_changed"
                      [] ControlAction = "None" -> "spin_none")
    /\ UNCHANGED <<devVars, srcVars, loopVars, passVars, rcVars, histVars>>

SpinClose ==
    /\ pc \in {"spin_stop", "spin_changed", "spin_none"}
    /\ CloseIfDisarmed
    /\ Goto(CASE pc = "spin_stop" -> "stopping"
              [] pc = "spin_changed" -> "endcheck"
              [] pc = "spin_none" -> "spin_compare")
    /\ UNCHANGED <<ctlVars, srcVars, handled, retain, tries, passVars, rcVars, histVars>>

SpinCompare ==
    /\ pc = "spin_compare"
    /\ Goto(IF IsArmed(desired) # is_armed \/ desired # observed
            THEN "endcheck" ELSE "write")
    /\ UNCHANGED <<ctlVars, devVars, srcVars, loopVars, passVars, rcVars, histVars>>

\* WouldBlock for WOULDBLOCK_STALL_TIMEOUT with nothing changed.
SpinStalled ==
    /\ pc = "spin_compare"
    /\ IsArmed(desired) = is_armed /\ desired = observed
    /\ Fault
    /\ Disconnect
    /\ Goto("rc_begin")
    /\ UNCHANGED <<ctlVars, srcVars, loopVars, passVars, rcVars, histVars>>

-------------------------------------------------------------------------------
(* UdpTimedAdapter, UsbFrameSwapAdapter and BlockingFifoAdapter::step: a slice *)
(* that was not accepted is retained and offered again by a later step.        *)

RetainOrProduce ==
    \/ retain /\ Goto("write") /\ UNCHANGED <<srcVars, retain>>
    \/ ~retain /\ ProduceSlice(is_armed) /\ retain' = TRUE /\ Goto("write")
    \/ ~retain /\ ProduceEmpty(is_armed) /\ UNCHANGED retain /\ Goto("endcheck")

\* next_send is still ahead, or already due.
UdpTimedPace ==
    /\ pc = "step"
    /\ Model = "UdpTimed"
    /\ \/ Goto("wait")
       \/ Goto("produce")
    /\ UNCHANGED <<ctlVars, devVars, srcVars, loopVars, passVars, rcVars, histVars>>

\* The rate may have changed during the wait and is read again.
UdpTimedProduce ==
    /\ pc = "produce"
    /\ pps' = rate.pps
    /\ RetainOrProduce
    /\ UNCHANGED <<ctlVars, devVars, shutter, handled, tries, observed, is_armed, exit, rcVars, histVars>>

FrameSwapNotReady ==
    /\ pc = "step"
    /\ Model = "UsbFrameSwap"
    /\ Goto("wait")
    /\ UNCHANGED <<ctlVars, devVars, srcVars, loopVars, passVars, rcVars, histVars>>

FrameSwapProduce ==
    /\ pc = "step"
    /\ Model = "UsbFrameSwap"
    /\ RetainOrProduce
    /\ UNCHANGED <<ctlVars, devVars, shutter, handled, tries, passVars, rcVars, histVars>>

BlockingIdle ==
    /\ pc = "step"
    /\ Model = "BlockingFifo"
    /\ ~is_armed
    /\ Goto("wait")
    /\ UNCHANGED <<ctlVars, devVars, srcVars, loopVars, passVars, rcVars, histVars>>

BlockingProduce ==
    /\ pc = "step"
    /\ Model = "BlockingFifo"
    /\ is_armed
    /\ RetainOrProduce
    /\ UNCHANGED <<ctlVars, devVars, shutter, handled, tries, passVars, rcVars, histVars>>

-------------------------------------------------------------------------------
(* The write itself: try_write or write_frame_after_ready of the cached slice. *)

RingFull == Model = "BlockingFifo" /\ Len(ring) >= RingSlices

\* Written. A blocking write returns only once the ring has room.
WriteAccepted ==
    /\ pc = "write"
    /\ connected
    /\ ~RingFull
    /\ ring' = IF Model = "BlockingFifo" THEN Append(ring, cache) ELSE ring
    /\ wrote' = cache
    /\ blanked' = (blanked \/ cache.kind = "blank")
    /\ cache' = NoSlice
    /\ retain' = FALSE
    /\ tries' = 0
    /\ Goto(IF Model = "UsbFrameSwap" THEN "wait" ELSE "endcheck")
    /\ UNCHANGED <<ctlVars, connected, phys, caps, faults, blank, src_end,
                   shutter, handled, passVars, rcVars, prepared>>

\* WouldBlock: the slice stays cached.
WriteWouldBlock ==
    /\ pc = "write"
    /\ connected
    /\ Model = "BlockingFifo" => RingFull /\ ~Blocks
    /\ Goto(CASE Model = "NetworkFifo" -> "spin"
              [] Model = "BlockingFifo" -> "blocking_retry"
              [] OTHER -> "endcheck")
    /\ UNCHANGED <<ctlVars, devVars, srcVars, loopVars, passVars, rcVars, histVars>>

BlockingRetry ==
    /\ pc = "blocking_retry"
    /\ IF stop_requested
       THEN Goto("stopping") /\ UNCHANGED <<shutter, devVars>>
       ELSE Goto("endcheck") /\ CloseIfDisarmed
    /\ UNCHANGED <<ctlVars, srcVars, handled, retain, tries, passVars, rcVars, histVars>>

\* The link is gone, or the write failed in a way that makes the adapter drop
\* it: a disconnect error, or (but for frame swap) any other error.  A Helios whose
\* write failed for good answers is_connected until its end (HeliosBackend); here
\* its link counts as gone, as it does for the loop.
WriteDisconnected ==
    /\ pc = "write"
    /\ \/ ~connected /\ UNCHANGED devVars
       \/ connected /\ Fault /\ Disconnect
    /\ Goto("rc_begin")
    /\ UNCHANGED <<ctlVars, srcVars, loopVars, passVars, rcVars, histVars>>

\* Frame swap offers the same frame again after other errors, a few times.
WriteTransient ==
    /\ pc = "write"
    /\ Model = "UsbFrameSwap"
    /\ connected
    /\ IF tries < MaxTransientRetries
       THEN /\ tries' = tries + 1
            /\ UNCHANGED <<devVars, retain>>
            /\ Goto("endcheck")
       ELSE /\ Fault
            /\ tries' = 0
            /\ retain' = FALSE
            /\ Disconnect
            /\ Goto("rc_begin")
    /\ UNCHANGED <<ctlVars, srcVars, shutter, handled, passVars, rcVars, histVars>>

\* The backend itself reports Error::Stopped.
WriteStopped ==
    /\ pc = "write"
    /\ Fault
    /\ Goto("stopping")
    /\ UNCHANGED <<connected, phys, ring, caps>>
    /\ UNCHANGED <<ctlVars, srcVars, loopVars, passVars, rcVars, histVars>>

-------------------------------------------------------------------------------
(* drain_and_blank, the graceful end of a stream *)

\* drain_via_estimator: the queue is empty, the time is up or there is none.
DrainEnds ==
    /\ pc = "finish"
    /\ Goto("blank")
    /\ UNCHANGED <<ctlVars, devVars, srcVars, loopVars, passVars, rcVars, histVars>>

DrainPoll ==
    /\ pc = "finish"
    /\ ~stop_requested
    /\ CloseIfDisarmed
    /\ Goto("finish_drain")
    /\ UNCHANGED <<ctlVars, srcVars, handled, retain, tries, passVars, rcVars, histVars>>

DrainControls ==
    /\ pc = "finish_drain"
    /\ ProcessControlMessages
    /\ Goto(IF ControlAction = "None" THEN "finish" ELSE "blank")
    /\ UNCHANGED <<devVars, srcVars, loopVars, passVars, rcVars, histVars>>

\* A BlockingFifo ring is cleared first, so that the blank write finds room.
ResetBeforeBlank ==
    /\ pc = "blank"
    /\ Model = "BlockingFifo"
    /\ \/ ring' = (IF connected THEN <<>> ELSE ring) /\ UNCHANGED faults
       \/ Fault /\ UNCHANGED ring
    /\ Goto("blank_close")
    /\ UNCHANGED <<connected, phys, caps>>
    /\ UNCHANGED <<ctlVars, srcVars, loopVars, passVars, rcVars, histVars>>

\* blank_and_close_shutter: the shutter, then one small blank write.
BlankClose ==
    /\ IF Model = "BlockingFifo" THEN pc = "blank_close" ELSE pc = "blank"
    /\ CloseShutter
    /\ Goto("blank_write")
    /\ UNCHANGED <<ctlVars, srcVars, handled, retain, tries, passVars, rcVars, histVars>>

BlankWrite ==
    /\ pc = "blank_write"
    /\ ~connected \/ ~RingFull \/ ~Blocks
    /\ ring' = IF Model = "BlockingFifo" /\ connected /\ ~RingFull
               THEN Append(ring, [kind |-> "park", gen |-> handled, conn |-> conn])
               ELSE ring
    /\ exit' = "ProducerEnded"
    /\ Goto("end")
    /\ UNCHANGED <<connected, phys, caps, faults, observed, is_armed, pps>>
    /\ UNCHANGED <<ctlVars, srcVars, loopVars, rcVars, histVars>>

AdapterStep ==
    \/ WaitEnds \/ WaitStopped \/ WaitClose \/ WaitDrain
    \/ NetworkFifoPace \/ NetworkFifoProduce
    \/ SpinDrain \/ SpinClose \/ SpinCompare \/ SpinStalled
    \/ UdpTimedPace \/ UdpTimedProduce
    \/ FrameSwapNotReady \/ FrameSwapProduce
    \/ BlockingIdle \/ BlockingProduce
    \/ WriteAccepted \/ WriteWouldBlock \/ BlockingRetry
    \/ WriteDisconnected \/ WriteTransient \/ WriteStopped
    \/ DrainEnds \/ DrainPoll \/ DrainControls
    \/ ResetBeforeBlank \/ BlankClose \/ BlankWrite
===============================================================================
