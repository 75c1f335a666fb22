----------------------------- MODULE SessionState -----------------------------
(***************************************************************************)
(* The state of one driver thread (presentation/driver.rs) beside the      *)
(* shared control state: the device behind the backend, the content        *)
(* source with its one-slice cache, and the locals of the loop.  Also the  *)
(* operations on them that several parts of the driver share.              *)
(*                                                                         *)
(* Points are not modelled one by one.  A slice (a chunk or a frame) is a  *)
(* record of what the lifecycle rules tell apart:                          *)
(*   kind  "park"   composed while disarmed                                *)
(*         "blank"  composed armed, inside the startup-blank window        *)
(*         "lit"    composed armed, past that window                       *)
(*   gen   the desired-state word whose transition was handled last        *)
(*   conn  the connection it was composed for                              *)
(***************************************************************************)
EXTENDS SessionControl

CONSTANTS
    Setups,       \* the ways a session may be set up: records of Setup
    BlankSlices,  \* length of the startup-blank window, in slices
    RingSlices,   \* what a BlockingFifo device ring holds, in slices
    CapsSet,      \* the rate ranges a device may report: records [min, max]
    MaxFaults     \* bound: failures of the device and of the link, in total

OutputModels == {"NetworkFifo", "UdpTimed", "UsbFrameSwap", "BlockingFifo"}
NoLimit == -1

\* What is fixed when a session starts:
\*   model      the backend's OutputModel, which selects the adapter
\*   source     "stream" (ChunkProducer) or "frame" (SlicePipeline)
\*   idle_stop  the stream's idle policy is IdlePolicy::Stop
\*   blocks     a BlockingFifo write blocks rather than return WouldBlock
\*   policy     there is a reconnect policy
\*   limit      its max_retries, NoLimit for None
Setup ==
    [model : OutputModels, source : {"stream", "frame"}, idle_stop : BOOLEAN,
     blocks : BOOLEAN, policy : BOOLEAN, limit : Nat \cup {NoLimit}]

ASSUME StateAssumption ==
    /\ Setups # {} /\ Setups \subseteq Setup
    /\ \A s \in Setups : s.model = "UsbFrameSwap" => s.source = "frame"
    /\ BlankSlices \in Nat
    /\ RingSlices \in Nat \ {0}
    /\ CapsSet # {} /\ CapsSet \subseteq [min : Nat, max : Nat]
    /\ MaxFaults \in Nat

VARIABLES
    setup,      \* how this session was set up
    \* the device, external to the driver
    connected,  \* DacBackend::is_connected
    phys,       \* the physical output is enabled
    ring,       \* slices in a BlockingFifo device's ring, oldest first
    caps,       \* the connected backend's rate range
    faults,     \* failures so far
    \* the content source
    cache,      \* the composed slice that is not yet written, or NoSlice
    blank,      \* startup_blank_remaining, in slices
    src_end,    \* "no", "ended" (is_ended) or "stop_error" (IdlePolicy::Stop)
    \* LoopState and the adapter
    shutter,    \* LoopState::shutter_state
    handled,    \* LoopState::handled_state
    retain,     \* has_retain / write_pending of the adapter
    tries,      \* transient_retries of the frame-swap adapter
    \* the locals of one pass of run_loop
    pc,         \* where the thread is
    observed,   \* the snapshot of the desired state that the pass compares with
    is_armed,   \* the arm bit the pass hands to the adapter
    pps,        \* the rate the pass hands to the adapter
    exit,       \* what run() returns
    \* the locals of reconnect_backend_with_retry
    retries,    \* failed attempts
    cand,       \* the candidate backend: [up, fits, caps]
    conn,       \* connections accepted so far
    \* history
    wrote,      \* the slice the device accepted in this pass, or NoSlice
    blanked,    \* a startup-blank slice was accepted since the last transition
    prepared    \* the armed word whose rising preparation completed last, on
                \* this connection

devVars == <<connected, phys, ring, caps, faults>>
srcVars == <<cache, blank, src_end>>
loopVars == <<shutter, handled, retain, tries>>
passVars == <<observed, is_armed, pps, exit>>
rcVars == <<setup, retries, cand, conn>>
histVars == <<wrote, blanked, prepared>>
vars == <<ctlVars, devVars, srcVars, loopVars, passVars, rcVars, histVars, pc>>

Model == setup.model
Source == setup.source
IdleStop == setup.idle_stop
Blocks == setup.blocks
HasPolicy == setup.policy
RetryLimit == setup.limit

NoSlice == [kind |-> "none", gen |-> 0, conn |-> 0]
Slice == [kind : {"park", "blank", "lit"}, gen : Nat, conn : Nat]
ShutterState == {"Open", "Closed", "Unknown"}
SessionExit == {"Stopped", "ProducerEnded", "Disconnected", "IncompatibleDevice"}

Goto(l) == pc' = l

-------------------------------------------------------------------------------
(* The device. Its replies are modelled from how the backends use them. *)

Fault == faults < MaxFaults /\ faults' = faults + 1

\* set_shutter. A failed command proves nothing about the output, and may have
\* lost the link. Without a link the backends reply either way and do nothing.
SetShutter(open, ok) ==
    /\ UNCHANGED <<ring, caps>>
    /\ \/ /\ ok
          /\ phys' = IF connected THEN open ELSE phys
          /\ UNCHANGED <<connected, faults>>
       \/ /\ ~ok
          /\ Fault
          /\ phys' \in IF connected THEN {phys, open} ELSE {phys}
          /\ connected' \in {connected, FALSE}

\* disconnect. Some backends disable the output first, others only drop the link.
Disconnect ==
    /\ connected' = FALSE
    /\ phys' \in {phys, FALSE}
    /\ UNCHANGED <<ring, caps>>

\* The link to the device fails while the driver is doing something else.
DeviceLost ==
    /\ pc # "done"
    /\ connected
    /\ Fault
    /\ Disconnect
    /\ UNCHANGED <<ctlVars, srcVars, loopVars, passVars, rcVars, histVars, pc>>

\* A BlockingFifo ring plays out only while the output is enabled.
DeviceDrains ==
    /\ phys
    /\ ring # <<>>
    /\ ring' = Tail(ring)
    /\ UNCHANGED <<connected, phys, caps, faults>>
    /\ UNCHANGED <<ctlVars, srcVars, loopVars, passVars, rcVars, histVars, pc>>

-------------------------------------------------------------------------------
(* The content source. *)

SliceKind(armed) ==
    IF ~armed THEN "park" ELSE IF blank > 0 THEN "blank" ELSE "lit"

\* produce_chunk / produce_frame compose a slice and cache it, whatever the
\* cache held. The startup-blank window shrinks here, not when it is written.
Compose(armed) ==
    /\ cache' = [kind |-> SliceKind(armed), gen |-> handled, conn |-> conn]
    /\ blank' = IF armed /\ blank > 0 THEN blank - 1 ELSE blank

\* A slice is composed; with IdlePolicy::Stop it can be the partial slice after
\* which the starved producer ends the stream.
ProduceSlice(armed) ==
    /\ Compose(armed)
    /\ \/ UNCHANGED src_end
       \/ Source = "stream" /\ IdleStop /\ armed /\ src_end' = "stop_error"

\* Nothing is composed: no frame was submitted yet, the producer returned End,
\* or it starved under IdlePolicy::Stop.
ProduceEmpty(armed) ==
    /\ cache' = NoSlice
    /\ UNCHANGED blank
    /\ \/ Source = "frame" /\ UNCHANGED src_end
       \/ Source = "stream" /\ src_end' = "ended"
       \/ Source = "stream" /\ IdleStop /\ armed /\ src_end' = "stop_error"

-------------------------------------------------------------------------------
(* Closing the shutter. *)

\* Faulty variant: a close whose failure is ignored.
CloseShutterAssumed ==
    \E ok \in BOOLEAN : SetShutter(FALSE, ok) /\ shutter' = "Closed"

CloseShutter ==
    \E ok \in BOOLEAN :
        /\ SetShutter(FALSE, ok)
        /\ shutter' = IF ok THEN "Closed" ELSE "Unknown"

\* Faulty variant: a close only when forced.
CommandCloseForcedOnly(force) ==
    IF force THEN CloseShutter ELSE UNCHANGED <<shutter, devVars>>

\* command_close
CommandClose(force) ==
    IF force \/ shutter # "Closed" THEN CloseShutter ELSE UNCHANGED <<shutter, devVars>>

\* close_if_disarmed: waits may close the shutter, never open it.
CloseIfDisarmed ==
    IF ~IsArmed(desired) /\ shutter # "Closed" THEN CloseShutter
    ELSE UNCHANGED <<shutter, devVars>>
===============================================================================
