----------------------------- MODULE SessionDriver -----------------------------
(***************************************************************************)
(* A running session: the driver thread of presentation/driver.rs with its *)
(* output adapter and its reconnect path, the control handles, and the     *)
(* device.  Every load of the desired-state word that the driver makes is  *)
(* a step of its own, so that a handle's call can fall between any two.    *)
(***************************************************************************)
EXTENDS OutputAdapters, Reconnect

-------------------------------------------------------------------------------
(* One pass of run_loop *)

\* The head of the loop: the stop flag, the rate, the link.
LoopTop ==
    /\ pc = "top"
    /\ Goto(CASE stop_requested -> "stopping"
              [] ~stop_requested /\ connected -> "drain"
              [] ~stop_requested /\ ~connected -> "rc_begin")
    /\ pps' = IF stop_requested THEN pps ELSE rate.pps
    /\ wrote' = NoSlice
    /\ UNCHANGED <<ctlVars, devVars, srcVars, loopVars, rcVars, observed, is_armed, exit, blanked, prepared>>

LoopDrain ==
    /\ pc = "drain"
    /\ ProcessControlMessages
    /\ Goto(IF ControlAction = "Stop" THEN "stopping" ELSE "load")
    /\ UNCHANGED <<devVars, srcVars, loopVars, passVars, rcVars, histVars>>

-------------------------------------------------------------------------------
(* handle_shutter_transition *)

\* Faulty variant: the adapter's flag survives the transition.
DiscardCacheOnly ==
    /\ cache' = NoSlice
    /\ blanked' = FALSE
    /\ UNCHANGED <<retain, tries>>

\* discard_cached and on_state_change. The NetworkFifo adapter keeps no flag.
DiscardOutput ==
    /\ cache' = NoSlice
    /\ retain' = FALSE
    /\ tries' = IF Model = "UsbFrameSwap" THEN 0 ELSE tries
    /\ blanked' = FALSE

\* Faulty variant: a disarm and an arm between two passes go unnoticed.
NeedsFallingToDisarm(w) == ~IsArmed(w)

NeedsFalling(w) == IsArmed(handled) \/ ~IsArmed(w)

\* Nothing to reconcile, or an edge from the disarmed state to the armed one.
Load ==
    /\ pc = "load"
    /\ desired = handled \/ ~NeedsFalling(desired)
    /\ observed' = desired
    /\ Goto(IF desired = handled THEN "gate" ELSE "prepare")
    /\ UNCHANGED <<ctlVars, devVars, srcVars, loopVars, is_armed, pps, exit, rcVars, histVars>>

\* The falling cleanup, of any change that starts armed or ends disarmed: the
\* shutter is closed before the output is discarded.
Fall ==
    /\ pc = "load"
    /\ desired # handled
    /\ NeedsFalling(desired)
    /\ observed' = desired
    /\ CommandClose(FALSE)
    /\ DiscardOutput
    /\ handled' = desired
    /\ Goto("recheck")
    /\ UNCHANGED <<ctlVars, blank, src_end, is_armed, pps, exit, rcVars, wrote, prepared>>

\* Faulty variant: no preparation after a falling cleanup.
RecheckUnprepared ==
    /\ pc = "recheck"
    /\ Goto(IF desired # observed THEN "armread" ELSE "gate")
    /\ UNCHANGED <<ctlVars, devVars, srcVars, loopVars, passVars, rcVars, histVars>>

\* An edge during the cleanup is left to a fresh pass.
Recheck ==
    /\ pc = "recheck"
    /\ Goto(CASE desired # observed -> "armread"
              [] desired = observed /\ IsArmed(observed) -> "prepare"
              [] desired = observed /\ ~IsArmed(observed) -> "gate")
    /\ UNCHANGED <<ctlVars, devVars, srcVars, loopVars, passVars, rcVars, histVars>>

\* The rising preparation. Only BlockingFifo backends have a buffer to reset.
Prepare ==
    /\ pc = "prepare"
    /\ DiscardOutput
    /\ blank' = BlankSlices
    /\ ring' = IF Model = "BlockingFifo" /\ connected THEN <<>> ELSE ring
    /\ handled' = observed
    /\ prepared' = observed
    /\ Goto("gate")
    /\ UNCHANGED <<ctlVars, connected, phys, caps, faults, src_end, shutter, passVars, rcVars, wrote>>

\* reset_device_buffer fails: close, whatever is believed, and disconnect.
PrepareFails ==
    /\ pc = "prepare"
    /\ Model = "BlockingFifo"
    /\ DiscardOutput
    /\ blank' = BlankSlices
    /\ Fault
    /\ shutter' \in {"Closed", "Unknown"}
    /\ Disconnect
    /\ Goto("rc_begin")
    /\ UNCHANGED <<ctlVars, src_end, handled, passVars, rcVars, wrote, prepared>>

\* Opening is for the exact generation whose preparation completed.
Gate ==
    /\ pc = "gate"
    /\ IsArmed(observed)
    /\ Goto(IF desired = observed THEN "opening" ELSE "armread")
    /\ UNCHANGED <<ctlVars, devVars, srcVars, loopVars, passVars, rcVars, histVars>>

GateClose ==
    /\ pc = "gate"
    /\ ~IsArmed(observed)
    /\ CommandClose(FALSE)
    /\ Goto("armread")
    /\ UNCHANGED <<ctlVars, srcVars, handled, retain, tries, passVars, rcVars, histVars>>

\* Faulty variant: a failed open is never tried again.
OpeningFromClosedOnly ==
    /\ pc = "opening"
    /\ IF shutter = "Closed"
       THEN \E ok \in BOOLEAN :
               SetShutter(TRUE, ok) /\ shutter' = IF ok THEN "Open" ELSE "Unknown"
       ELSE UNCHANGED <<shutter, devVars>>
    /\ Goto("opencheck")
    /\ UNCHANGED <<ctlVars, srcVars, handled, retain, tries, passVars, rcVars, histVars>>

Opening ==
    /\ pc = "opening"
    /\ IF shutter # "Open"
       THEN \E ok \in BOOLEAN :
               SetShutter(TRUE, ok) /\ shutter' = IF ok THEN "Open" ELSE "Unknown"
       ELSE UNCHANGED <<shutter, devVars>>
    /\ Goto("opencheck")
    /\ UNCHANGED <<ctlVars, srcVars, handled, retain, tries, passVars, rcVars, histVars>>

OpenCheck ==
    /\ pc = "opencheck"
    /\ IF desired # observed THEN CommandClose(TRUE) ELSE UNCHANGED <<shutter, devVars>>
    /\ Goto("armread")
    /\ UNCHANGED <<ctlVars, srcVars, handled, retain, tries, passVars, rcVars, histVars>>

\* The arm bit is read once more after the transition, for the adapter.
ArmRead ==
    /\ pc = "armread"
    /\ is_armed' = IsArmed(desired)
    /\ Goto("step")
    /\ UNCHANGED <<ctlVars, devVars, srcVars, loopVars, observed, pps, exit, rcVars, histVars>>

-------------------------------------------------------------------------------
(* After the adapter's step *)

EndCheck ==
    /\ pc = "endcheck"
    /\ src_end # "stop_error"
    /\ Goto(IF src_end = "ended" THEN "finish" ELSE "top")
    /\ UNCHANGED <<ctlVars, devVars, srcVars, loopVars, passVars, rcVars, histVars>>

\* IdlePolicy::Stop is an abrupt error exit, through the forced close.
EndWithError ==
    /\ pc = "endcheck"
    /\ src_end = "stop_error"
    /\ CommandClose(TRUE)
    /\ exit' = "Err"
    /\ Goto("end")
    /\ UNCHANGED <<ctlVars, srcVars, handled, retain, tries, observed, is_armed, pps, rcVars, histVars>>

\* Faulty variant: a stop that is put off while the shutter state is unknown.
StoppingIfKnown ==
    /\ pc = "stopping"
    /\ IF shutter = "Unknown"
       THEN UNCHANGED <<exit, shutter, devVars>> /\ Goto("top")
       ELSE CommandClose(TRUE) /\ exit' = "Stopped" /\ Goto("end")
    /\ UNCHANGED <<ctlVars, srcVars, handled, retain, tries, observed, is_armed, pps, rcVars, histVars>>

\* stop_and_close_shutter
Stopping ==
    /\ pc = "stopping"
    /\ CommandClose(TRUE)
    /\ exit' = "Stopped"
    /\ Goto("end")
    /\ UNCHANGED <<ctlVars, srcVars, handled, retain, tries, observed, is_armed, pps, rcVars, histVars>>

\* end_session, and the return that drops the receiver.
EndSession ==
    /\ pc = "end"
    /\ IF connected THEN Disconnect /\ UNCHANGED faults ELSE UNCHANGED devVars
    /\ DropReceiver
    /\ Goto("done")
    /\ UNCHANGED <<srcVars, loopVars, passVars, rcVars, histVars>>

LoopStep ==
    \/ LoopTop \/ LoopDrain
    \/ Load \/ Fall \/ Recheck \/ Prepare \/ PrepareFails
    \/ Gate \/ GateClose \/ Opening \/ OpenCheck \/ ArmRead
    \/ EndCheck \/ EndWithError \/ Stopping \/ EndSession

DriverStep == LoopStep \/ AdapterStep \/ ReconnectStep

-------------------------------------------------------------------------------
(* The system *)

restVars == <<devVars, srcVars, loopVars, passVars, rcVars, histVars, pc>>

\* Both ways to start a session connect the backend, close its shutter and
\* check the rate against its range before the driver runs.
Init ==
    \E s \in Setups, c \in CapsSet, p \in Rates :
        /\ setup = s
        /\ InBounds(p, c.min, c.max)
        /\ ControlInit(p, c.min, c.max)
        /\ connected = TRUE /\ phys = FALSE /\ ring = <<>> /\ caps = c /\ faults = 0
        /\ cache = NoSlice /\ blank = 0 /\ src_end = "no"
        /\ shutter = "Closed" /\ handled = InitialState /\ retain = FALSE /\ tries = 0
        /\ pc = "top" /\ observed = InitialState /\ is_armed = FALSE /\ pps = p /\ exit = "none"
        /\ retries = 0 /\ cand = [up |-> FALSE, fits |-> FALSE, caps |-> c] /\ conn = 0
        /\ wrote = NoSlice /\ blanked = FALSE /\ prepared = InitialState

Controls == (\E h \in Handles : HandleStep(h)) /\ UNCHANGED restVars

Finished == pc = "done" /\ UNCHANGED vars

Next == Controls \/ DriverStep \/ DeviceLost \/ DeviceDrains \/ Finished

Spec == Init /\ [][Next]_vars

\* The driver thread is scheduled, and no failure is owed to it; a wait ends at
\* its deadline, and so does the final drain; a device that keeps its link takes a
\* write in the end (to drop one that does not, after WOULDBLOCK_STALL_TIMEOUT, is
\* a fault); a call under way sends its notification; an enabled output plays its
\* ring out. Nothing is assumed of the callers or of the link.
Fairness ==
    /\ WF_vars(DriverStep /\ UNCHANGED faults)
    /\ SF_vars(WaitEnds \/ DrainEnds)
    /\ SF_vars(WriteAccepted)
    /\ WF_vars(DeviceDrains)
    /\ \A h \in Handles : WF_vars(Notify(h) /\ UNCHANGED restVars)

LiveSpec == Spec /\ Fairness

-------------------------------------------------------------------------------
(* Properties *)

PcLabels ==
    {"top", "drain", "load", "recheck", "prepare", "gate", "opening", "opencheck",
     "armread", "step", "wait", "waitdrain", "produce", "write", "spin", "spin_stop",
     "spin_changed", "spin_none", "spin_compare", "blocking_retry", "endcheck",
     "stopping", "finish", "finish_drain", "blank", "blank_close", "blank_write",
     "rc_begin", "rc_check", "rc_backoff", "rc_open", "rc_validate", "rc_connect",
     "rc_close", "rc_revalidate", "rc_bounds", "end", "done"}

\* The types of the variables of the driver loop, its device and its source.
TypeOK ==
    /\ ControlTypeOK
    /\ setup \in Setups
    /\ connected \in BOOLEAN /\ phys \in BOOLEAN
    /\ ring \in Seq(Slice)
    /\ caps \in CapsSet
    /\ faults \in 0..MaxFaults
    /\ cache \in Slice \cup {NoSlice}
    /\ blank \in 0..BlankSlices
    /\ src_end \in {"no", "ended", "stop_error"}
    /\ shutter \in ShutterState
    /\ handled \in 0..MaxWord
    /\ retain \in BOOLEAN
    /\ tries \in 0..MaxTransientRetries
    /\ pc \in PcLabels
    /\ observed \in 0..MaxWord
    /\ is_armed \in BOOLEAN
    /\ pps \in Nat
    /\ exit \in SessionExit \cup {"none", "Err"}
    /\ retries \in Nat
    /\ cand \in [up : BOOLEAN, fits : BOOLEAN, caps : CapsSet]
    /\ conn \in Nat
    /\ wrote \in Slice \cup {NoSlice}
    /\ blanked \in BOOLEAN
    /\ prepared \in 0..MaxWord

\* The driver believes the shutter closed (LoopState::shutter_state) only while
\* the output of the connected device really is disabled: failed commands,
\* closes issued by the waits and replaced backends included.
ShutterTruth == connected /\ shutter = "Closed" => ~phys

\* handle_shutter_transition opens the shutter only for a generation whose
\* rising preparation completed, and keeps it open for no other.
OpenPrepared == shutter = "Open" => IsArmed(handled) /\ prepared = handled

\* No transition of the desired state, and no replacement of the backend, is
\* taken over with the shutter open, also when a disarm and an arm fall
\* between two passes (handle_shutter_transition, the falling cleanup).
HandledWhenShut == handled' # handled => shutter' # "Open"

\* A cached slice was composed under the transition handled last and for the
\* connection in use: nothing composed before an arm, a disarm or a reconnect
\* is left to be written after it (discard_cached, on_reconnect).
CacheCurrent == cache # NoSlice => cache.gen = handled /\ cache.conn = conn

\* Whenever an adapter is to write, or remembers that it owes a write
\* (has_retain, write_pending), the source does hold a slice: the adapter's flag
\* and the source's cache, two pieces of state in two objects, never disagree.
RetainedIsCached == retain \/ pc = "write" => cache # NoSlice

\* A composed slice leaves the cache only when it is written, or with its
\* generation or its connection.
CacheStep ==
    cache # NoSlice =>
        \/ cache' = cache
        \/ /\ cache' = NoSlice
           /\ wrote' = cache \/ handled' # cache.gen \/ conn' # cache.conn \/ ~connected'

\* A slice that was composed and not accepted is offered again unchanged, by the
\* three adapters that retain it: it is given up only with its generation or its
\* connection (ContentSource's cache contract).
VerbatimRetry == Model # "NetworkFifo" => CacheStep

Waiting == {"wait", "spin", "write", "blocking_retry"}

\* A driver that waits has work to wake up to: a desired state it has not
\* handled comes with a message in the channel or with a call that is about to
\* send one (set_desired_armed records first and notifies second).
NoLostWake == pc \in Waiting /\ desired # handled => control_tx # <<>> \/ Pending # {}

\* When the session leaves a connected device, whatever the reason, it has
\* commanded the shutter closed, and only a failed command leaves it lit
\* (stop_and_close_shutter, drain_and_blank, the IdlePolicy::Stop path).
ExitClosed ==
    pc = "end" /\ connected => shutter # "Open" /\ (phys => shutter = "Unknown")

\* Nothing that was queued before the current arm or on an earlier connection
\* is left in a BlockingFifo device's ring when its output is enabled
\* (reset_device_buffer on the rising edge).
NoStaleReplay ==
    connected /\ shutter = "Open" =>
        \A i \in 1..Len(ring) : ring[i].gen = handled /\ ring[i].conn = conn

\* Every write is made at a rate inside the range of the device it goes to,
\* although set_pps, reconnects to a device with another range and the rates
\* cached for a pass interleave (set_pps, update_pps_bounds).
RateInCaps ==
    /\ InBounds(rate.pps, rate.min, rate.max)
    /\ pc = "write" => InBounds(pps, caps.min, caps.max)

\* After a completed preparation, the first armed slice the device accepts is a
\* startup-blank one (arm_startup_blank). The window shrinks when a slice is
\* composed, so this needs the retry to be verbatim.
BlankFirst ==
    Model # "NetworkFifo" /\ BlankSlices > 0 /\ wrote.kind = "lit" /\ IsArmed(prepared) /\ wrote.gen = prepared => blanked

\* A disarm darkens a connected device unless it is overtaken by another arm or
\* by the end of the session (the waits and the falling cleanup close).
DisarmDarkens ==
    ~IsArmed(desired) ~> (~phys \/ ~connected \/ IsArmed(desired) \/ pc = "done")

\* A write that can block for ever: nothing interrupts it but room in the ring.
MayWedge == Model = "BlockingFifo" /\ Blocks

\* A stop request ends run(), out of every wait, retry loop and reconnect, where
\* writes return (SessionControl::stop).
StopReturns == (stop_requested /\ ~MayWedge) ~> pc = "done"

\* The same of every adapter, as the comment on SessionControl::stop puts it.
StopAlwaysReturns == stop_requested ~> pc = "done"

\* An arm that stands is carried through to an open command, also across lost
\* connections and failed commands, unless the session ends (handled_state
\* restarts at zero on every reconnect). An unlimited policy may wait for ever.
ArmOpens ==
    (IsArmed(desired) /\ ~MayWedge /\ RetryLimit # NoLimit)
        ~> (shutter = "Open" \/ ~IsArmed(desired) \/ pc = "done")

\* What an arm promises of the light: the shutter opens only for a prepared
\* generation, over a ring that holds nothing older, and the first slice that is
\* accepted is a blank one, whatever was armed, disarmed or lost in between; what is
\* cached for a retry was composed since.
FreshStart == OpenPrepared /\ NoStaleReplay /\ BlankFirst /\ CacheCurrent

\* What the loop keeps at every step: its types, rates that the device takes, and a
\* device that is left dark unless a command failed.
SessionSound == TypeOK /\ RateInCaps /\ ExitClosed

\* Output of one generation never meets the next: a transition is taken over only
\* with the shutter shut, and a slice that was composed is offered again unchanged
\* until it is written or its generation or connection is over.
TransitionsClean == [][HandledWhenShut /\ VerbatimRetry]_vars
================================================================================
