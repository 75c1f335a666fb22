------------------------------- MODULE Lifecycle -------------------------------
(***************************************************************************)
(* Who owns a backend, from the opened Dac to the end of its last session  *)
(* (stream/mod.rs, presentation/session.rs, backend.rs, config.rs).        *)
(*                                                                         *)
(*   "dac"      a Dac holds it: start_stream or start_frame_session may    *)
(*              consume it, or the Dac is dropped                          *)
(*   "connect", "close", "check", "session", "spawn"                       *)
(*              the calls of a start, each of which may fail               *)
(*   "stream"   a Stream holds it: run, stop, into_dac or drop             *)
(*   "thread"   FrameSession::run_loop before the driver                   *)
(*   "running"  the driver holds it (SessionDriver has its detail)         *)
(*   "ended"    nobody holds it                                            *)
(*                                                                         *)
(* A step is a call on the backend; the device may be lost between any two *)
(* of them.  A device is known by what scanning said of it (`scanned`) and *)
(* by what it says once connected (`live`): its output model and its rates.*)
(***************************************************************************)
EXTENDS Naturals

CONSTANTS Kit,           \* the devices: [kind, swap, scanned, live, lights, once]
          AskedRates,    \* rates a caller asks for
          MaxLosses, MaxStarts

\* The LaserCube USB is the one backend whose connect enables output, and its connect
\* consumes the handle scanning gave it.
ASSUME KitAssumption == \A u \in Kit : u.lights => u.once

VARIABLES
    unit,           \* the device behind the backend
    wire,           \* [linked, held, output, live, used] the transport and the light
    failed,         \* the last close failed, or the link went, with the light still on
    abandoned,      \* what was left of transports that nobody holds: [kind, lost, started]
    owner,          \* see above
    ask,            \* what the start was asked: [api, pps, target_buffer, reconnect]
    target,         \* who holds the reconnect target: "none", "dac", "stream" or "policy"
    given,          \* a target was given to the Dac
    session,        \* [caps, cushion, adapter, shut, stop_requested] what the session believes
    connected,      \* FrameSessionMetrics.connected
    losses, starts

lifeVars == <<unit, wire, failed, abandoned, owner, ask, target, given, session, connected, losses, starts>>

-------------------------------------------------------------------------------
NoAsk == [api |-> "none", pps |-> 0, target_buffer |-> 0, reconnect |-> FALSE]

\* linked: is_connected; held: the backend has a thread, a socket or a handle, of a live link or a dead one
Wire(linked, held, output, live, used) ==
    [linked |-> linked, held |-> held, output |-> output, live |-> live, used |-> used]

Session(c, cushion, adapter, shut, stop_requested) ==
    [caps |-> c, cushion |-> cushion, adapter |-> adapter, shut |-> shut,
     stop_requested |-> stop_requested]

NoSession == Session([model |-> "none", min |-> 0, max |-> 0], 0, "none", TRUE, FALSE)

\* DacBackend::caps: scanning's until a connect has asked the device
caps == IF wire.live THEN unit.live ELSE unit.scanned

IsSwap(c) == c.model = "UsbFrameSwap"

\* BackendKind::validate_output_model
ModelAgrees(u, c) == IsSwap(c) = u.swap

\* Dac::validate_pps
RateFits(c, pps) == c.min <= pps /\ pps <= c.max

\* StreamConfig::default_target_buffer_for, in milliseconds
DEFAULT_TARGET_BUFFER == 20
DefaultTargetBuffer(kind, model) ==
    CASE kind = "LaserCubeNetwork" -> 120
      [] kind = "EtherDream" -> 80
      [] kind # "Custom" /\ model # "UsbFrameSwap"
            /\ kind \notin {"LaserCubeNetwork", "EtherDream"} -> 50
      [] OTHER -> DEFAULT_TARGET_BUFFER

\* apply_backend_buffer_defaults, target_buffer_for_backend: a buffer nobody chose is the kind's.
TargetBuffer(chosen, kind, model) ==
    IF chosen = DEFAULT_TARGET_BUFFER THEN DefaultTargetBuffer(kind, model) ELSE chosen

-------------------------------------------------------------------------------
(* Calls on the backend *)

\* HeliosBackend::drop leaks an open handle, and OscilloscopeBackend has no Drop to end its thread;
\* the other backends release their transport when they are dropped.
KeepsOnDrop == {"Helios", "Oscilloscope"}

\* What is left if the backend lets go of its transport as it is
LeftBehind ==
    IF wire.held /\ unit.kind \in KeepsOnDrop
    THEN {[kind |-> unit.kind, lost |-> ~wire.linked, started |-> ask.api # "none"]}
    ELSE {}

\* The light after a close: one that fails may have reached the device, over a lost link none does.
Dimmed(ok) == IF ~wire.linked THEN {wire.output} ELSE IF ok THEN {FALSE} ELSE {FALSE, wire.output}

\* set_shutter(false): on a lost link it may answer either way.
SetShutterClosed(ok) ==
    \E lit \in Dimmed(ok) :
        /\ wire' = [wire EXCEPT !.output = lit]
        /\ failed' = lit

\* disconnect: a Helios that is known to be gone keeps its handle for good.
Disconnected(lit) ==
    /\ wire' = [wire EXCEPT !.linked = FALSE, !.held = FALSE, !.output = lit]
    /\ \/ UNCHANGED abandoned
       \/ unit.kind = "Helios" /\ ~wire.linked /\ abandoned' = abandoned \cup LeftBehind

\* close_and_disconnect: both are tried, neither result is looked at.
CloseAndDisconnect ==
    \E ok \in BOOLEAN : \E lit \in Dimmed(ok) : Disconnected(lit) /\ failed' = lit

\* The backend is dropped as it is.
Dropped ==
    /\ wire' = [wire EXCEPT !.linked = FALSE, !.held = FALSE]
    /\ abandoned' = abandoned \cup LeftBehind
    /\ UNCHANGED failed

\* BackendKind::connect, the second check of the output model included.  A transport that is held
\* is replaced, but for IDN, whose connect is content with a runtime that is dead.
Connected(u, w) == Wire(ModelAgrees(u, u.live), TRUE, w.output \/ u.lights, TRUE, TRUE)
CanConnect == ~(unit.once /\ wire.used)
StaleRuntime == unit.kind = "Idn" /\ wire.held

Relinked ==
    /\ ~StaleRuntime /\ CanConnect /\ ModelAgrees(unit, unit.live)
    /\ wire' = Connected(unit, wire)
    /\ abandoned' = abandoned \cup LeftBehind
    /\ UNCHANGED failed

-------------------------------------------------------------------------------
(* Starting *)

GiveUp == /\ CloseAndDisconnect
          /\ owner' = "ended"

\* A connect fails and the backend is given up.  The LaserCube USB may have lit the device by then;
\* the stream that it drops is told to stop, which may fail as well.
ConnectFails ==
    \E enabled, stopped \in BOOLEAN :
        LET lit == wire.output \/ (enabled /\ ~stopped)
        IN /\ enabled => unit.lights /\ CanConnect
           /\ wire' = [wire EXCEPT !.held = FALSE, !.output = lit, !.used = TRUE]
           /\ failed' = (failed \/ ~stopped)
           /\ \/ UNCHANGED abandoned
              \/ unit.kind = "Helios" /\ abandoned' = abandoned \cup LeftBehind
           /\ owner' = "ended"

WithDiscoveryFactory ==
    /\ owner = "dac"
    /\ target' = "dac"
    /\ given' = TRUE
    /\ UNCHANGED <<unit, wire, failed, abandoned, owner, ask, session, connected, losses, starts>>

\* start_stream and start_frame_session, up to the connection
Start(api, pps, buffer, reconnect) ==
    /\ owner = "dac" /\ starts < MaxStarts
    /\ starts' = starts + 1
    /\ ask' = [api |-> api, pps |-> pps, target_buffer |-> buffer, reconnect |-> reconnect]
    /\ IF ~ModelAgrees(unit, caps) \/ (api = "stream" /\ unit.swap)
       THEN GiveUp
       ELSE owner' = "connect" /\ UNCHANGED <<wire, failed, abandoned>>
    /\ UNCHANGED <<unit, target, given, session, connected, losses>>

ConnectThenOrEnd(next) ==
    \/ (wire.linked \/ StaleRuntime) /\ owner' = next /\ UNCHANGED <<wire, failed, abandoned>>
    \/ ~wire.linked /\ Relinked /\ owner' = next
    \/ ~wire.linked /\ ~StaleRuntime /\ ConnectFails

Connect ==
    /\ owner = "connect"
    /\ ConnectThenOrEnd("close")
    /\ UNCHANGED <<unit, ask, target, given, session, connected, losses, starts>>

Close ==
    /\ owner = "close"
    /\ \/ SetShutterClosed(TRUE) /\ owner' = "check" /\ UNCHANGED abandoned
       \/ GiveUp
    /\ UNCHANGED <<unit, ask, target, given, session, connected, losses, starts>>

\* The connected capabilities are published and judged, then the reconnect target is handed on.
Check ==
    /\ owner = "check"
    /\ IF ~RateFits(caps, ask.pps) \/ (ask.reconnect /\ target = "none")
       THEN GiveUp /\ UNCHANGED <<target, session>>
       ELSE /\ owner' = ask.api
            /\ target' = CASE ask.reconnect -> "policy"
                           [] ~ask.reconnect /\ ask.api = "stream" /\ target # "none" -> "stream"
                           [] OTHER -> "none"
            /\ session' = Session(caps, TargetBuffer(ask.target_buffer, unit.kind, caps.model),
                                 "none", TRUE, FALSE)
            /\ UNCHANGED <<wire, failed, abandoned>>
    /\ UNCHANGED <<unit, ask, given, connected, losses, starts>>

-------------------------------------------------------------------------------
(* A stream in the caller's hands *)

\* Stream::stop: blank, stop and close the session with the device.
StreamStop ==
    /\ owner = "stream"
    /\ CloseAndDisconnect
    /\ session' = Session(session.caps, session.cushion, session.adapter, session.shut, TRUE)
    /\ UNCHANGED <<unit, owner, ask, target, given, connected, losses, starts>>

\* A faulty variant: a target that moved into the reconnect policy is dropped with it.
IntoDacForgets ==
    /\ owner = "stream"
    /\ \E ok \in BOOLEAN : SetShutterClosed(ok)
    /\ owner' = "dac"
    /\ target' = IF target = "stream" THEN "dac" ELSE "none"
    /\ session' = NoSession
    /\ ask' = NoAsk
    /\ UNCHANGED <<unit, abandoned, given, connected, losses, starts>>

\* Stream::into_dac keeps the connection and hands back the target, wherever it is.
IntoDac ==
    /\ owner = "stream"
    /\ \E ok \in BOOLEAN : SetShutterClosed(ok)
    /\ owner' = "dac"
    /\ target' = IF target = "none" THEN "none" ELSE "dac"
    /\ session' = NoSession
    /\ ask' = NoAsk
    /\ UNCHANGED <<unit, abandoned, given, connected, losses, starts>>

\* Drop for Stream is stop; a Dac is simply dropped.
DropHeld ==
    /\ \/ owner = "stream" /\ CloseAndDisconnect
       \/ owner = "dac" /\ Dropped
    /\ owner' = "ended"
    /\ UNCHANGED <<unit, ask, target, given, session, connected, losses, starts>>

\* Stream::run hands the backend to the driver on the caller's thread.
Run ==
    /\ owner = "stream"
    /\ IF unit.swap
       THEN GiveUp /\ UNCHANGED <<session, connected>>
       ELSE /\ owner' = "running"
            /\ session' = Session(session.caps, session.cushion, caps.model, TRUE,
                                 session.stop_requested)
            /\ connected' = TRUE
            /\ UNCHANGED <<wire, failed, abandoned>>
    /\ UNCHANGED <<unit, ask, target, given, losses, starts>>

-------------------------------------------------------------------------------
(* FrameSession::start *)

SessionConnect ==
    /\ owner = "frame"
    /\ IF ModelAgrees(unit, caps)
       THEN IF wire.linked THEN owner' = "spawn" /\ UNCHANGED <<wire, failed, abandoned>>
                           ELSE ConnectThenOrEnd("reclose")
       ELSE GiveUp
    /\ UNCHANGED <<unit, ask, target, given, session, connected, losses, starts>>

SessionClose ==
    /\ owner = "reclose"
    /\ \/ SetShutterClosed(TRUE) /\ owner' = "spawn" /\ UNCHANGED abandoned
       \/ GiveUp
    /\ UNCHANGED <<unit, ask, target, given, session, connected, losses, starts>>

\* The thread takes the backend out of the guard, or the guard tears it down.
Spawn ==
    /\ owner = "spawn"
    /\ \/ owner' = "thread" /\ connected' = wire.linked /\ UNCHANGED <<wire, failed, abandoned>>
       \/ GiveUp /\ UNCHANGED connected
    /\ UNCHANGED <<unit, ask, target, given, session, losses, starts>>

\* run_loop connects a backend that was lost since; the error path drops it as it is.
ThreadStart ==
    /\ owner = "thread"
    /\ \/ /\ \/ (wire.linked \/ StaleRuntime) /\ UNCHANGED <<wire, failed, abandoned>>
             \/ ~wire.linked /\ Relinked
          /\ owner' = "running"
          /\ session' = Session(session.caps,
                                 TargetBuffer(DEFAULT_TARGET_BUFFER, unit.kind, unit.live.model),
                                 unit.live.model, TRUE, session.stop_requested)
          /\ UNCHANGED connected
       \/ /\ ~wire.linked /\ ~StaleRuntime
          /\ Dropped
          /\ owner' = "ended" /\ connected' = FALSE
          /\ UNCHANGED session
    /\ UNCHANGED <<unit, ask, target, given, losses, starts>>

-------------------------------------------------------------------------------
(* The driver, as far as ownership goes *)

\* The arm and disarm edges of handle_shutter_transition: a command that fails may have reached the
\* device, and the driver no longer takes it for closed.
DriveShutter(open) ==
    /\ owner = "running" /\ wire.linked /\ ~session.stop_requested
    /\ ~open => ~session.shut
    /\ \E ok \in BOOLEAN : \E lit \in IF ok THEN {open} ELSE {open, wire.output} :
        /\ wire' = [wire EXCEPT !.output = lit]
        /\ failed' = (lit /\ ~open)
        /\ session' = Session(session.caps, session.cushion, session.adapter, ~open /\ ok,
                               session.stop_requested)
    /\ UNCHANGED <<unit, abandoned, owner, ask, target, given, connected, losses, starts>>

\* A device that does not take what is written, or will not be reset, is disconnected; of the
\* backends only some put the light out when they are.
DropLink ==
    /\ owner = "running" /\ wire.linked /\ ~session.stop_requested
    /\ \E lit \in {FALSE, wire.output} : Disconnected(lit) /\ failed' = lit
    /\ UNCHANGED <<unit, owner, ask, target, given, session, connected, losses, starts>>

\* The validators of Stream::run and of a frame session, applied to a replacement
Compatible(u, c) ==
    /\ IsSwap(c) = IsSwap(session.caps)
    /\ c.model = session.adapter
    /\ RateFits(c, ask.pps)

\* reconnect: the replacement is linked and closed, and the old backend dropped as it is.
Replace(u) ==
    /\ owner = "running" /\ ~wire.linked /\ target = "policy" /\ ~session.stop_requested
    /\ Compatible(u, u.scanned) /\ Compatible(u, u.live) /\ ModelAgrees(u, u.live)
    /\ unit' = u
    /\ wire' = Wire(TRUE, TRUE, FALSE, TRUE, TRUE)
    /\ abandoned' = abandoned \cup LeftBehind
    /\ failed' = FALSE
    /\ connected' = TRUE
    /\ session' = Session(u.live, session.cushion, session.adapter, TRUE, session.stop_requested)
    /\ UNCHANGED <<owner, ask, target, given, losses, starts>>

\* driver::run's end.  A stop forces the close; end_session leaves a lost device alone, with no
\* policy, a policy that gave up or a refused replacement.  MetricsDisconnectGuard lowers the gauge.
Finish ==
    /\ owner = "running"
    /\ \/ wire.linked /\ CloseAndDisconnect
       \/ ~wire.linked /\ Dropped
    /\ owner' = "ended"
    /\ connected' = FALSE
    /\ session' = NoSession
    /\ UNCHANGED <<unit, ask, target, given, losses, starts>>

\* The link is lost: the device may have lost its power too, or stay lit where nobody can reach it.
Lose ==
    /\ wire.linked /\ losses < MaxLosses
    /\ losses' = losses + 1
    /\ \E lit \in {FALSE, wire.output} :
        /\ wire' = [wire EXCEPT !.linked = FALSE, !.output = lit]
        /\ failed' = lit
    /\ UNCHANGED <<unit, abandoned, owner, ask, target, given, session, connected, starts>>

-------------------------------------------------------------------------------
\* A discoverer may hand back a backend that is already connected.
LifeInit(active) ==
    /\ unit \in Kit
    /\ wire \in {Wire(b, b, FALSE, b, b) :
                    b \in IF ModelAgrees(unit, unit.live) /\ ~unit.lights THEN BOOLEAN ELSE {FALSE}}
    /\ failed = FALSE /\ abandoned = {}
    /\ owner = IF active THEN "dac" ELSE "ended"
    /\ ask = NoAsk
    /\ target \in {"none", "dac"}
    /\ given = (target = "dac")
    /\ session = NoSession
    /\ connected = FALSE
    /\ losses = 0 /\ starts = 0
    /\ ~active => unit = (CHOOSE u \in Kit : TRUE) /\ target = "none" /\ ~wire.linked

LifeOver == owner = "ended"

LifeNext ==
    \/ WithDiscoveryFactory
    \/ \E pps \in AskedRates, r \in BOOLEAN :
        \/ Start("frame", pps, DEFAULT_TARGET_BUFFER, r)
        \/ \E buffer \in {DEFAULT_TARGET_BUFFER, 200} : Start("stream", pps, buffer, r)
    \/ Connect \/ Close \/ Check
    \/ StreamStop \/ IntoDac \/ DropHeld \/ Run
    \/ SessionConnect \/ SessionClose \/ Spawn \/ ThreadStart
    \/ \E open \in BOOLEAN : DriveShutter(open)
    \/ DropLink
    \/ \E u \in Kit : Replace(u)
    \/ Finish
    \/ Lose

-------------------------------------------------------------------------------
(* Properties *)

\* A device that may be lit without anybody having asked for it is always on its way to being
\* closed: whatever order of opening, starting, losing, stopping and handing back, and wherever a
\* connect fails, a device within reach is lit only while the driver believes the shutter may be
\* open, between a connect and the close that follows it, or in a Dac whose last close failed; one out
\* of reach, only if its close failed or its link was lost while it was lit.
LitOnlyWhenAsked ==
    wire.output => IF wire.linked
                   THEN \/ owner \in {"close", "reclose"}
                        \/ owner = "running" /\ ~session.shut
                        \/ owner \in {"dac", "connect"} /\ failed
                   ELSE failed

\* A session runs with the device it has: its adapter is for the connected output model, its
\* rate lies within the connected capabilities, and its buffer is the connected kind's.
SessionFits ==
    owner = "running" =>
        /\ session.caps = unit.live /\ session.adapter = unit.live.model
        /\ RateFits(unit.live, ask.pps)
        /\ ask.api = "stream" => ~unit.swap
        /\ \/ ask.reconnect
           \/ session.cushion = TargetBuffer(ask.target_buffer, unit.kind, unit.live.model)

\* A reconnect target once given is never lost while the caller can still start a session, and
\* a session that asked to reconnect has it.
TargetKept ==
    /\ owner \in {"dac", "stream"} /\ given => target # "none"
    /\ owner = "running" /\ ask.reconnect => target = "policy"

\* A handle or a thread is left behind only by a Helios or an oscilloscope, and only of a link that was
\* lost or of a Dac that was dropped with no session under way.
OnlyLostLeft == \A left \in abandoned : left.kind \in KeepsOnDrop /\ (left.lost \/ ~left.started)

\* Nobody's backend is dark unless its close failed or it was lost while it was lit, and the gauge of
\* its session says so.
EndsReleased == owner = "ended" => ~connected /\ (wire.output => failed)

Owned == LitOnlyWhenAsked /\ SessionFits /\ TargetKept /\ EndsReleased /\ OnlyLostLeft

===============================================================================
