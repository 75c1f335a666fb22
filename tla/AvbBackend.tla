------------------------------ MODULE AvbBackend ------------------------------
(***************************************************************************)
(* protocols/avb: the audio host and the backends that use it.             *)
(***************************************************************************)
EXTENDS Naturals, FiniteSets, AudioSink

-----------------------------------------------------------------------------
(***************************************************************************)
(* The one audio host of the process (protocols/avb/host.rs).  Every call  *)
(* into the driver is made in a session, which one thread has at a time;   *)
(* a thread that waits too long goes on without: callers fail, but a       *)
(* teardown tears down all the same.                                       *)
(*                                                                         *)
(* There is no clock.  Driver calls are short against the timeouts of five *)
(* seconds, unless one hangs: timeouts are possible once one has.          *)
(***************************************************************************)

CONSTANTS Threads, Nobody

ASSUME HostAssumption == Nobody \notin Threads

VARIABLES
    holder,        \* busy: the thread that has the session, or Nobody
    live_streams,
    hung,          \* threads whose driver call does not return
    hangs          \* driver calls that have hung so far

hostVars == <<holder, live_streams, hung, hangs>>

HostTypeOK ==
    /\ holder \in Threads \cup {Nobody}
    /\ live_streams \in 0..Cardinality(Threads)
    /\ hung \subseteq Threads /\ hangs \in Nat

HostInit == holder = Nobody /\ live_streams = 0 /\ hung = {} /\ hangs = 0

\* session()
Session(t) == holder = Nobody /\ holder' = t
SessionTimesOut(t) == holder \notin {Nobody, t} /\ hangs > 0

\* The session is dropped, if the thread has one.
Release(t) == holder' = IF holder = t THEN Nobody ELSE holder

\* Faulty variant: every host is taken to have room for one stream.
SlotFreeOne(single) == live_streams = 0

\* ensure_stream_slot_free
SlotFree(single) == single => live_streams = 0

\* SerializedStream: it counts from the session that opened it until it is gone.
StreamOpened == live_streams' = live_streams + 1
StreamDropped == live_streams' = live_streams - 1

\* What a driver may do to a thread that is inside it.
Hang(t) ==
    /\ hung' = hung \cup {t} /\ hangs' = hangs + 1
    /\ UNCHANGED <<holder, live_streams>>

Unhang(t) ==
    /\ t \in hung /\ hung' = hung \ {t}
    /\ UNCHANGED <<holder, live_streams, hangs>>

-----------------------------------------------------------------------------
(***************************************************************************)
(* An AVB sound card as a DAC (protocols/avb): the pipeline thread that    *)
(* scans for the device, connects, writes and lets go of it, the worker    *)
(* thread of each connection, which owns the audio stream, the audio       *)
(* callback, and another thread that scans.  They share the host and, for  *)
(* each connection, the ring and three flags.                              *)
(*                                                                         *)
(* A connection is a backend object with its runtime and its worker.  Every*)
(* attempt makes a new one, and the last one stays with the driver until   *)
(* the next is accepted (reconnect.rs replaces it then).                   *)
(***************************************************************************)

CONSTANTS
    Units,      \* sound cards of the same name, in the order they are listed
    CbFrames,   \* frames of a callback's buffer
    Setups      \* what a behaviour may meet: see MCAudio

ASSUME AvbAssumption ==
    /\ Units \subseteq Nat \ {0} /\ CbFrames \in Nat \ {0}
    /\ 0 \notin Conns /\ Conns \subseteq Threads

\* Pipe is the pipeline thread, Scanner the other one, the rest are workers.
Pipe == 0
Scanner == Cardinality(Conns) + 1
NoConn == 0
NoUnit == 0

VARIABLES
    setup,      \* the environment: what may happen, and how often
    mode,       \* what the driver is at: "lost" (looking for the device), "run", ...
    pipe,       \* where the pipeline thread is inside a call
    cur,        \* the connection the driver has
    cand,       \* the one that is being made
    w,          \* [Conns -> where the worker is]
    stop_tx,    \* [Conns -> "open", "sent" or "gone"]
    init_rx,    \* [Conns -> "pending", "ok", "err" or "ignored"]
    shutter_open, stream_failed,    \* [Conns -> BOOLEAN], shared with the callback
    cb,         \* [Conns -> frames the callback still has to fill, and the shutter it saw]
    unit,       \* [Conns -> the unit a stream plays on]
    dead,       \* [Conns -> BOOLEAN]: the unit of the stream was unplugged
    plugged, unplugs,
    scan_count, \* scan_duplicate_count of the object that is being connected
    other       \* where the other scanning thread is

connVars == <<w, stop_tx, init_rx, shutter_open, stream_failed, cb, unit, dead>>
pipeVars == <<mode, pipe, cur, cand, scan_count>>
plugVars == <<plugged, unplugs>>
avbVars == <<setup, pipeVars, connVars, plugVars, other, hostVars, sinkVars>>

WorkerAt == {"none", "open_wait", "open", "run", "drop_wait", "drop"}

AvbTypeOK ==
    /\ HostTypeOK /\ SinkTypeOK
    /\ setup \in Setups
    /\ mode \in {"lost", "run", "ending", "ended"}
    /\ pipe \in {"idle", "scan_wait", "scan", "resolve_wait", "resolve", "init",
                 "push", "join"}
    /\ cur \in Conns \cup {NoConn} /\ cand \in Conns \cup {NoConn}
    /\ w \in [Conns -> WorkerAt]
    /\ stop_tx \in [Conns -> {"open", "sent", "gone"}]
    /\ init_rx \in [Conns -> {"pending", "ok", "err", "ignored"}]
    /\ shutter_open \in [Conns -> BOOLEAN] /\ stream_failed \in [Conns -> BOOLEAN]
    /\ cb \in [Conns -> [left : 0..CbFrames, open : BOOLEAN]]
    /\ unit \in [Conns -> Units \cup {NoUnit}] /\ dead \in [Conns -> BOOLEAN]
    /\ plugged \subseteq Units /\ unplugs \in Nat
    /\ scan_count \in 0..Cardinality(Units)
    /\ other \in {"idle", "wait", "scan"}

AvbInit ==
    /\ HostInit /\ SinkInit
    /\ setup \in Setups
    /\ mode = IF setup.kind = "avb" THEN "lost" ELSE "ended"
    /\ pipe = "idle" /\ cur = NoConn /\ cand = NoConn
    /\ w = [c \in Conns |-> "none"]
    /\ stop_tx = [c \in Conns |-> "gone"] /\ init_rx = [c \in Conns |-> "ignored"]
    /\ shutter_open = [c \in Conns |-> FALSE]
    /\ stream_failed = [c \in Conns |-> FALSE]
    /\ cb = [c \in Conns |-> [left |-> 0, open |-> FALSE]]
    /\ unit = [c \in Conns |-> NoUnit] /\ dead = [c \in Conns |-> FALSE]
    /\ plugged = Units /\ unplugs = 0
    /\ scan_count = 0 /\ other = "idle"

\* The session is opened with the id of the first unit, "avb:<name>:0": a scan
\* knows the units only by their place in the list.
Found == IF plugged = {} THEN NoUnit ELSE CHOOSE u \in plugged : \A v \in plugged : u <= v

InDriver(t) ==
    \/ t = Pipe /\ pipe \in {"scan", "resolve"}
    \/ t = Scanner /\ other = "scan"
    \/ t \in Conns /\ w[t] \in {"open", "drop"}

Streaming(c) == w[c] \in {"run", "drop_wait", "drop"}

-------------------------------------------------------------------------------
(* Opening: scan, then connect(), for a new backend object each time *)

PipeOnly == UNCHANGED <<setup, connVars, plugVars, other, sinkVars>>
Goto(p) == pipe' = p /\ UNCHANGED <<mode, cur, cand, scan_count>>

\* Bound: there is a connection left to make.
FreeConns == {c \in Conns \ {cur} : w[c] = "none"}

ScanBegin ==
    /\ mode = "lost" /\ pipe = "idle" /\ FreeConns # {}
    /\ Goto("scan_wait") /\ PipeOnly /\ UNCHANGED hostVars

\* engine.discover() and engine.resolve_stream_config() begin with a session.
ScanEnter ==
    /\ pipe = "scan_wait" /\ Session(Pipe)
    /\ Goto("scan") /\ PipeOnly /\ UNCHANGED <<live_streams, hung, hangs>>

ScanExit ==
    /\ pipe = "scan" /\ Pipe \notin hung
    /\ Release(Pipe)
    /\ pipe' = IF Found = NoUnit THEN "idle" ELSE "resolve_wait"
    /\ scan_count' = IF Found = NoUnit THEN scan_count ELSE Cardinality(plugged)
    /\ UNCHANGED <<mode, cur, cand, live_streams, hung, hangs>> /\ PipeOnly

ResolveEnter ==
    /\ pipe = "resolve_wait" /\ Session(Pipe) /\ SlotFree(setup.single)
    /\ Goto("resolve") /\ PipeOnly /\ UNCHANGED <<live_streams, hung, hangs>>

\* Another stream is playing on a host that has room for one only.
ResolveRefused ==
    /\ pipe = "resolve_wait" /\ holder = Nobody /\ ~SlotFree(setup.single)
    /\ Goto("idle") /\ PipeOnly /\ UNCHANGED hostVars

PipeBusy ==
    /\ pipe \in {"scan_wait", "resolve_wait"} /\ SessionTimesOut(Pipe)
    /\ Goto("idle") /\ PipeOnly /\ UNCHANGED hostVars

\* A worker thread is spawned for a new runtime.
Spawn(c, rate) ==
    /\ c \in FreeConns /\ \A d \in FreeConns : c <= d
    /\ cand' = c /\ pipe' = "init"
    /\ w' = [w EXCEPT ![c] = "open_wait"]
    /\ stop_tx' = [stop_tx EXCEPT ![c] = "open"]
    /\ init_rx' = [init_rx EXCEPT ![c] = "pending"]
    /\ shutter_open' = [shutter_open EXCEPT ![c] = FALSE]
    /\ stream_failed' = [stream_failed EXCEPT ![c] = FALSE]
    /\ NewRing(c, rate) /\ Reset /\ UNCHANGED <<pushing, mode, cur, scan_count>>
    /\ UNCHANGED <<cb, unit, dead>>

ResolveExit ==
    /\ pipe = "resolve" /\ Pipe \notin hung
    /\ Release(Pipe)
    /\ IF Found # NoUnit /\ Cardinality(plugged) = scan_count
       THEN \E c \in Conns, rate \in setup.outs : Spawn(c, rate)
       ELSE Goto("idle") /\ UNCHANGED <<connVars, sinkVars>>
    /\ UNCHANGED <<live_streams, hung, hangs, setup, plugVars, other>>

\* connect() has its answer; the driver closes the shutter of what it got (or
\* prepares it closed) and lets go of what it had.
Accept ==
    /\ pipe = "init" /\ init_rx[cand] = "ok"
    /\ cur' = cand /\ cand' = NoConn /\ mode' = "run" /\ pipe' = "idle"
    /\ stop_tx' = IF cur = NoConn THEN stop_tx ELSE [stop_tx EXCEPT ![cur] = "gone"]
    /\ shutter_open' = [shutter_open EXCEPT ![cand] = FALSE]
    /\ UNCHANGED <<setup, scan_count, w, init_rx, stream_failed, cb, unit, dead>>
    /\ UNCHANGED <<plugVars, other, hostVars, sinkVars>>

\* The worker failed; it is joined, which is immediate.
Rejected ==
    /\ pipe = "init" /\ init_rx[cand] = "err"
    /\ cand' = NoConn /\ pipe' = "idle"
    /\ stop_tx' = [stop_tx EXCEPT ![cand] = "gone"]
    /\ UNCHANGED <<setup, mode, cur, scan_count, w, init_rx, shutter_open, stream_failed>>
    /\ UNCHANGED <<cb, unit, dead, plugVars, other, hostVars, sinkVars>>

\* The worker does not answer and is left to itself.
Detach ==
    /\ pipe = "init" /\ init_rx[cand] = "pending" /\ hangs > 0
    /\ cand' = NoConn /\ pipe' = "idle"
    /\ stop_tx' = [stop_tx EXCEPT ![cand] = "gone"]
    /\ init_rx' = [init_rx EXCEPT ![cand] = "ignored"]
    /\ UNCHANGED <<setup, mode, cur, scan_count, w, shutter_open, stream_failed>>
    /\ UNCHANGED <<cb, unit, dead, plugVars, other, hostVars, sinkVars>>

Opening ==
    \/ ScanBegin \/ ScanEnter \/ ScanExit
    \/ ResolveEnter \/ ResolveRefused \/ ResolveExit \/ PipeBusy
    \/ Accept \/ Rejected \/ Detach

-------------------------------------------------------------------------------
(* Running *)

IsConnected == cur # NoConn /\ ~stream_failed[cur]

\* The head of the driver's loop, or a write that finds the stream dead. Neither
\* disconnects: the failed backend is what reconnect() has to replace.
NoticeLoss ==
    /\ mode = "run" /\ pipe = "idle" /\ ~IsConnected
    /\ mode' = "lost"
    /\ UNCHANGED <<setup, pipe, cur, cand, scan_count, connVars, plugVars, other, hostVars>>
    /\ UNCHANGED sinkVars

SetShutter(open) ==
    /\ mode = "run" /\ pipe = "idle" /\ shutter_open[cur] # open
    /\ shutter_open' = [shutter_open EXCEPT ![cur] = open]
    /\ UNCHANGED <<setup, pipeVars, w, stop_tx, init_rx, stream_failed, cb, unit, dead>>
    /\ UNCHANGED <<plugVars, other, hostVars, sinkVars>>

WriteGuard(len) == mode = "run" /\ pipe = "idle" /\ IsConnected /\ n_in + len <= setup.max_in

TryWrite(pps, len) ==
    /\ WriteGuard(len)
    /\ \/ Reserve(cur, pps, len) /\ pipe' = IF pushing' > 0 THEN "push" ELSE "idle"
       \/ Block(cur, pps, len) /\ UNCHANGED pipe
    /\ UNCHANGED <<setup, mode, cur, cand, scan_count, connVars, plugVars, other, hostVars>>

Push ==
    /\ pipe = "push" /\ PushPoint(cur)
    /\ pipe' = IF pushing = 1 THEN "idle" ELSE "push"
    /\ UNCHANGED <<setup, mode, cur, cand, scan_count, connVars, plugVars, other, hostVars>>

\* disconnect(), as far as the join.
AskToStop ==
    /\ pipe' = "join"
    /\ stop_tx' = [stop_tx EXCEPT ![cur] = "sent"]

\* The adapter disconnects a backend that takes no points for too long: nobody
\* takes any out, or the chunk would not fit an empty ring.
Stalled ==
    /\ mode = "run" /\ pipe = "idle" /\ IsConnected
    /\ \E pps \in setup.pps, len \in ChunkLens :
          /\ ~Fits(cur, pps, len)
          /\ dead[cur] \/ PendingOutputCount(pps, sample_rate[cur], len) > Capacity
    /\ AskToStop
    /\ UNCHANGED <<setup, mode, cur, cand, scan_count, w, init_rx, shutter_open>>
    /\ UNCHANGED <<stream_failed, cb, unit, dead, plugVars, other, hostVars, sinkVars>>

\* stop()
StopOutput ==
    /\ shutter_open' = [shutter_open EXCEPT ![cur] = FALSE]
    /\ ClearQueue(cur) /\ Reset /\ UNCHANGED <<sample_rate, pushing>>

\* Faulty variant: the shutter is closed, the points are kept.
EndSessionKeeps ==
    /\ mode \in {"run", "lost"} /\ pipe = "idle"
    /\ IF IsConnected
       THEN mode' = "ending" /\ AskToStop /\ shutter_open' = [shutter_open EXCEPT ![cur] = FALSE]
            /\ UNCHANGED <<cur, sinkVars>>
       ELSE mode' = "ended" /\ UNCHANGED <<pipe, cur, stop_tx, shutter_open, sinkVars>>
    /\ UNCHANGED <<setup, cand, scan_count, w, init_rx, stream_failed, cb, unit, dead>>
    /\ UNCHANGED <<plugVars, other, hostVars>>

\* end_session: a connected backend is stopped and disconnected, another one is
\* dropped with the session.
EndSession ==
    /\ mode \in {"run", "lost"} /\ pipe = "idle"
    /\ IF IsConnected
       THEN mode' = "ending" /\ AskToStop /\ StopOutput /\ UNCHANGED cur
       ELSE /\ mode' = "ended" /\ cur' = NoConn /\ UNCHANGED pipe
            /\ stop_tx' = IF cur = NoConn THEN stop_tx ELSE [stop_tx EXCEPT ![cur] = "gone"]
            /\ UNCHANGED <<shutter_open, sinkVars>>
    /\ UNCHANGED <<setup, cand, scan_count, w, init_rx, stream_failed, cb, unit, dead>>
    /\ UNCHANGED <<plugVars, other, hostVars>>

\* disconnect(), once the worker has ended.
Joined ==
    /\ pipe = "join" /\ w[cur] = "none"
    /\ pipe' = "idle" /\ cur' = NoConn
    /\ mode' = IF mode = "ending" THEN "ended" ELSE "lost"
    /\ ClearQueue(cur) /\ Reset /\ UNCHANGED <<sample_rate, pushing>>
    /\ UNCHANGED <<setup, cand, scan_count, connVars, plugVars, other, hostVars>>

Running ==
    \/ NoticeLoss \/ Push \/ Stalled \/ EndSession \/ Joined
    \/ \E open \in BOOLEAN : SetShutter(open)
    \/ \E pps \in setup.pps, len \in ChunkLens : TryWrite(pps, len)

-------------------------------------------------------------------------------
(* run_audio_worker *)

WorkerOnly == UNCHANGED <<setup, pipeVars, plugVars, other, sinkVars>>
WorkerTo(c, at) == w' = [w EXCEPT ![c] = at]

\* What the worker tells connect(), if it is still listening.
Tell(c, answer) == init_rx' = [init_rx EXCEPT ![c] = IF @ = "ignored" THEN @ ELSE answer]

OpenFails(c) ==
    /\ WorkerTo(c, "none") /\ Tell(c, "err")
    /\ UNCHANGED <<stop_tx, shutter_open, stream_failed, cb, unit, dead>>

\* Faulty variant: the slot was free when connect() looked.
OpenEnterUnchecked(c) ==
    /\ w[c] = "open_wait" /\ holder = Nobody
    /\ Session(c) /\ WorkerTo(c, "open")
    /\ UNCHANGED <<stop_tx, init_rx, shutter_open, stream_failed, cb, unit, dead>>
    /\ WorkerOnly /\ UNCHANGED <<live_streams, hung, hangs>>

OpenEnter(c) ==
    /\ w[c] = "open_wait" /\ holder = Nobody
    /\ IF SlotFree(setup.single)
       THEN Session(c) /\ WorkerTo(c, "open")
            /\ UNCHANGED <<stop_tx, init_rx, shutter_open, stream_failed, cb, unit, dead>>
       ELSE OpenFails(c) /\ UNCHANGED holder
    /\ WorkerOnly /\ UNCHANGED <<live_streams, hung, hangs>>

OpenBusy(c) ==
    /\ w[c] = "open_wait" /\ SessionTimesOut(c)
    /\ OpenFails(c)
    /\ WorkerOnly /\ UNCHANGED hostVars

\* The device is looked up again, by name and place.
OpenExit(c) ==
    /\ w[c] = "open" /\ c \notin hung
    /\ Release(c)
    /\ IF Found = NoUnit
       THEN OpenFails(c) /\ UNCHANGED live_streams
       ELSE /\ StreamOpened /\ WorkerTo(c, "run") /\ Tell(c, "ok")
            /\ unit' = [unit EXCEPT ![c] = Found] /\ dead' = [dead EXCEPT ![c] = FALSE]
            /\ UNCHANGED <<stop_tx, shutter_open, stream_failed, cb>>
    /\ WorkerOnly /\ UNCHANGED <<hung, hangs>>

\* The loop on stop_rx ends on a message and on a dropped sender alike.
Stop(c) ==
    /\ w[c] = "run" /\ stop_tx[c] # "open"
    /\ WorkerTo(c, "drop_wait")
    /\ shutter_open' = [shutter_open EXCEPT ![c] = FALSE]
    /\ ClearQueue(c)
    /\ UNCHANGED <<setup, pipeVars, plugVars, other, sample_rate, pushing, resamplerVars>>
    /\ UNCHANGED <<stop_tx, init_rx, stream_failed, cb, unit, dead, hostVars>>

\* SerializedStream::drop: with a session, or without one if it has to be.
DropEnter(c) ==
    /\ w[c] = "drop_wait" /\ WorkerTo(c, "drop")
    /\ Session(c) \/ (SessionTimesOut(c) /\ UNCHANGED holder)
    /\ UNCHANGED <<stop_tx, init_rx, shutter_open, stream_failed, cb, unit, dead>>
    /\ WorkerOnly /\ UNCHANGED <<live_streams, hung, hangs>>

DropExit(c) ==
    /\ w[c] = "drop" /\ c \notin hung
    /\ StreamDropped /\ Release(c) /\ WorkerTo(c, "none")
    /\ cb' = [cb EXCEPT ![c] = [left |-> 0, open |-> FALSE]]
    /\ unit' = [unit EXCEPT ![c] = NoUnit]
    /\ UNCHANGED <<stop_tx, init_rx, shutter_open, stream_failed, dead, hung, hangs>>
    /\ WorkerOnly

Worker(c) == OpenEnter(c) \/ OpenBusy(c) \/ OpenExit(c) \/ Stop(c) \/ DropEnter(c) \/ DropExit(c)

-------------------------------------------------------------------------------
(* The audio callback, the device and the other scanner *)

CallbackOnly == UNCHANGED <<setup, pipeVars, w, stop_tx, init_rx, shutter_open, stream_failed,
                            unit, dead, plugVars, other, hostVars>>

\* fill_output_buffer_converted looks at the shutter once for a buffer.
CallbackBegin(c) ==
    /\ Streaming(c) /\ ~dead[c] /\ cb[c].left = 0
    /\ cb' = [cb EXCEPT ![c] = [left |-> CbFrames, open |-> shutter_open[c]]]
    /\ CallbackOnly /\ UNCHANGED sinkVars

CallbackFrame(c) ==
    /\ cb[c].left > 0
    /\ cb' = [cb EXCEPT ![c].left = @ - 1]
    /\ Pop(c) /\ CallbackOnly

\* The error callback: DeviceNotAvailable.
MarkStreamFailed(c) ==
    /\ Streaming(c) /\ dead[c] /\ ~stream_failed[c]
    /\ stream_failed' = [stream_failed EXCEPT ![c] = TRUE]
    /\ UNCHANGED <<w, stop_tx, init_rx, shutter_open, cb, unit, dead, hostVars>> /\ WorkerOnly

Unplug(u) ==
    /\ u \in plugged /\ unplugs < setup.unplugs
    /\ plugged' = plugged \ {u} /\ unplugs' = unplugs + 1
    /\ dead' = [c \in Conns |-> dead[c] \/ unit[c] = u]
    /\ cb' = [c \in Conns |-> IF unit[c] = u THEN [left |-> 0, open |-> FALSE] ELSE cb[c]]
    /\ UNCHANGED <<setup, pipeVars, w, stop_tx, init_rx, shutter_open, stream_failed, unit>>
    /\ UNCHANGED <<other, hostVars, sinkVars>>

Plug(u) ==
    /\ u \in Units \ plugged /\ plugged' = plugged \cup {u}
    /\ UNCHANGED <<setup, pipeVars, connVars, unplugs, other, hostVars, sinkVars>>

\* Another thread of the process looks for devices.
OtherScan ==
    /\ setup.scanner
    /\ \/ other = "idle" /\ other' = "wait" /\ UNCHANGED hostVars
       \/ other = "wait" /\ Session(Scanner) /\ other' = "scan"
          /\ UNCHANGED <<live_streams, hung, hangs>>
       \/ other = "wait" /\ SessionTimesOut(Scanner) /\ other' = "idle" /\ UNCHANGED hostVars
       \/ other = "scan" /\ Scanner \notin hung /\ Release(Scanner) /\ other' = "idle"
          /\ UNCHANGED <<live_streams, hung, hangs>>
    /\ UNCHANGED <<setup, pipeVars, connVars, plugVars, sinkVars>>

DriverHangs(t) ==
    /\ InDriver(t) /\ t \notin hung /\ hangs < setup.hangs
    /\ Hang(t)
    /\ UNCHANGED <<setup, pipeVars, connVars, plugVars, other, sinkVars>>

DriverReturns(t) ==
    /\ Unhang(t)
    /\ UNCHANGED <<setup, pipeVars, connVars, plugVars, other, sinkVars>>

AvbNext ==
    \/ Opening \/ Running \/ OtherScan
    \/ \E c \in Conns : Worker(c) \/ CallbackBegin(c) \/ CallbackFrame(c) \/ MarkStreamFailed(c)
    \/ \E u \in Units : Unplug(u) \/ Plug(u)
    \/ \E t \in Threads : DriverHangs(t) \/ DriverReturns(t)

\* Every thread of the program goes on; who waits for the host is not passed over
\* for ever (it is free far longer than it is taken). The audio system reports a
\* device that is gone. Nothing is assumed of callbacks, of a call that hangs, of
\* the other scanner or of the hand on the plug.
AvbFairness ==
    /\ SF_avbVars(Opening)
    /\ WF_avbVars(NoticeLoss \/ Push \/ Joined)
    /\ \A c \in Conns : SF_avbVars(Worker(c))
    /\ WF_avbVars(\E c \in Conns : MarkStreamFailed(c))
    /\ WF_avbVars(other # "idle" /\ OtherScan)

-------------------------------------------------------------------------------
(* Properties *)

\* Two threads are inside the driver at a time only if one of them tears a stream
\* down without waiting for a call that hangs (rules of host.rs: at most one
\* thread in a driver call, "tear down regardless").
OneInDriver ==
    \A s, t \in Threads :
        (InDriver(s) /\ InDriver(t) /\ s # t) =>
            \E c \in {s, t} \cap Conns : w[c] = "drop" /\ holder # c

\* On a host with room for one stream no second one is opened, not even by a
\* worker that connect() has given up on (ensure_stream_slot_free).
OneStream == setup.single => Cardinality({c \in Conns : Streaming(c)}) <= 1

\* See NoPointDropped.
AvbReserved == pipe = "push" => Reserved(cur)

\* A stream that plays has points only if the driver is running it: what was
\* stopped, replaced or given up on does not go on drawing (stop() and the end of
\* run_audio_worker clear the ring before anything is dropped).
UndrivenDark ==
    \A c \in Conns : (Streaming(c) /\ ~dead[c] /\ queue[c] > 0) => (c = cur /\ mode = "run")

\* A call into the backend returns unless it, or the worker it joins, is stuck in
\* the driver: nobody waits for somebody else's hung call (SESSION_TIMEOUT and
\* init_timeout).
AvbCallsReturn ==
    pipe # "idle" ~> (pipe = "idle" \/ Pipe \in hung \/ (pipe = "join" /\ cur \in hung))

\* A worker that was detached or whose backend was dropped ends by itself, unless it
\* is stuck in the driver.
DetachedEnds == \A c \in Conns : stop_tx[c] = "gone" ~> (w[c] = "none" \/ c \in hung)

\* If the device stays plugged in from some time on and no driver call hangs, a
\* stream that died is replaced (or the session ends): "Producer-side calls observe
\* it and surface a disconnected-class error so the driver's reconnect path engages".
Reconnects == <>[](plugged = Units) => (mode = "lost" ~> mode # "lost")
ReconnectsShared == (setup.hangs = 0 /\ ~setup.single) => Reconnects

===============================================================================
