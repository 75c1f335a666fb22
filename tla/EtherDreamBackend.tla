--------------------------- MODULE EtherDreamBackend ---------------------------
(***************************************************************************)
(* The Ether Dream backend (ether_dream/backend.rs) on its stream: connect *)
(* with the version query, write_points with its two passes, stop and      *)
(* disconnect, and the buffer estimate with which the NetworkFifo adapter  *)
(* paces the writes.  The caller is a session: it composes a chunk when    *)
(* the estimate leaves room below the target, repeats the write until the  *)
(* chunk is taken, and may stop, disconnect and connect again.             *)
(*                                                                         *)
(* Ages count ticks.  An age stops where the value it decays has reached   *)
(* zero at every rate, or where an attempt is due.                         *)
(***************************************************************************)
EXTENDS EtherDreamStream

CONSTANTS
    Scenarios,      \* the environments of a run: records of Scenario
    MaxRate,        \* the advertised max_point_rate
    CeilingPercent, \* TARGET_CEILING_PERCENT
    BeginTicks,     \* cover wanted before 'b', in ticks of points
    MinBegin,       \* MIN_BEGIN_THRESHOLD and MIN_WRITE_QUANTUM_FLOOR
    PingInterval,   \* WARMUP_PING_INTERVAL, in ticks
    EstopRetry      \* ESTOP_RETRY_INTERVAL, in ticks

Events == {"estop", "interlock", "foreign", "unsolicited", "duplicate", "fails",
           "stop", "disconnect"}

\* What may happen in a behaviour, besides streaming at one of the rates to a
\* DAC of one of the profiles:
\*   target  the session's target_buffer, in ticks of points
\*   events  which disturbances, and at most `budget` of them
Scenario ==
    [profiles : SUBSET Profile, rates : SUBSET (Nat \ {0}), target : Nat \ {0},
     events : SUBSET Events, budget : Nat]

ASSUME BackendAssumption ==
    /\ Scenarios # {} /\ Scenarios \subseteq Scenario
    /\ \A c \in Scenarios : c.rates # {} /\ c.profiles # {}
    /\ MaxRate \in Nat \ {0} /\ BeginTicks \in Nat
    /\ CeilingPercent \in 1..100 /\ MinBegin \in Nat \ {0}
    /\ PingInterval \in Nat /\ EstopRetry \in Nat

VARIABLES
    scenario,
    heard_age,    \* last_status_received
    est,          \* DacRateEstimator: [fill, rate, playing]
    est_age,      \* its anchor_time
    last_rate,    \* last_point_rate
    ping_age,     \* last_ping_time; PingInterval also for None
    estop_age,    \* last_estop_attempt; EstopRetry also for None
    skip_version, \* skip_version_query
    pps,          \* the rate of the session
    written_pps,  \* the adapter's written_pps, 0 for None
    chunk,        \* points of the slice that is being written, 0 for none
    retried,      \* write_points is in its second pass
    pc,
    \* history
    events,       \* disturbances so far
    calm,         \* none since this write_points call began
    shared,       \* another client, a dropped connection or a repeated reply
                  \* acted on this stream
    clean         \* the last connection ended by an answered disconnect

backendVars == <<heard_age, est, est_age, last_rate, ping_age, estop_age>>
callerVars == <<pps, written_pps, chunk, retried, pc>>
historyVars == <<events, calm, shared, clean>>
vars == <<scenario, profile, deviceVars, streamVars, backendVars, skip_version,
          callerVars, historyVars>>

Labels == {"down", "hello", "version", "adapter", "write", "clear", "clearping",
           "warmping", "pass", "prepare", "beginfull", "data", "begin", "stopping",
           "closing"}
NoEstimate == [fill |-> 0, rate |-> 0, playing |-> FALSE]
Minus(a, b) == IF a >= b THEN a - b ELSE 0
Max2(a, b) == IF a >= b THEN a ELSE b

\* The types of all of the state.
TypeOK ==
    /\ DeviceTypeOK /\ StreamTypeOK
    /\ scenario \in Scenarios
    /\ heard_age \in 0..Ring /\ est_age \in 0..Ring
    /\ est \in [fill : 0..Ring, rate : Nat, playing : BOOLEAN]
    /\ last_rate \in Nat
    /\ ping_age \in 0..PingInterval /\ estop_age \in 0..EstopRetry
    /\ skip_version \in BOOLEAN /\ retried \in BOOLEAN
    /\ pps \in scenario.rates /\ written_pps \in Nat /\ chunk \in 0..Ring
    /\ pc \in Labels
    /\ events \in 0..scenario.budget
    /\ calm \in BOOLEAN /\ shared \in BOOLEAN /\ clean \in BOOLEAN

Init ==
    /\ scenario \in Scenarios
    /\ profile \in scenario.profiles
    /\ DeviceInit /\ StreamInit
    /\ heard_age = 0 /\ est = NoEstimate /\ est_age = 0 /\ last_rate = 0
    /\ ping_age = PingInterval /\ estop_age = EstopRetry
    /\ skip_version = FALSE
    /\ pps \in scenario.rates /\ written_pps = 0 /\ chunk = 0 /\ retried = FALSE
    /\ pc = "down"
    /\ events = 0 /\ calm = TRUE /\ shared = FALSE /\ clean = FALSE

-------------------------------------------------------------------------------
(* Rates, thresholds and estimates *)

ClampRate(p) == Max2(1, Min2(IF p = 0 THEN MaxRate \div 16 ELSE p, MaxRate))

PointRate == ClampRate(pps)

BeginThreshold ==
    LET ceiling == Max2(Ring \div 2, 1)
    IN  Max2(Min2(MinBegin, ceiling), Min2(PointRate * BeginTicks, ceiling))

\* decay_fullness of the cached status: an upper bound on what the ring holds.
DecayFullness ==
    IF status.playback # "Playing" THEN status.fill
    ELSE Minus(status.fill,
               heard_age * IF status.rate > 0 THEN status.rate ELSE last_rate)

\* DacRateEstimator::record_status. An idle DAC counts as empty, a prepared
\* one as draining.
Estimate(s) ==
    [fill    |-> IF s.playback = "Idle" THEN 0 ELSE s.fill,
     rate    |-> IF s.playback = "Playing" THEN s.rate ELSE 0,
     playing |-> s.playback # "Idle"]

\* Faulty variant: the estimate is anchored when the reply arrives.
RecordStatusLate ==
    /\ est' = Estimate(Head(replies).status)
    /\ est_age' = 0

\* Rebase on the reply being read, at the time its command was sent.
RecordStatus ==
    /\ est' = Estimate(Head(replies).status)
    /\ est_age' = sent_age

\* estimated_fullness: a lower bound on what the ring holds.
Estimated(p) ==
    IF ~est.playing THEN est.fill
    ELSE Minus(est.fill, est_age * IF est.rate > 0 THEN est.rate ELSE p)

\* The reply being read is the new status_received_at.
Heard == heard_age' = 0

-------------------------------------------------------------------------------
(* connect *)

Quiet == UNCHANGED <<profile, deviceVars, scenario>>

Connect ==
    /\ pc = "down"
    /\ OpenStream
    /\ est' = NoEstimate /\ est_age' = 0 /\ last_rate' = 0
    /\ ping_age' = PingInterval /\ estop_age' = EstopRetry
    /\ pc' = "hello"
    /\ clean' = FALSE /\ shared' = FALSE
    /\ Quiet
    /\ UNCHANGED <<heard_age, skip_version, pps, written_pps, chunk, retried, events, calm>>

\* The hello is read. The firmware is asked for its version unless it is known
\* not to answer.
Hello ==
    /\ pc = "hello" /\ Answered
    /\ TakeReply(IF skip_version THEN <<>> ELSE <<Cmd("v")>>)
    /\ Heard
    /\ pc' = IF skip_version THEN "adapter" ELSE "version"
    /\ Quiet
    /\ UNCHANGED <<est, est_age, last_rate, ping_age, estop_age, skip_version,
                   pps, written_pps, chunk, retried, historyVars>>

\* A build string carries no status, a NAK frame does.
Version ==
    /\ pc = "version" /\ Answered
    /\ IF FirstNak = NoNak
       THEN TakeReplyAs(status, <<>>) /\ UNCHANGED <<heard_age, skip_version>>
       ELSE TakeReply(<<>>) /\ Heard /\ skip_version' = TRUE
    /\ pc' = "adapter"
    /\ Quiet
    /\ UNCHANGED <<est, est_age, last_rate, ping_age, estop_age, pps, written_pps, chunk,
                   retried, historyVars>>

-------------------------------------------------------------------------------
(* The NetworkFifo adapter *)

Ceiling == (Ring * CeilingPercent) \div 100
TargetPoints == Min2(scenario.target * pps, Max2(Ceiling, 1))
\* MIN_WRITE_QUANTUM_SECS is half of the cover wanted before 'b'.
Quantum == Min2(Max2((BeginTicks * pps + 1) \div 2, MinBegin), Min2(Ring, TargetPoints))
DrainPps == IF written_pps = 0 THEN pps ELSE written_pps
RatePending == DrainPps # pps
TargetSlice ==
    LET deficit == Min2(Minus(TargetPoints, Estimated(DrainPps)), Ring)
    IN  IF RatePending THEN Max2(deficit, Max2(Quantum, 1)) ELSE deficit

\* A chunk is composed when the deficit reaches the write quantum. The source
\* may deliver fewer points than it was asked for.
Compose ==
    /\ pc = "adapter"
    /\ TargetSlice >= Max2(Quantum, 1)
    /\ chunk' \in 1..TargetSlice
    /\ pc' = "write"
    /\ Quiet
    /\ UNCHANGED <<streamVars, backendVars, skip_version, pps, written_pps, retried, historyVars>>

\* The session's rate changes between two steps of the adapter.
SetRate ==
    /\ pc = "adapter"
    /\ pps' \in scenario.rates \ {pps}
    /\ Quiet
    /\ UNCHANGED <<streamVars, backendVars, skip_version, written_pps, chunk, retried, pc, historyVars>>

-------------------------------------------------------------------------------
(* write_points. A WouldBlock leads back to "write" with the same chunk. *)

\* A call that sends cs and waits for the answer at label l.
BeginsCall(cs, l) ==
    /\ Submit(cs)
    /\ pc' = l
    /\ calm' = TRUE
    /\ Quiet
    /\ UNCHANGED <<heard_age, est, est_age, last_rate, skip_version, pps, written_pps, chunk,
                   events, shared, clean>>

\* The cached status shows an emergency stop: try to clear it, but not often.
ClearEstop ==
    /\ pc = "write" /\ status.light = "EmergencyStop"
    /\ estop_age = EstopRetry
    /\ estop_age' = 0
    /\ BeginsCall(<<Cmd("c")>>, "clear")
    /\ UNCHANGED <<ping_age, retried>>

\* Nothing else refreshes the status of a DAC that is warming up.
WarmupPing ==
    /\ pc = "write" /\ status.light = "Warmup"
    /\ ping_age = PingInterval
    /\ ping_age' = 0
    /\ BeginsCall(<<Cmd("?")>>, "warmping")
    /\ UNCHANGED <<estop_age, retried>>

\* The light engine is ready: the first pass begins.
FirstPass ==
    /\ pc = "write" /\ status.light = "Ready"
    /\ pc' = "pass" /\ retried' = FALSE /\ calm' = TRUE
    /\ Quiet
    /\ UNCHANGED <<streamVars, backendVars, skip_version, pps, written_pps, chunk,
                   events, shared, clean>>

\* What every answer to write_points leaves alone.
DuringCall == Quiet /\ UNCHANGED <<ping_age, estop_age, skip_version, pps, events, calm, shared, clean>>

\* The call returns WouldBlock, and the chunk stays.
WouldBlock == pc' = "write" /\ UNCHANGED <<written_pps, chunk, retried>>

\* The call goes on at label l.
GoesOn(l) == pc' = l /\ UNCHANGED <<written_pps, chunk, retried>>

\* NAK-StopCondition also answers a clear that only starts a warmup.
Cleared ==
    /\ pc = "clear" /\ Answered
    /\ FirstNak.code \in {"ACK", "StopCondition"}
    /\ IF FirstNak.code = "StopCondition" /\ Head(replies).status.light = "EmergencyStop"
       THEN TakeReply(<<>>) /\ WouldBlock
       ELSE TakeReply(<<Cmd("?")>>) /\ GoesOn("clearping")
    /\ UNCHANGED <<heard_age, est, est_age, last_rate>>
    /\ DuringCall

ClearPinged ==
    /\ pc = "clearping" /\ Answered
    /\ FirstNak = NoNak
    /\ TakeReply(<<>>)
    /\ IF Head(replies).status.light = "EmergencyStop"
       THEN UNCHANGED <<heard_age, est, est_age>>
       ELSE Heard /\ RecordStatus
    /\ IF Head(replies).status.light = "Ready"
       THEN pc' = "pass" /\ retried' = FALSE /\ UNCHANGED <<written_pps, chunk>>
       ELSE WouldBlock
    /\ UNCHANGED last_rate
    /\ DuringCall

WarmupPinged ==
    /\ pc = "warmping" /\ Answered
    /\ FirstNak = NoNak
    /\ TakeReply(<<>>)
    /\ Heard
    /\ WouldBlock
    /\ UNCHANGED <<est, est_age, last_rate>>
    /\ DuringCall

\* The commands that carry the chunk: data before a rate switch, so that the
\* points in the ring do not play out at the faster rate meanwhile.
DataCommands(s) ==
    IF s.playback = "Playing" /\ s.rate # PointRate
    THEN <<CmdWith("d", chunk), CmdWith("u", PointRate)>>
    ELSE <<CmdWith("d", chunk)>>

\* Faulty variant: the headroom is checked first.
PreparePassWithRoom ==
    /\ pc = "pass" /\ status.playback = "Idle"
    /\ chunk <= Minus(Ring, status.fill)
    /\ Submit(<<Cmd("p")>>)
    /\ GoesOn("prepare")
    /\ UNCHANGED <<heard_age, est, est_age, last_rate>>
    /\ DuringCall

\* An idle DAC is prepared before the headroom is looked at: what it reports
\* as its fullness is left over from the stream before.
PreparePass ==
    /\ pc = "pass" /\ status.playback = "Idle"
    /\ Submit(<<Cmd("p")>>)
    /\ GoesOn("prepare")
    /\ UNCHANGED <<heard_age, est, est_age, last_rate>>
    /\ DuringCall

\* A prepared stream is empty, so the chunk fits. A DAC that refuses is tried
\* again later.
Prepared ==
    /\ pc = "prepare" /\ Answered
    /\ Heard
    /\ IF FirstNak = NoNak
       THEN /\ TakeReply(DataCommands(Head(replies).status))
            /\ GoesOn("data")
            /\ UNCHANGED <<est, est_age>>
       ELSE TakeReply(<<>>) /\ RecordStatus /\ WouldBlock
    /\ UNCHANGED last_rate
    /\ DuringCall

\* The chunk fits below the upper bound on the fullness.
SendPass ==
    /\ pc = "pass" /\ status.playback # "Idle"
    /\ chunk <= Minus(Ring, DecayFullness)
    /\ Submit(DataCommands(status))
    /\ GoesOn("data")
    /\ UNCHANGED <<heard_age, est, est_age, last_rate>>
    /\ DuringCall

\* It does not fit. A prepared stream never drains, so it is begun.
BlockedPass ==
    /\ pc = "pass" /\ status.playback # "Idle"
    /\ chunk > Minus(Ring, DecayFullness)
    /\ IF status.playback = "Prepared" /\ status.fill > 0
       THEN Submit(<<CmdWith("b", PointRate)>>) /\ GoesOn("beginfull")
       ELSE UNCHANGED streamVars /\ WouldBlock
    /\ UNCHANGED <<heard_age, est, est_age, last_rate>>
    /\ DuringCall

BegunFull ==
    /\ pc = "beginfull" /\ Answered
    /\ TakeReply(<<>>)
    /\ Heard /\ RecordStatus
    /\ last_rate' = PointRate
    /\ WouldBlock
    /\ DuringCall

\* The call returns Written: the adapter commits the chunk.
Written ==
    /\ TakeReply(<<>>)
    /\ Heard /\ RecordStatus
    /\ last_rate' = PointRate
    /\ written_pps' = pps /\ chunk' = 0
    /\ pc' = "adapter"
    /\ UNCHANGED retried

\* The DAC turned out to be idle: whatever it held is gone, and the chunk goes
\* into a freshly prepared stream, once.
SecondPass ==
    /\ ~retried /\ retried' = TRUE
    /\ TakeReply(<<>>)
    /\ pc' = "pass"
    /\ UNCHANGED <<written_pps, chunk, est, est_age, last_rate>>

\* The data was refused: resynchronise from the status in the refusal.
DataRefused ==
    LET s == Head(replies).status
    IN  /\ pc = "data" /\ Answered
        /\ FirstNak.op = "d"
        /\ \/ FirstNak.code \in {"Full", "Invalid"}
           \/ FirstNak.code = "StopCondition" /\ s.light # "Ready"
        /\ Heard
        /\ IF FirstNak.code # "StopCondition" /\ s.playback = "Idle" /\ ~retried
           THEN SecondPass
           ELSE TakeReply(<<>>) /\ RecordStatus /\ WouldBlock /\ UNCHANGED last_rate
        /\ DuringCall

\* Faulty variant: an acknowledgement is taken at its word.
DataAckedTrusted ==
    LET s == Head(replies).status
    IN  /\ pc = "data" /\ Answered
        /\ FirstNak.op # "d"
        /\ \/ /\ s.playback = "Prepared" /\ s.fill >= BeginThreshold
              /\ TakeReply(<<CmdWith("b", PointRate)>>)
              /\ GoesOn("begin")
              /\ UNCHANGED <<heard_age, est, est_age, last_rate>>
           \/ /\ ~(s.playback = "Prepared" /\ s.fill >= BeginThreshold)
              /\ Written
        /\ DuringCall

\* The data was acknowledged; a refused rate switch is left to the next write.
\* Firmware may acknowledge and drop data while idle, so the status decides.
DataAcked ==
    LET s == Head(replies).status
    IN  /\ pc = "data" /\ Answered
        /\ FirstNak.op # "d"
        /\ \/ s.playback = "Idle" /\ SecondPass /\ UNCHANGED heard_age
           \/ /\ s.playback = "Prepared" /\ s.fill >= BeginThreshold
              /\ TakeReply(<<CmdWith("b", PointRate)>>)
              /\ GoesOn("begin")
              /\ UNCHANGED <<heard_age, est, est_age, last_rate>>
           \/ /\ ~(s.playback = "Idle" /\ ~retried)
              /\ ~(s.playback = "Prepared" /\ s.fill >= BeginThreshold)
              /\ Written
        /\ DuringCall

\* Firmware may acknowledge 'b' without starting: again the status decides.
Begun ==
    LET s == Head(replies).status
    IN  /\ pc = "begin" /\ Answered
        /\ \/ FirstNak.code \in {"ACK", "Invalid"}
           \/ FirstNak.code = "StopCondition" /\ s.light # "Ready"
        /\ \/ s.playback = "Idle" /\ SecondPass /\ UNCHANGED heard_age
           \/ ~(s.playback = "Idle" /\ ~retried) /\ Written
        /\ DuringCall

-------------------------------------------------------------------------------
(* stop, disconnect and failures *)

Disturbance(e) ==
    /\ e \in scenario.events /\ events < scenario.budget
    /\ events' = events + 1
    /\ calm' = FALSE

\* The session ends its streaming and keeps the connection.
Stop ==
    /\ pc \in {"adapter", "write"}
    /\ Disturbance("stop")
    /\ Submit(<<Cmd("s")>>)
    /\ pc' = "stopping" /\ chunk' = 0
    /\ Quiet
    /\ UNCHANGED <<backendVars, skip_version, pps, written_pps, retried, shared, clean>>

\* NAK-Invalid says that the DAC is idle already.
Stopped ==
    /\ pc = "stopping" /\ Answered
    /\ FirstNak.code \in {"ACK", "Invalid"}
    /\ TakeReply(<<>>)
    /\ Heard /\ RecordStatus
    /\ pc' = "adapter" /\ written_pps' = 0
    /\ Quiet
    /\ UNCHANGED <<last_rate, ping_age, estop_age, skip_version, pps, chunk, retried, historyVars>>

\* The stream is gone, and the session's state with it.
GoDown ==
    /\ DropStream
    /\ pc' = "down" /\ chunk' = 0 /\ written_pps' = 0
    /\ UNCHANGED <<profile, scenario, backendVars, pps, retried>>

\* disconnect stops the DAC first, unless the last status shows it idle.
Disconnect ==
    /\ pc \in {"adapter", "write"}
    /\ ~closing
    /\ Disturbance("disconnect")
    /\ IF status.playback # "Idle"
       THEN /\ Submit(<<Cmd("s")>>)
            /\ pc' = "closing"
            /\ UNCHANGED <<chunk, written_pps, clean, profile, scenario, backendVars, pps, retried>>
       ELSE GoDown /\ clean' = TRUE
    /\ UNCHANGED <<deviceVars, skip_version, shared>>

Disconnected ==
    /\ pc = "closing" /\ Answered
    /\ GoDown
    /\ clean' = TRUE
    /\ UNCHANGED <<deviceVars, skip_version, events, calm, shared>>

\* An answer that no branch accepts is fatal for the link.
Fatal ==
    \/ Desynced
    \/ /\ Answered
       /\ \/ pc = "clear" /\ FirstNak.code \notin {"ACK", "StopCondition"}
          \/ pc \in {"data", "begin"} /\ FirstNak.code = "StopCondition"
                /\ (pc = "data" => FirstNak.op = "d")
                /\ Head(replies).status.light = "Ready"
          \/ pc = "begin" /\ FirstNak.code = "Full"
          \/ pc = "stopping" /\ FirstNak.code \notin {"ACK", "Invalid"}
          \/ pc \in {"clearping", "warmping"} /\ FirstNak # NoNak

Fails ==
    /\ ~closing
    /\ Fatal
    /\ GoDown
    /\ UNCHANGED <<deviceVars, skip_version, historyVars>>

\* The connection breaks or a reply takes longer than READ_BUDGET. A version
\* query that fails is never sent again.
LinkFails ==
    /\ Waiting /\ ~closing
    /\ Disturbance("fails")
    /\ GoDown
    /\ skip_version' = (skip_version \/ pc = "version")
    /\ UNCHANGED <<deviceVars, shared, clean>>

\* Firmware that does not know 'v' may close the connection.
VersionResets ==
    /\ pc = "version" /\ ResetsOnVersion /\ ~closing
    /\ GoDown
    /\ skip_version' = TRUE
    /\ UNCHANGED <<deviceVars, historyVars>>

-------------------------------------------------------------------------------
(* The environment *)

Elsewhere == UNCHANGED <<scenario, backendVars, skip_version, callerVars, clean>>

\* Time passes on both sides.
Tick ==
    /\ Advance
    /\ heard_age' = Min2(heard_age + 1, IF status.playback = "Playing" THEN status.fill ELSE 0)
    /\ est_age' = Min2(est_age + 1, est.fill)
    /\ sent_age' = IF Waiting THEN Min2(sent_age + 1, Ring) ELSE 0
    /\ ping_age' = Min2(ping_age + 1, PingInterval)
    /\ estop_age' = Min2(estop_age + 1, EstopRetry)
    /\ UNCHANGED <<scenario, profile, link, wire, replies, expect, nak, status, stale, closing,
                   landed, est, last_rate, skip_version, callerVars, historyVars>>

DeviceStep == DeviceHandles /\ Elsewhere /\ UNCHANGED <<events, calm, shared>>

StaleStep ==
    /\ StaleHandled
    /\ shared' = (shared \/ link)
    /\ Elsewhere /\ UNCHANGED <<events, calm>>

CloseStep == CloseNoticed /\ Elsewhere /\ UNCHANGED <<events, calm, shared>>

\* The emergency stop button, and the interlock, which somebody closes again.
EstopPressed ==
    /\ Disturbance("estop")
    /\ Estop
    /\ UNCHANGED <<interlock, profile, streamVars, shared>> /\ Elsewhere

InterlockOpens ==
    /\ Disturbance("interlock")
    /\ interlock /\ SetInterlock(FALSE)
    /\ UNCHANGED <<profile, streamVars, shared>> /\ Elsewhere

InterlockCloses ==
    /\ ~interlock /\ SetInterlock(TRUE)
    /\ UNCHANGED <<profile, streamVars, events, calm, shared>> /\ Elsewhere

\* Another client drives the same playback state.
ForeignCommand ==
    /\ Disturbance("foreign")
    /\ \E c \in {Cmd("p"), CmdWith("b", 1), Cmd("s"), CmdWith("d", 1), CmdWith("d", Ring)} :
        \E code \in Codes : Handle(c, code)
    /\ shared' = TRUE
    /\ UNCHANGED <<profile, streamVars>> /\ Elsewhere

\* Frames out of turn. The reply to 'v' is read raw and takes none.
Unasked ==
    /\ pc \notin {"hello", "version"}
    /\ \/ Disturbance("unsolicited") /\ Unsolicited /\ UNCHANGED shared
       \/ Disturbance("duplicate") /\ Duplicated /\ shared' = TRUE
    /\ Elsewhere

\* Frames that are read without an answer being complete.
ReadStep ==
    /\ SkipFrame \/ ReadReply
    /\ Elsewhere /\ UNCHANGED <<events, calm, shared>>

ClientStep ==
    \/ Connect \/ Hello \/ Version \/ VersionResets
    \/ Compose
    \/ ClearEstop \/ Cleared \/ ClearPinged
    \/ WarmupPing \/ WarmupPinged
    \/ FirstPass \/ PreparePass \/ Prepared
    \/ SendPass \/ BlockedPass \/ BegunFull
    \/ DataRefused \/ DataAcked \/ Begun
    \/ Stopped \/ Disconnected \/ Fails
    \/ ReadStep

Environment ==
    \/ SetRate \/ Stop \/ Disconnect \/ LinkFails
    \/ EstopPressed \/ InterlockOpens \/ ForeignCommand \/ Unasked

Next ==
    \/ ClientStep
    \/ Tick \/ DeviceStep \/ StaleStep \/ CloseStep \/ InterlockCloses
    \/ Environment

Spec == Init /\ [][Next]_vars

\* The client's thread and the DAC keep running, time passes, and whoever
\* opened the interlock closes it again.
FairSpec ==
    /\ Spec
    /\ WF_vars(ClientStep)
    /\ WF_vars(DeviceStep) /\ WF_vars(StaleStep) /\ WF_vars(CloseStep)
    /\ WF_vars(Tick) /\ WF_vars(InterlockCloses)

-------------------------------------------------------------------------------
(* Properties *)

\* No command of the client is under way.
Settled == link /\ expect = <<>> /\ wire = <<>>

\* The two anchors of a status bracket the truth: while the DAC plays, the
\* adapter's estimate is never above what the ring holds, and the fullness the
\* admission check uses is never below it.
Bracketed ==
    Settled /\ ~shared /\ playback = "Playing" /\ status.playback = "Playing" =>
        Estimated(DrainPps) <= fill /\ fill <= DecayFullness

\* A chunk is sent only when it is sure to fit: unless another client uses the
\* ring, a 'd' on the wire has room when the DAC is not idle.
NeverOverfull ==
    wire # <<>> /\ Head(wire).op = "d" /\ ~shared /\ playback # "Idle" =>
        Head(wire).arg <= Space

\* A cached idle status is the truth. disconnect() relies on it to skip the stop.
IdleTruth ==
    Settled /\ ~shared /\ status.playback = "Idle" => playback = "Idle"

\* A disconnect leaves the DAC idle.
LeftIdle == pc = "down" /\ clean /\ ~shared => playback = "Idle"

\* write_points returns Written only for a chunk that went into the ring.
\* Firmware that acknowledges and drops data while idle can make it lie, but
\* only if the stream ends twice in one call.
WrittenLanded ==
    [][(pc \in {"data", "begin"} /\ pc' = "adapter" /\ ~shared) =>
        (landed \/ (~profile.data_while_idle_naks /\ retried /\ ~calm))]_vars

\* Every chunk is taken in the end, or given up with the link.
ChunkTaken == (chunk > 0) ~> (chunk = 0)

\* Whatever happened, the DAC plays again.
PlaysAgain == []<>(playback = "Playing")

\* The host's picture of the DAC errs only on the safe side: the fullness is
\* bracketed, what is sent fits, idle means idle, and a disconnect leaves it idle.
StatusSound == TypeOK /\ Bracketed /\ NeverOverfull /\ IdleTruth /\ LeftIdle

\* Whatever interrupts the stream, chunks are taken and the DAC plays again.
StreamRecovers == ChunkTaken /\ PlaysAgain
===============================================================================
