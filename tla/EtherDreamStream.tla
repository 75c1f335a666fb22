--------------------------- MODULE EtherDreamStream ---------------------------
(***************************************************************************)
(* The Ether Dream at the other end of a connection, and the connection.   *)
(***************************************************************************)
EXTENDS Naturals, Sequences

-----------------------------------------------------------------------------
(***************************************************************************)
(* An Ether Dream DAC as its clients see it, from the repository's         *)
(* simulator (sim/model.rs), which reproduces each firmware profile        *)
(* (profile.rs).  Points are counted, not named.  Time is a tick in which  *)
(* a playing device plays `rate` points.                                   *)
(*                                                                         *)
(* Each command is an operator over the device's state and the code of the *)
(* reply, so that it serves the client that is modelled and the other      *)
(* clients of the device alike: all share one playback state.              *)
(***************************************************************************)

CONSTANTS
    Ring,       \* ring_points, which is what the firmware advertises
    WarmupTime  \* ticks a light engine warms up

\* The behaviour flags of FirmwareProfile that a client can meet.
Profile ==
    [naks_full : BOOLEAN,             \* an overfull 'd' is refused with NAK-Full
     partial_write : BOOLEAN,         \* otherwise: it is stored as far as it fits
     begin_while_idle_acked : BOOLEAN,
     stop_while_idle_naks : BOOLEAN,
     stale_fullness : BOOLEAN,        \* the ring keeps its points until a prepare
     estop_clear_immediate : BOOLEAN,
     data_while_idle_naks : BOOLEAN,
     close_stops_playback : BOOLEAN,
     version : {"answers", "naks", "resets"}]

ASSUME DeviceAssumption ==
    /\ Ring \in Nat \ {0}
    /\ WarmupTime \in Nat \ {0}

VARIABLES
    profile,
    light,      \* light_engine
    interlock,  \* interlock_ok
    playback,
    fill,       \* ring.len()
    rate,       \* seg_rate
    warm        \* ticks until warmup_until, 0 for None

deviceVars == <<light, interlock, playback, fill, rate, warm>>

LightEngine == {"Ready", "Warmup", "EmergencyStop"}
Playback == {"Idle", "Prepared", "Playing"}
Codes == {"ACK", "Full", "Invalid", "StopCondition"}

\* What status() reports. The rate is known only while playing.
StatusOf(l, p, f, r) ==
    [light |-> l, playback |-> p, fill |-> f, rate |-> IF p = "Playing" THEN r ELSE 0]

DeviceStatus == StatusOf(light, playback, fill, rate)

DeviceTypeOK ==
    /\ profile \in Profile
    /\ light \in LightEngine
    /\ interlock \in BOOLEAN
    /\ playback \in Playback
    /\ fill \in 0..Ring
    /\ rate \in Nat
    /\ warm \in 0..WarmupTime

\* A freshly booted DAC.
DeviceInit ==
    /\ light = "Ready" /\ interlock = TRUE
    /\ playback = "Idle" /\ fill = 0 /\ rate = 0 /\ warm = 0

-------------------------------------------------------------------------------
(* Commands *)

\* A command refused in an emergency stop draws either NAK.
Refusal == IF light = "Ready" THEN {"Invalid"} ELSE {"Invalid", "StopCondition"}

HandlePrepare(code) ==
    IF playback = "Idle" /\ light = "Ready"
    THEN /\ code = "ACK"
         /\ playback' = "Prepared" /\ fill' = 0
         /\ UNCHANGED <<light, interlock, rate, warm>>
    ELSE /\ code \in Refusal
         /\ UNCHANGED deviceVars

HandleBegin(r, code) ==
    IF playback = "Idle"
    THEN /\ code \in IF profile.begin_while_idle_acked THEN {"ACK"} ELSE Refusal
         /\ UNCHANGED deviceVars
    ELSE /\ code = "ACK"
         /\ playback' = "Playing" /\ rate' = r
         /\ UNCHANGED <<light, interlock, fill, warm>>

HandleUpdate(r, code) ==
    /\ code = "ACK"
    /\ rate' = IF playback = "Playing" THEN r ELSE rate
    /\ UNCHANGED <<light, interlock, playback, fill, warm>>

Space == Ring - fill

\* What an overfull write leaves in the ring.
Overfull(code) ==
    IF profile.naks_full
    THEN code = "Full" /\ UNCHANGED fill
    ELSE code = "Invalid" /\ fill' = IF profile.partial_write THEN Ring ELSE fill

HandleData(n, code) ==
    /\ IF playback = "Idle"
       THEN /\ code \in IF profile.data_while_idle_naks THEN Refusal ELSE {"ACK"}
            /\ UNCHANGED fill
       ELSE IF n <= Space THEN code = "ACK" /\ fill' = fill + n ELSE Overfull(code)
    /\ UNCHANGED <<light, interlock, playback, rate, warm>>

\* What is left in the ring when a stream ends without an underflow.
FillAfterEnd == IF profile.stale_fullness THEN fill ELSE 0

HandleStop(code) ==
    IF playback = "Idle"
    THEN /\ code = IF profile.stop_while_idle_naks THEN "Invalid" ELSE "ACK"
         /\ UNCHANGED deviceVars
    ELSE /\ code = "ACK"
         /\ playback' = "Idle" /\ rate' = 0 /\ fill' = FillAfterEnd
         /\ UNCHANGED <<light, interlock, warm>>

\* 'c' is acknowledged only if it leaves the light engine ready.
HandleClear(code) ==
    /\ IF interlock /\ light = "EmergencyStop"
       THEN IF profile.estop_clear_immediate
            THEN light' = "Ready" /\ UNCHANGED warm
            ELSE light' = "Warmup" /\ warm' = WarmupTime
       ELSE UNCHANGED <<light, warm>>
    /\ code = IF interlock /\ light' = "Ready" THEN "ACK" ELSE "StopCondition"
    /\ UNCHANGED <<interlock, playback, fill, rate>>

HandlePing(code) == code = "ACK" /\ UNCHANGED deviceVars

\* 'v' is answered with the build string, or like any unknown command: by a NAK
\* or, if ResetsOnVersion, by a reset of the connection.
HandleVersion(code) ==
    /\ code = IF profile.version = "answers" THEN "ACK" ELSE "Invalid"
    /\ UNCHANGED deviceVars

ResetsOnVersion == profile.version = "resets"

-------------------------------------------------------------------------------
(* What happens to the device without a command *)

\* estop()
Estop ==
    /\ light' = "EmergencyStop" /\ warm' = 0
    /\ playback' = "Idle" /\ rate' = 0 /\ fill' = FillAfterEnd

\* Opening the interlock is an emergency stop.
SetInterlock(ok) ==
    /\ interlock' = ok
    /\ IF interlock /\ ~ok THEN Estop ELSE UNCHANGED <<light, playback, fill, rate, warm>>

\* connection_closed: the client's TCP connection is gone.
ConnectionClosed ==
    /\ IF profile.close_stops_playback /\ playback = "Playing"
       THEN playback' = "Idle" /\ rate' = 0 /\ fill' = FillAfterEnd
       ELSE UNCHANGED <<playback, rate, fill>>
    /\ UNCHANGED <<light, interlock, warm>>

\* advance_to, by one tick. A point that is due and not there is an underflow.
Advance ==
    /\ IF warm > 0
       THEN warm' = warm - 1 /\ light' = IF warm = 1 THEN "Ready" ELSE light
       ELSE UNCHANGED <<warm, light>>
    /\ IF playback = "Playing"
       THEN IF rate <= fill
            THEN fill' = fill - rate /\ UNCHANGED <<playback, rate>>
            ELSE fill' = 0 /\ playback' = "Idle" /\ rate' = 0
       ELSE UNCHANGED <<fill, playback, rate>>
    /\ UNCHANGED interlock

-----------------------------------------------------------------------------
(***************************************************************************)
(* The TCP stream between a client and an Ether Dream (dac/stream.rs): the *)
(* commands on the wire, the replies, the status the client caches from    *)
(* every reply, and how submit matches replies with commands.              *)
(*                                                                         *)
(* TCP delivers in order.  What can go wrong is that the connection fails, *)
(* that the DAC sends a frame nobody asked for, that it sends a reply      *)
(* twice, and that a connection dropped with commands on the wire still    *)
(* delivers some of them while its successor is already in use.            *)
(***************************************************************************)

VARIABLES
    link,      \* the client holds a stream
    wire,      \* commands on their way to the DAC: [op, arg]
    replies,   \* frames on their way to the client: [op, code, status]
    expect,    \* opcodes of the submitted batch that are not answered yet
    nak,       \* first_nak of the batch: [op, code], NoNak when all were ACKed
    sent_age,  \* ticks since the batch was sent
    status,    \* dac().status: the status in the last frame read
    stale,     \* commands a dropped connection still delivers
    closing,   \* the DAC has not noticed yet that a connection was dropped
    landed     \* history: the DAC took the last 'd' of this client into its ring

streamVars == <<link, wire, replies, expect, nak, sent_age, status, stale, closing, landed>>

Ops == {"p", "b", "u", "d", "s", "c", "?", "v"}
Status == [light : LightEngine, playback : Playback, fill : 0..Ring, rate : Nat]
Command == [op : Ops, arg : Nat]
Frame == [op : Ops \cup {"other"}, code : Codes, status : Status]
NoNak == [op |-> "none", code |-> "ACK"]
Unknown == StatusOf("Ready", "Idle", 0, 0)

Cmd(op) == [op |-> op, arg |-> 0]
CmdWith(op, arg) == [op |-> op, arg |-> arg]
Min2(a, b) == IF a <= b THEN a ELSE b

StreamTypeOK ==
    /\ link \in BOOLEAN
    /\ wire \in Seq(Command) /\ stale \in Seq(Command)
    /\ replies \in Seq(Frame)
    /\ expect \in Seq(Ops)
    /\ nak \in [op : Ops \cup {"none"}, code : Codes]
    /\ sent_age \in 0..Ring
    /\ status \in Status
    /\ closing \in BOOLEAN /\ landed \in BOOLEAN

StreamInit ==
    /\ link = FALSE /\ wire = <<>> /\ replies = <<>> /\ expect = <<>> /\ nak = NoNak
    /\ sent_age = 0 /\ status = Unknown /\ stale = <<>> /\ closing = FALSE
    /\ landed = FALSE

-------------------------------------------------------------------------------
(* The DAC's end *)

\* What the firmware does with a command.
Handle(c, code) ==
    \/ c.op = "p" /\ HandlePrepare(code)
    \/ c.op = "b" /\ HandleBegin(c.arg, code)
    \/ c.op = "u" /\ HandleUpdate(c.arg, code)
    \/ c.op = "d" /\ HandleData(c.arg, code)
    \/ c.op = "s" /\ HandleStop(code)
    \/ c.op = "c" /\ HandleClear(code)
    \/ c.op = "?" /\ HandlePing(code)
    \/ c.op = "v" /\ HandleVersion(code)

\* Every reply carries the status after the command.
DeviceHandles ==
    /\ link /\ wire # <<>>
    /\ ~(Head(wire).op = "v" /\ ResetsOnVersion)
    /\ \E code \in Codes :
        /\ Handle(Head(wire), code)
        /\ replies' = Append(replies, [op |-> Head(wire).op, code |-> code,
                                       status |-> StatusOf(light', playback', fill', rate')])
        /\ landed' = IF Head(wire).op = "d" THEN code = "ACK" /\ playback # "Idle" ELSE landed
    /\ wire' = Tail(wire)
    /\ UNCHANGED <<profile, link, expect, nak, sent_age, status, stale, closing>>

\* A command of a dropped connection. Nobody reads its reply.
StaleHandled ==
    /\ stale # <<>>
    /\ \E code \in Codes : Handle(Head(stale), code)
    /\ stale' = Tail(stale)
    /\ UNCHANGED <<profile, link, wire, replies, expect, nak, sent_age, status, closing, landed>>

\* The DAC notices a dropped connection once it has read all of it. Only the
\* last connection to close counts as a disconnect.
CloseNoticed ==
    /\ closing /\ stale = <<>>
    /\ closing' = FALSE
    /\ IF link THEN UNCHANGED deviceVars ELSE ConnectionClosed
    /\ UNCHANGED <<profile, link, wire, replies, expect, nak, sent_age, status, stale, landed>>

\* The DAC sends a frame nobody asked for: an ACK or a NAK-Invalid.
Unsolicited ==
    /\ link
    /\ \E code \in {"ACK", "Invalid"} :
        replies' = Append(replies, [op |-> "other", code |-> code, status |-> DeviceStatus])
    /\ UNCHANGED <<profile, deviceVars, link, wire, expect, nak, sent_age, status,
                   stale, closing, landed>>

\* The DAC sends its last reply twice.
Duplicated ==
    /\ link /\ replies # <<>>
    /\ replies' = Append(replies, replies[Len(replies)])
    /\ UNCHANGED <<profile, deviceVars, link, wire, expect, nak, sent_age, status,
                   stale, closing, landed>>

-------------------------------------------------------------------------------
(* The client's end *)

\* submit: the batch is written, then one reply per command is read.
Submit(cs) ==
    /\ wire' = wire \o cs
    /\ expect' = [k \in 1..Len(cs) |-> cs[k].op]
    /\ nak' = NoNak
    /\ sent_age' = 0
    /\ UNCHANGED <<link, replies, status, stale, closing, landed>>

\* connect_inner: the DAC greets every connection with an ACK for '?'.
OpenStream ==
    /\ ~link
    /\ link' = TRUE
    /\ replies' = <<[op |-> "?", code |-> "ACK", status |-> DeviceStatus]>>
    /\ expect' = <<"?">>
    /\ nak' = NoNak /\ wire' = <<>> /\ sent_age' = 0
    /\ UNCHANGED <<status, stale, closing, landed>>

\* The stream is dropped. The DAC still reads what had reached it.
DropStream ==
    /\ link' = FALSE
    /\ stale' \in {SubSeq(wire, 1, k) : k \in 0..Len(wire)}
    /\ closing' = TRUE
    /\ wire' = <<>> /\ replies' = <<>> /\ expect' = <<>> /\ nak' = NoNak /\ sent_age' = 0
    /\ UNCHANGED <<status, landed>>

Waiting == link /\ expect # <<>>
Matches == Waiting /\ replies # <<>> /\ Head(replies).op = Head(expect)

\* recv_response_buffered skips a frame for another command, if it is an ACK
\* or a NAK-Invalid. The status of a skipped frame is taken all the same.
SkipFrame ==
    /\ Waiting /\ replies # <<>> /\ ~Matches
    /\ Head(replies).code \in {"ACK", "Invalid"}
    /\ status' = Head(replies).status
    /\ replies' = Tail(replies)
    /\ UNCHANGED <<profile, deviceVars, link, wire, expect, nak, sent_age, stale, closing, landed>>

\* Any other frame for another command is an error.
Desynced ==
    /\ Waiting /\ replies # <<>> /\ ~Matches
    /\ Head(replies).code \notin {"ACK", "Invalid"}

FirstNak ==
    IF nak = NoNak /\ Head(replies).code # "ACK"
    THEN [op |-> Head(replies).op, code |-> Head(replies).code] ELSE nak

\* A reply that is not the last of its batch: submit reads on even after a NAK.
ReadReply ==
    /\ Matches /\ Len(expect) > 1
    /\ nak' = FirstNak
    /\ status' = Head(replies).status
    /\ replies' = Tail(replies) /\ expect' = Tail(expect)
    /\ UNCHANGED <<profile, deviceVars, link, wire, sent_age, stale, closing, landed>>

\* The last reply of the batch is there: submit is about to return FirstNak.
Answered == Matches /\ Len(expect) = 1

\* That reply is read, leaving the status s, and the next batch (if there is
\* one) is submitted.
TakeReplyAs(s, cs) ==
    /\ status' = s
    /\ replies' = Tail(replies)
    /\ wire' = wire \o cs
    /\ expect' = [k \in 1..Len(cs) |-> cs[k].op]
    /\ nak' = NoNak /\ sent_age' = 0
    /\ UNCHANGED <<link, stale, closing, landed>>

TakeReply(cs) == TakeReplyAs(Head(replies).status, cs)

===============================================================================
