------------------------------ MODULE LaserCubeUsb ------------------------------
(***************************************************************************)
(* The LaserCube USB backend (protocols/lasercube_usb) under the session   *)
(* that drives it.  Every control command is a request and an answer; an   *)
(* answer is taken for that of the last command.  Data goes to a blocking  *)
(* endpoint, at the pace at which the device plays what is in its ring,    *)
(* which it does while its output is enabled.                              *)
(*                                                                         *)
(* A place of the driver's thread is a point of its own code or a call of  *)
(* the backend, which runs the commands of that call in order until one    *)
(* fails.  Dropping the stream is a call as well: it stops the output and  *)
(* releases the interfaces.  Arming and the rate are as the application    *)
(* left them; what the driver makes of their edges is in SessionDriver.    *)
(***************************************************************************)
EXTENDS UsbEndpoints

CONSTANTS
    MaxDacRate,     \* the device's maximum, in units of the rates of Pps
    Pps,            \* rates the application asks for
    Version,        \* what the device answers where it is not asked for a rate
    RunnerCmds,     \* packets of clear_runner_mode
    Packets,        \* bulk packets of a chunk
    RingPackets     \* packets the ring holds

VARIABLES
    out, dac_rate, ring,        \* the device: output, rate, packets in the ring
    lc, idx, waiting,           \* place, command of the call, its request is sent
    ret,                        \* place after a teardown
    stream,                     \* the backend has a stream
    info,                       \* what was read of the device: max and rate
    armed, pps, lc_stop,        \* the application's wishes
    want, stepped,              \* armed as read for the shutter and for the step
    handled, shutter,           \* the driver's state
    chunk_rate,                 \* the rate of the chunk in hand
    unsaid                      \* of `off` and `rate`: the last one was not taken or was refused

cubeVars == <<out, dac_rate, ring>>
wishVars == <<armed, pps, lc_stop>>
passVars == <<want, stepped, chunk_rate>>
lcVars == <<usbVars, cubeVars, wishVars, passVars,
            lc, idx, waiting, ret, stream, info, handled, shutter, unsaid>>

Runner == [i \in 1..RunnerCmds |-> "runner"]

\* Faulty variant: a stream that is dropped only releases its interfaces.
CommandsDropQuietly ==
    [runner |-> Runner, refresh |-> <<"get_max", "get_rate">>, enable |-> <<"on">>,
     first_close |-> <<"off">>, give_up |-> <<"off">>,
     reset |-> <<"clear">>, open |-> <<"on">>, shut |-> <<"off">>, force_close |-> <<"off">>,
     rate |-> <<"rate">>, last_close |-> <<"off">>, end_stop |-> <<"off", "clear">>,
     stop |-> <<"off", "clear">>, drop |-> <<"clear">>]

\* The commands of a call. Of the eleven values that refresh_device_info reads the
\* two that the backend uses are here.
Commands ==
    [runner |-> Runner, refresh |-> <<"get_max", "get_rate">>, enable |-> <<"on">>,
     first_close |-> <<"off">>, give_up |-> <<"off">>,
     reset |-> <<"clear">>, open |-> <<"on">>, shut |-> <<"off">>, force_close |-> <<"off">>,
     rate |-> <<"rate">>, last_close |-> <<"off">>, end_stop |-> <<"off", "clear">>,
     stop |-> <<"off", "clear">>, drop |-> <<"off", "clear">>]

CubeCalls == DOMAIN Commands

\* Where the driver goes after a call that succeeds, and after one that fails for
\* the moment. A failure for good drops the stream.
Then ==
    [runner |-> "refresh", refresh |-> "enable", enable |-> "first_close",
     first_close |-> "accept", give_up |-> "stop", reset |-> "open", open |-> "step",
     shut |-> "step", force_close |-> "stop", rate |-> "data", last_close |-> "end_stop",
     end_stop |-> "stop", stop |-> "drop", drop |-> "released"]

Else ==
    [Then EXCEPT !.refresh = "drop", !.enable = "drop", !.first_close = "give_up",
                 !.reset = "force_close", !.rate = "stop"]

\* Where it goes on when the stream is gone.
Return ==
    [refresh |-> "retry", enable |-> "retry", first_close |-> "retry", reset |-> "scan",
     open |-> "scan", shut |-> "top", rate |-> "scan"]

LcPlaces == CubeCalls \cup {"scan", "retry", "accept", "released", "top", "step", "data", "end"}

LcTypeOK ==
    /\ out \in BOOLEAN /\ dac_rate \in 1..MaxDacRate /\ ring \in 0..RingPackets
    /\ lc \in LcPlaces /\ idx \in Nat /\ waiting \in BOOLEAN
    /\ ret \in {"retry", "scan", "top", "end"}
    /\ {stream, armed, lc_stop, want, stepped, handled} \subseteq BOOLEAN
    /\ unsaid \subseteq {"off", "rate"}
    /\ pps \in Pps /\ chunk_rate \in Nat
    /\ shutter \in {"Closed", "Open", "Unknown"}

LcInit(place) ==
    /\ out = FALSE /\ dac_rate = 1 /\ ring = 0
    /\ lc = place /\ idx = 1 /\ waiting = FALSE /\ ret = "scan"
    /\ stream = FALSE /\ info = [max |-> 0, rate |-> 0]
    /\ armed = FALSE /\ pps \in Pps /\ lc_stop = FALSE
    /\ want = FALSE /\ stepped = FALSE /\ handled = FALSE /\ shutter = "Closed"
    /\ chunk_rate = 0 /\ unsaid = {}

Goto(p) == lc' = p /\ idx' = 1 /\ waiting' = FALSE

-------------------------------------------------------------------------------
(* Calls *)

Cmd == Commands[lc][idx]

\* What the answer to a command changes in the stream.
Learn(value) ==
    info' = CASE Cmd = "get_max" -> [info EXCEPT !.max = value]
              [] Cmd = "get_rate" -> [info EXCEPT !.rate = value]
              [] Cmd = "rate" -> [info EXCEPT !.rate = chunk_rate]
              [] OTHER -> info

\* What the end of a call changes in the driver.
Settle(ok) ==
    /\ handled' = CASE lc = "reset" /\ ok -> TRUE
                    [] lc = "shut" -> FALSE
                    [] OTHER -> handled
    /\ shutter' = CASE lc = "open" -> IF ok THEN "Open" ELSE "Unknown"
                    [] lc \in {"shut", "force_close", "last_close"} -> IF ok THEN "Closed" ELSE "Unknown"
                    [] OTHER -> shutter

CallOk(value) ==
    /\ Learn(value)
    /\ IF idx < Len(Commands[lc])
       THEN idx' = idx + 1 /\ waiting' = FALSE /\ UNCHANGED <<lc, handled, shutter>>
       ELSE Goto(Then[lc]) /\ Settle(TRUE)
    /\ UNCHANGED ret

\* clear_runner_mode does not look at the outcome of its commands, and reads an
\* answer even to one it could not send; the end of a teardown does not depend on it.
CallFails(e) ==
    IF lc = "runner" THEN CallOk(0)
    ELSE /\ Goto(IF Fatal(e) /\ lc # "drop" THEN "drop" ELSE Else[lc])
         /\ Settle(FALSE)
         /\ ret' = IF lc \in DOMAIN Return THEN Return[lc] ELSE ret
         /\ UNCHANGED info

SendFails(e) ==
    IF lc = "runner" THEN waiting' = TRUE /\ UNCHANGED <<lc, idx, ret, info, handled, shutter>>
    ELSE CallFails(e)

\* send_control
Send ==
    /\ lc \in CubeCalls /\ ~waiting
    /\ \/ /\ Submit(Cmd, chunk_rate) /\ waiting' = TRUE
          /\ unsaid' = unsaid \ {Cmd}
          /\ UNCHANGED <<lc, idx, ret, info, handled, shutter>>
       \/ /\ \E e \in Errors : TransferFails(e) /\ SendFails(e)
          /\ unsaid' = unsaid \cup ({Cmd} \cap {"off", "rate"}) /\ UNCHANGED pipeVars
    /\ UNCHANGED <<busVars, cubeVars, wishVars, passVars, stream>>

\* receive_control and the status byte of the answer.
Receive ==
    /\ lc \in CubeCalls /\ waiting
    /\ \E what \in {"runner", "get_max", "get_rate", "on", "off", "clear", "rate"} : Take(what)
    /\ IF Head(replies).ok THEN CallOk(Head(replies).value) ELSE CallFails("Invalid")
    /\ UNCHANGED <<busVars, cubeVars, wishVars, passVars, stream, unsaid>>

ReceiveFails ==
    /\ lc \in CubeCalls /\ waiting
    /\ \E e \in Errors : ReadFails(e) /\ CallFails(e)
    /\ StopWaiting
    /\ UNCHANGED <<busVars, cubeVars, wishVars, passVars, stream, unsaid>>

-------------------------------------------------------------------------------
(* The driver *)

Rest == UNCHANGED <<budget, glitched, pipeVars, cubeVars, wishVars, info, unsaid>>
Stay == UNCHANGED <<present, silent, claim, stream>>

\* A scan finds the device by its serial number, and connect opens a stream.
ConnectCube ==
    /\ lc = "scan" /\ present /\ claim = "free"
    /\ claim' = "session" /\ Goto("runner")
    /\ Rest /\ UNCHANGED <<present, silent, stream, passVars, ret, handled, shutter>>

NotFound ==
    /\ lc = "scan" /\ ~present /\ Goto("retry")
    /\ Rest /\ Stay /\ UNCHANGED <<passVars, ret, handled, shutter>>

RetryCube ==
    /\ lc = "retry" /\ Goto(IF lc_stop THEN "end" ELSE "scan")
    /\ Rest /\ Stay /\ UNCHANGED <<passVars, ret, handled, shutter>>

\* The second validation: the rate has to be in the range that was read.
Fits == info.max = 0 \/ pps <= info.max

AcceptCube ==
    /\ lc = "accept"
    /\ IF Fits
       THEN Goto("top") /\ stream' = TRUE /\ UNCHANGED ret
       ELSE Goto("give_up") /\ ret' = "end" /\ UNCHANGED stream
    /\ handled' = FALSE /\ shutter' = "Closed"
    /\ Rest /\ UNCHANGED <<busVars, passVars>>

\* The end of Stream::drop, and of the handle in it.
Released ==
    /\ lc = "released" /\ Goto(ret)
    /\ stream' = FALSE /\ claim' = IF Attached THEN "free" ELSE claim
    /\ Rest /\ UNCHANGED <<present, silent, passVars, ret, handled, shutter>>

\* The head of the loop and handle_shutter_transition. Without a stream the calls of
\* a stop have nothing to do.
Transition(w) ==
    IF w # handled THEN IF w THEN "reset" ELSE IF shutter # "Closed" THEN "shut" ELSE "step"
    ELSE IF w /\ shutter # "Open" THEN "open"
    ELSE IF ~w /\ shutter # "Closed" THEN "shut" ELSE "step"

TopCube ==
    /\ lc = "top"
    /\ IF ~stream THEN Goto(IF lc_stop THEN "end" ELSE "scan") /\ UNCHANGED <<ret, want, handled>>
       ELSE IF lc_stop THEN Goto("last_close") /\ ret' = "end" /\ UNCHANGED <<want, handled>>
       ELSE /\ want' = armed /\ Goto(Transition(armed)) /\ UNCHANGED ret
            /\ handled' = (handled /\ armed)
    /\ Rest /\ Stay /\ UNCHANGED <<stepped, chunk_rate, shutter>>

\* effective_rate
EffectiveRate == IF info.max > 0 /\ info.max < pps THEN info.max ELSE pps

\* BlockingFifoAdapter::step reads the arm state for itself, and writes a chunk.
Step ==
    /\ lc = "step" /\ stepped' = armed
    /\ IF armed
       THEN chunk_rate' = EffectiveRate /\ Goto(IF info.rate # chunk_rate' THEN "rate" ELSE "data")
       ELSE Goto("top") /\ UNCHANGED chunk_rate
    /\ Rest /\ Stay /\ UNCHANGED <<want, ret, handled, shutter>>

\* send_data_to_endpoint: one packet, once there is room for it.
SendPacket ==
    /\ lc = "data" /\ Attached /\ ~silent /\ ring < RingPackets
    /\ ring' = ring + 1
    /\ IF idx < Packets THEN idx' = idx + 1 /\ UNCHANGED <<lc, waiting>> ELSE Goto("top")
    /\ UNCHANGED <<usbVars, out, dac_rate, wishVars, info, unsaid, stream, passVars, ret, handled, shutter>>

SendPacketFails ==
    /\ lc = "data" /\ (\E e \in {"NoDevice", "Io"} : TransferFails(e))
    /\ Goto("drop") /\ ret' = "scan"
    /\ UNCHANGED <<pipeVars, cubeVars, wishVars, info, unsaid, busVars, stream, passVars, handled, shutter>>

LcThread ==
    \/ Send \/ Receive \/ ReceiveFails
    \/ ConnectCube \/ NotFound \/ RetryCube \/ AcceptCube \/ Released
    \/ TopCube \/ Step \/ SendPacket \/ SendPacketFails

-------------------------------------------------------------------------------
(* The device and the application *)

driverVars == <<lc, idx, waiting, ret, stream, info, handled, shutter, passVars>>

\* The device carries out a command and answers. A bad answer, with an error status
\* or of the wrong size, may be that to a command which was carried out.
AnswerCube ==
    /\ \E what \in {"on", "off", "clear", "rate", "get_max", "get_rate"}, good \in BOOLEAN :
          /\ Handle(what, TRUE, good, CASE what = "get_max" -> MaxDacRate
                                       [] what = "get_rate" -> dac_rate
                                       [] OTHER -> Version)
          /\ IF good THEN UNCHANGED budget ELSE Spend("refuse")
          /\ \E obeyed \in {TRUE, good} :
                /\ out' = (IF obeyed /\ what \in {"on", "off"} THEN what = "on" ELSE out)
                /\ dac_rate' = (IF obeyed /\ what = "rate" THEN Head(reqs).arg ELSE dac_rate)
                /\ ring' = (IF obeyed /\ what = "clear" THEN 0 ELSE ring)
                /\ unsaid' = (IF obeyed THEN unsaid ELSE unsaid \cup ({what} \cap {"off", "rate"}))
    /\ UNCHANGED <<wishVars, driverVars>>

\* Runner mode is not known to older firmware, which refuses it or says nothing.
AnswerRunner ==
    /\ Handle("runner", budget.runner # "mute", budget.runner = "known", Version)
    /\ UNCHANGED <<budget, unsaid, cubeVars, wishVars, driverVars>>

Play ==
    /\ present /\ ~silent /\ out /\ ring > 0 /\ ring' = ring - 1
    /\ UNCHANGED <<usbVars, out, dac_rate, wishVars, driverVars, unsaid>>

\* The application, which need not do anything.
Wish ==
    /\ \/ armed' = ~armed /\ UNCHANGED <<pps, lc_stop>>
       \/ pps' \in Pps \ {pps} /\ UNCHANGED <<armed, lc_stop>>
       \/ budget.stop /\ ~lc_stop /\ lc_stop' = TRUE /\ UNCHANGED <<armed, pps>>
    /\ UNCHANGED <<usbVars, cubeVars, driverVars, unsaid>>

\* A device that was unplugged comes back as it was switched on.
LcBus ==
    /\ \/ (Hang \/ Unplug) /\ UNCHANGED <<cubeVars, unsaid>>
       \/ Plug /\ out' = FALSE /\ dac_rate' = 1 /\ ring' = 0 /\ unsaid' = {}
    /\ UNCHANGED <<wishVars, driverVars>>

LcNext == LcThread \/ AnswerCube \/ AnswerRunner \/ Play \/ Wish \/ LcBus

LcSpec == UsbInit /\ LcInit("scan") /\ [][LcNext]_lcVars

-------------------------------------------------------------------------------
(* Properties *)

\* The output and the rate once the device has handled what it was sent.
OutAfter ==
    LET said == {i \in DOMAIN reqs : reqs[i].what \in {"on", "off"}}
    IN IF said = {} THEN out ELSE reqs[CHOOSE i \in said : \A j \in said : j <= i].what = "on"

RateAfter ==
    LET said == {i \in DOMAIN reqs : reqs[i].what = "rate"}
    IN IF said = {} THEN dac_rate ELSE reqs[CHOOSE i \in said : \A j \in said : j <= i].arg

\* No device is left lit when its stream is gone, whatever call failed at whatever
\* command: connect enables the output, and Stream::drop disables it, unless the
\* device did not take or refused even that.
UnownedDark == lc \in {"scan", "retry", "end"} /\ present => ~OutAfter \/ "off" \in unsaid

\* An answer is taken for that of the last command, so one that comes too late moves
\* all that follow, also those of the next stream. The shift is that of the answers
\* that were given up, and of no other command that failed.
Old(q) == {i \in DOMAIN q : ~q[i].fresh}

AnswersLag == Cardinality(Old(reqs)) + Cardinality(Old(replies)) <= late

\* Once the driver holds the shutter to be closed the output is off: an answer is
\* not taken for that of another command and a refusal not for consent. If an answer
\* was late, the output goes off with what the device has been sent, unless that is
\* what it refuses.
ClosedIsOff ==
    lc \in {"top", "step", "data"} /\ stream /\ shutter = "Closed" =>
        ~out \/ (late > 0 /\ (~OutAfter \/ "off" \in unsaid))

\* The maximum rate that becomes the capability, and that the session's rate is
\* validated against, is the device's, whatever its firmware makes of the runner
\* commands before it.
InfoTrue == stream => info.max = MaxDacRate \/ late > 0

\* A chunk is written at the rate that write_frame returns to the estimator. If an
\* answer was late after the device was read, at the rate that the device has been sent,
\* unless that is what it refuses; if it was before, the cached rate may be another value.
AtRate ==
    lc = "data" /\ Attached =>
        \/ dac_rate = chunk_rate
        \/ late > 0 /\ (info.max = MaxDacRate => RateAfter = chunk_rate \/ "rate" \in unsaid)

\* A blocking write returns: it is made only with the output enabled (invariant 2 of
\* BlockingFifoAdapter), except if opening the shutter failed or an arm came between
\* the two readings of the arm state.
WriteReturns ==
    lc = "data" ~> lc # "data" \/ silent \/ late > 0 \/ shutter = "Unknown" \/ stepped # want

\* A session that has lost its device gets it back, whatever failed and at whatever
\* command, unless the device is away or hung or an answer was late (the open then
\* reads answers that are not its own, each time): a stream that fails is dropped
\* and releases what it has claimed.
CubeReconnects ==
    ~stream /\ lc # "end" ~> stream \/ lc = "end" \/ ~present \/ silent \/ late > 0
===============================================================================
