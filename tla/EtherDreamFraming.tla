--------------------------- MODULE EtherDreamFraming --------------------------
(***************************************************************************)
(* The bytes of the Ether Dream protocol, and a connection that carries them.*)
(***************************************************************************)
EXTENDS WireFormat

-----------------------------------------------------------------------------
(***************************************************************************)
(* The bytes of the Ether Dream protocol: what the crate writes and reads  *)
(* (ether_dream/protocol.rs, dac/mod.rs), how the simulated firmware cuts  *)
(* its input into commands (sim/model.rs) and how it answers.              *)
(*                                                                         *)
(* A command is a record: its start byte, the low-water mark and the rate  *)
(* where it has them, and its points.                                      *)
(***************************************************************************)

PREPARE == \h70    \* 'p'
BEGIN == \h62      \* 'b'
UPDATE == \h75     \* 'u'
POINT_RATE == \h71 \* 'q'
DATA == \h64       \* 'd'
STOP == \h73       \* 's'
ESTOP == \h00
ESTOP_ALT == \hFF
CLEAR == \h63      \* 'c'
PING == \h3F       \* '?'
VERSION == \h76    \* 'v'

ACK == \h61
NAK_FULL == \h46
NAK_INVALID == \h49
NAK_STOP == \h21
Naks == {NAK_FULL, NAK_INVALID, NAK_STOP}

DacStatus ==
    <<Uint("protocol", 1), Uint("light_engine_state", 1), Uint("playback_state", 1),
      Uint("source", 1), Uint("light_engine_flags", 2), Uint("playback_flags", 2),
      Uint("source_flags", 2), Uint("buffer_fullness", 2), Uint("point_rate", 4),
      Uint("point_count", 4)>>

DacResponse == <<Uint("response", 1), Uint("command", 1)>> \o DacStatus

DacPoint ==
    <<Uint("control", 2), Sint("x", 2), Sint("y", 2), Uint("r", 2), Uint("g", 2), Uint("b", 2),
      Uint("i", 2), Uint("u1", 2), Uint("u2", 2)>>

\* The commands' write_to_bytes
CommandBytes(c) ==
    <<c.op>> \o
    (CASE c.op \in {BEGIN, UPDATE} ->
            IntBytes(LittleEndian, c.low_water_mark, 2) \o IntBytes(LittleEndian, c.rate, 4)
       [] c.op = POINT_RATE -> IntBytes(LittleEndian, c.rate, 4)
       [] c.op = DATA ->
            IntBytes(LittleEndian, Len(c.points), 2)
            \o Concat([i \in DOMAIN c.points |-> LE(DacPoint, c.points[i])])
       [] OTHER -> <<>>)

-------------------------------------------------------------------------------
(* The firmware's side *)

U16LE(bytes, at) == bytes[at] + 256 * bytes[at + 1]

\* The bytes of the command at the front of `input`; step() and command_complete have
\* the same lengths.
CommandLength(input) ==
    CASE input[1] \in {BEGIN, UPDATE} -> 7
      [] input[1] = POINT_RATE -> 5
      [] input[1] = DATA -> IF Len(input) < 3 THEN 3 ELSE 3 + 18 * U16LE(input, 2)
      [] OTHER -> 1

CommandComplete(input) ==
    input # <<>> /\ Len(input) >= CommandLength(input)
    /\ (input[1] = DATA => Len(input) >= 3)

\* The arguments that step() takes from its input
RateOf(input) == IntOf(LittleEndian, SubSeq(input, IF input[1] = POINT_RATE THEN 2 ELSE 4,
                                            CommandLength(input)))

ParsedCommand(input) ==
    [op |-> input[1],
     low_water_mark |-> IF input[1] \in {BEGIN, UPDATE} THEN U16LE(input, 2) ELSE 0,
     rate |-> IF input[1] \in {BEGIN, UPDATE, POINT_RATE} THEN RateOf(input) ELSE 0,
     points |-> IF input[1] = DATA
                THEN [i \in 1..U16LE(input, 2) |->
                        FromLE(DacPoint, SubSeq(input, 4 + 18 * (i - 1), 3 + 18 * i))]
                ELSE <<>>]

\* The 32 bytes that answer 'v'
VersionBytes(build) == [i \in 1..32 |-> IF i <= Len(build) THEN build[i] ELSE 0]

-------------------------------------------------------------------------------
(* The crate's reading: Status::from_protocol, and the commands' reply *)

LightEngines == <<"Ready", "Warmup", "Cooldown", "EmergencyStop">>
Playbacks == <<"Idle", "Prepared", "Playing">>
DataSources == <<"NetworkStreaming", "IldaPlayback", "InternalAbstractGenerator">>

\* Flags that have no name are dropped (from_bits_truncate).
StatusFromProtocol(s) ==
    IF \/ s.light_engine_state >= Len(LightEngines)
       \/ s.playback_state >= Len(Playbacks)
       \/ s.source >= Len(DataSources)
    THEN [kind |-> "unknown"]
    ELSE [kind |-> "status", light_engine |-> LightEngines[s.light_engine_state + 1],
          playback |-> Playbacks[s.playback_state + 1],
          data_source |-> <<DataSources[s.source + 1],
                            IF s.source = 1 THEN s.source_flags % 2 ELSE 0>>,
          light_engine_flags |-> s.light_engine_flags % 64,
          playback_flags |-> s.playback_flags % 8,
          buffer_fullness |-> s.buffer_fullness, point_rate |-> s.point_rate,
          point_count |-> s.point_count]

-----------------------------------------------------------------------------
(***************************************************************************)
(* A connection of the Ether Dream at the level of bytes.  The host        *)
(* submits batches of commands and then reads one response per command     *)
(* (CommandQueue::submit, recv_response_buffered, query_version in         *)
(* dac/stream.rs); TCP delivers the bytes in pieces of any size; the       *)
(* firmware cuts complete commands off the front of what has arrived       *)
(* (sim/model.rs process_with) and the server (sim/server.rs               *)
(* handle_connection, send_replies) sends the answers, with one of the     *)
(* faults it can inject.                                                   *)
(*                                                                         *)
(* What a command does and whether it is refused is EtherDreamStream's     *)
(* subject: here the answer of a command that has a valid rate is any.     *)
(***************************************************************************)

CONSTANTS
    Links       \* the connections that are explored: records, see below

MaxUnsolicited == 5                   \* MAX_RETRIES of recv_response_buffered

\* A link: the batches to submit; the maximum rate that the broadcast advertised to the
\* host (0 for none) and that the firmware has; what the firmware does with a bad rate
\* and with an unknown command; its build string (<<>> where 'v' is unknown), whether
\* the host asks for it; the fault of the server and the reply that it hits; the
\* statuses and the codes that the device may answer.
VARIABLES
    link,
    batches,     \* still to submit
    up, input,   \* bytes on their way to the device; the connection's input buffer
    outbox,      \* replies not sent yet
    sent,        \* replies sent
    down,        \* bytes on their way to the host
    conn,        \* "open", "hung", "closed"
    awaited,     \* start bytes of the commands whose response is to be read
    skipped,     \* responses skipped while the first of them is awaited
    outcome,     \* of the last submit
    submitted,   \* commands written so far
    base,        \* how many of them were written before the last batch
    executed,    \* [cmd, code, status] as the device took them
    believed     \* the host's [sts]: status of the last response it read

framingVars == <<link, batches, up, input, outbox, sent, down, conn, awaited, skipped, outcome,
                 submitted, base, executed, believed>>

FramingInit(present) ==
    /\ link \in IF present THEN Links ELSE {CHOOSE l \in Links : TRUE}
    /\ batches = IF present THEN link.batches ELSE <<>>
    /\ up = <<>> /\ input = <<>> /\ outbox = <<>> /\ sent = 0 /\ down = <<>>
    /\ conn = "open" /\ awaited = <<>> /\ skipped = 0
    /\ outcome = IF present THEN "none" ELSE "end"
    /\ submitted = <<>> /\ base = 0 /\ executed = <<>> /\ believed = [kind |-> "hello"]

deviceSide == <<input, outbox, sent, conn, executed>>
hostSide == <<batches, awaited, skipped, outcome, submitted, base, believed>>

-------------------------------------------------------------------------------
(* The host *)

UnsafeRate(r) == r = 0 \/ (link.advertised > 0 /\ r > link.advertised)

HasRate(c) == c.op \in {BEGIN, UPDATE, POINT_RATE}

\* submit: a batch with an unsafe rate is refused before anything is sent
Submit ==
    /\ outcome \in {"none", "ok", "nak", "refused"} /\ awaited = <<>> /\ batches # <<>>
    /\ batches' = Tail(batches)
    /\ LET batch == Head(batches)
       IN  IF \E i \in DOMAIN batch : HasRate(batch[i]) /\ UnsafeRate(batch[i].rate)
           THEN outcome' = "refused" /\ UNCHANGED <<up, awaited, submitted>>
           ELSE /\ outcome' = "ok"
                /\ submitted' = submitted \o batch
                /\ awaited' = [i \in DOMAIN batch |-> batch[i].op]
                /\ up' = up \o Concat([i \in DOMAIN batch |-> CommandBytes(batch[i])])
    /\ base' = Len(submitted) /\ skipped' = 0
    /\ UNCHANGED <<link, down, deviceSide, believed>>

Fails(why) == outcome' = why /\ awaited' = <<>>

\* recv_response_buffered, for the first command that is awaited, and submit's use of
\* it: after a NAK the other responses are read all the same.
ReadResponse ==
    /\ awaited # <<>> /\ Head(awaited) # VERSION /\ Len(down) >= 22
    /\ down' = After(down, 22)
    /\ LET r == FromLE(DacResponse, Take(down, 22))
           status == StatusFromProtocol(r)
           mine == r.command = Head(awaited)
       IN  CASE status.kind = "unknown" -> Fails("protocol") /\ UNCHANGED <<skipped, believed>>
             [] status.kind = "status" /\ mine ->
                    /\ believed' = status /\ skipped' = 0 /\ awaited' = Tail(awaited)
                    /\ outcome' = IF r.response \in Naks THEN "nak" ELSE outcome
             [] status.kind = "status" /\ ~mine /\ r.response \notin {ACK, NAK_INVALID} ->
                    /\ believed' = status /\ Fails("unexpected") /\ UNCHANGED skipped
             [] OTHER ->
                    /\ believed' = status /\ skipped' = skipped + 1
                    /\ IF skipped = MaxUnsolicited THEN Fails("io")
                       ELSE UNCHANGED <<awaited, outcome>>
    /\ UNCHANGED <<link, batches, up, deviceSide, submitted, base>>

\* query_version, once the first 22 bytes are there: a NAK, or the rest of the string
ReadVersion ==
    /\ awaited # <<>> /\ Head(awaited) = VERSION /\ Len(down) >= 22
    /\ LET r == FromLE(DacResponse, Take(down, 22))
           status == StatusFromProtocol(r)
       IN  IF r.response \in Naks /\ r.command = VERSION
           THEN /\ down' = After(down, 22)
                /\ IF status.kind = "unknown" THEN Fails("protocol") /\ UNCHANGED believed
                   ELSE believed' = status /\ awaited' = <<>> /\ outcome' = "ok"
           ELSE /\ Len(down) >= 32
                /\ down' = After(down, 32)
                /\ awaited' = <<>> /\ outcome' = "ok" /\ UNCHANGED believed
    /\ UNCHANGED <<link, batches, up, deviceSide, skipped, submitted, base>>

\* read_exact_with_budget runs out of its budget, or meets the end of the connection.
\* The backend then drops the stream.
ReadFails ==
    /\ awaited # <<>>
    /\ Len(down) < (IF Head(awaited) = VERSION THEN 32 ELSE 22)
    /\ conn # "open" \/ (up = <<>> /\ ~CommandComplete(input) /\ outbox = <<>>)
    /\ Fails("io")
    /\ UNCHANGED <<link, batches, up, down, deviceSide, skipped, submitted, base, believed>>

-------------------------------------------------------------------------------
(* The device *)

Arrive(n) ==
    /\ conn = "open" /\ ~CommandComplete(input) /\ outbox = <<>>
    /\ n \in 1..Len(up)
    /\ input' = input \o Take(up, n)
    /\ up' = After(up, n)
    /\ UNCHANGED <<link, outbox, sent, down, conn, executed, hostSide>>

BadRate(input_) == HasRate(ParsedCommand(input_)) /\
    (RateOf(input_) = 0 \/ RateOf(input_) > link.max_point_rate)

Known == {PREPARE, BEGIN, UPDATE, POINT_RATE, DATA, STOP, ESTOP, ESTOP_ALT, CLEAR, PING}

Reply(code, op, status) ==
    [kind |-> "response", op |-> op,
     bytes |-> LE(DacResponse, [status EXCEPT !.response = code, !.command = op])]

\* One command of process_with; check_rate first.
HandleCommand(code, status) ==
    /\ conn = "open" /\ CommandComplete(input)
    /\ LET c == ParsedCommand(input)
           takes(n, reply, as) ==
                /\ input' = After(input, n) /\ outbox' = Append(outbox, reply)
                /\ executed' = Append(executed, [cmd |-> c, code |-> as, status |-> status])
       IN  CASE HasRate(c) /\ c.rate = 0 /\ link.zero_rate_hangs ->
                    takes(Len(input), [kind |-> "hang", op |-> c.op, bytes |-> <<>>], code)
             [] BadRate(input) /\ ~(c.rate = 0 /\ link.zero_rate_hangs) ->
                    /\ code = NAK_INVALID
                    /\ takes(IF link.rate_nak_consumes_one_byte THEN 1 ELSE CommandLength(input),
                             Reply(code, c.op, status), code)
             [] c.op \in Known /\ ~BadRate(input) ->
                    takes(CommandLength(input), Reply(code, c.op, status), code)
             [] c.op = VERSION /\ link.build # <<>> ->
                    takes(1, [kind |-> "version", op |-> c.op, bytes |-> VersionBytes(link.build)],
                          ACK)
             [] c.op \notin Known /\ ~(c.op = VERSION /\ link.build # <<>>) ->
                    IF link.unknown_command_resets_tcp
                    THEN takes(Len(input), [kind |-> "reset", op |-> c.op, bytes |-> <<>>], code)
                    ELSE code = NAK_INVALID /\ takes(1, Reply(code, c.op, status), code)
    /\ UNCHANGED <<link, up, sent, down, conn, hostSide>>

\* send_replies, one reply, once every complete command has been handled
SendReply ==
    /\ conn = "open" /\ ~CommandComplete(input) /\ outbox # <<>>
    /\ LET r == Head(outbox)
           hit == link.fault_at = sent
           closes(bytes) == conn' = "closed" /\ outbox' = <<>> /\ down' = down \o bytes
           goes(bytes) == down' = down \o bytes /\ sent' = sent + 1 /\ outbox' = Tail(outbox)
                          /\ UNCHANGED conn
       IN  CASE r.kind = "reset" -> closes(<<>>) /\ UNCHANGED sent
             [] r.kind = "hang" -> conn' = "hung" /\ outbox' = <<>> /\ UNCHANGED <<down, sent>>
             [] r.kind = "response" /\ link.fault = "swallow" /\ r.op = link.swallowed ->
                    outbox' = Tail(outbox) /\ UNCHANGED <<down, sent, conn>>
             [] OTHER ->
                    CASE link.fault = "drop" /\ hit -> closes(<<>>) /\ UNCHANGED sent
                      [] link.fault = "truncate" /\ hit -> closes(Take(r.bytes, 2)) /\ UNCHANGED sent
                      [] link.fault = "duplicate" /\ r.kind = "response" -> goes(r.bytes \o r.bytes)
                      [] OTHER -> goes(r.bytes)
    /\ UNCHANGED <<link, up, input, executed, hostSide>>

Host == Submit \/ ReadResponse \/ ReadVersion \/ ReadFails
Device == SendReply \/ (\E n \in 1..Len(up) : Arrive(n))
          \/ (\E code \in link.codes, s \in link.statuses : HandleCommand(code, s))

\* Every batch was submitted, or the stream was dropped after an error.
FramingOver ==
    /\ awaited = <<>> /\ outbox = <<>> /\ ~CommandComplete(input)
    /\ batches = <<>> \/ outcome \notin {"none", "ok", "nak", "refused"}
    /\ up = <<>> \/ conn # "open"

FramingNext == Host \/ Device

-------------------------------------------------------------------------------
(* Properties *)

\* The firmware takes the commands that the host wrote, in order and with their
\* arguments, wherever TCP cut the bytes; above all no argument is taken for a command
\* (the two zero bytes of a low-water mark are two emergency stops).
Framed ==
    /\ Len(executed) <= Len(submitted)
    /\ \A i \in DOMAIN executed : executed[i].cmd = submitted[i]

\* A submit that succeeded had every one of its commands executed and acknowledged, the
\* last status is the one of its last command, and nothing is left on the wire for the
\* next one to read (unless the server duplicates its replies).
OkMeansAcked ==
    (outcome = "ok" /\ awaited = <<>> /\ link.fault # "duplicate") =>
        /\ up = <<>> /\ input = <<>> /\ outbox = <<>> /\ down = <<>>
        /\ Len(executed) = Len(submitted)
        /\ \A i \in (base + 1)..Len(executed) : executed[i].cmd.op # VERSION =>
                /\ executed[i].code = ACK
                /\ i = Len(executed) => believed = StatusFromProtocol(executed[i].status)

===============================================================================
