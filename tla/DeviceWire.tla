------------------------------ MODULE DeviceWire ------------------------------
(***************************************************************************)
(* What the devices with 12-bit scanners are sent: their samples, and the  *)
(* connection of a LaserCube.                                              *)
(***************************************************************************)
EXTENDS WireFormat

-----------------------------------------------------------------------------
(***************************************************************************)
(* The samples of the three devices with 12-bit scanners: the datagrams of *)
(* a LaserCube on the network (lasercube_network/protocol.rs and           *)
(* packetizer.rs), the bulk transfers of one on USB (lasercube_usb/        *)
(* protocol.rs and dac/stream.rs) and the frames of a Helios               *)
(* (helios/frame.rs, native.rs and backend.rs).  A parcel is what a write  *)
(* is asked to send; the device cuts what arrives into samples again.      *)
(***************************************************************************)

CONSTANT Parcels   \* [to, points, pps, numbers, bulk]

VARIABLES
    parcel,     \* what is being sent, or NoParcel
    transfers   \* the datagrams or transfers it became, "refused", or <<>>

parcelVars == <<parcel, transfers>>

NoParcel == [to |-> "nobody"]
Min2(a, b) == IF a < b THEN a ELSE b

\* Samples of the same width one after the other
Joined(width, samples) ==
    [i \in 1..(width * Len(samples)) |-> samples[1 + (i - 1) \div width][1 + ((i - 1) % width)]]

-------------------------------------------------------------------------------
(* LaserCube on the network *)

CMD_SAMPLE_DATA == \hA9
MAX_UDP_SAMPLES_PER_PACKET == 140

CubePoint == <<Uint("x", 2), Uint("y", 2), Uint("r", 2), Uint("g", 2), Uint("b", 2)>>

ToCubePoint(p) ==
    LET colour(c) == ColorToU12(Dim(c, p.intensity))
    IN  [x |-> CoordToU12(p.x), y |-> CoordToU12Inverted(p.y),
         r |-> colour(p.r), g |-> colour(p.g), b |-> colour(p.b)]

EncodeSamplePacket(d) ==
    IF Len(d.points) > MAX_UDP_SAMPLES_PER_PACKET THEN <<"refused">>
    ELSE <<<<CMD_SAMPLE_DATA, 0, d.numbers[1], d.numbers[2]>>
           \o Joined(10, [i \in DOMAIN d.points |-> LE(CubePoint, ToCubePoint(d.points[i]))])>>

-------------------------------------------------------------------------------
(* LaserCube on USB *)

UsbSample == <<Uint("rg", 2), Uint("b", 2), Uint("x", 2), Uint("y", 2)>>

SampleNew(x, y, r, g, b) == [rg |-> r + 256 * g, b |-> b, x |-> Min2(x, 4095), y |-> Min2(y, 4095)]

ToUsbSample(p) ==
    LET colour(c) == ColorToU8(Dim(c, p.intensity))
    IN  SampleNew(CoordToU12(p.x), CoordToU12(p.y), colour(p.r), colour(p.g), colour(p.b))

FlipX(s) == [s EXCEPT !.x = 4095 - @]

\* Chunks of whole samples; a device that reports no packet size gets them in one transfer.
SendSamples(d) ==
    LET buffer == Joined(8, [i \in DOMAIN d.points |-> LE(UsbSample, FlipX(ToUsbSample(d.points[i])))])
        size == d.bulk * 8
        chunks == (Len(buffer) + size - 1) \div size
    IN  IF d.bulk = 0 THEN <<buffer>>
        ELSE [k \in 1..chunks |-> SubSeq(buffer, (k - 1) * size + 1, Min2(k * size, Len(buffer)))]

-------------------------------------------------------------------------------
(* Helios *)

HELIOS_MAX_POINTS == 4095
SINGLE_MODE == 2
HeliosMinRate == 7
HeliosMaxRate == 65535

ToHeliosPoint(p) ==
    [x |-> CoordToU12Inverted(p.x), y |-> CoordToU12Inverted(p.y), r |-> ColorToU8(p.r),
     g |-> ColorToU8(p.g), b |-> ColorToU8(p.b), i |-> ColorToU8(p.intensity)]

HeliosPointBytes(p) ==
    <<p.x \div 16, (p.x % 16) * 16 + p.y \div 256, p.y % 256, p.r, p.g, p.b, p.i>>

\* A transfer that fills its last USB packet is avoided: one point less, at a rate that keeps the time.
AdjustedFrameParams(pps, n) ==
    IF n >= 45 /\ (n - 45) % 64 = 0 THEN <<(pps * (n - 1) + n \div 2) \div n, n - 1>> ELSE <<pps, n>>

\* prepare_frame_buffer and encode_frame_into
EncodeFrame(d) ==
    LET asked == Min2(Len(d.points), HELIOS_MAX_POINTS)
        pps == IF d.pps < HeliosMinRate THEN HeliosMinRate ELSE Min2(d.pps, HeliosMaxRate)
        actual == AdjustedFrameParams(pps, asked)
    IN  <<Joined(7, [i \in 1..actual[2] |-> HeliosPointBytes(ToHeliosPoint(d.points[i]))])
          \o <<actual[1] % 256, actual[1] \div 256, actual[2] % 256, actual[2] \div 256, SINGLE_MODE>>>>

-------------------------------------------------------------------------------
(* A write, and the device that reads it *)

Encoded(d) == CASE d.to = "cube" -> EncodeSamplePacket(d)
                [] d.to = "cube usb" -> SendSamples(d)
                [] d.to = "helios" -> EncodeFrame(d)

ParcelInit == parcel = NoParcel /\ transfers = <<>>

SendParcel(d) ==
    /\ parcel = NoParcel
    /\ parcel' = d /\ transfers' = Encoded(d)

ParcelTaken == parcel # NoParcel /\ parcel' = NoParcel /\ transfers' = <<>>

ParcelNext == ParcelTaken \/ \E d \in Parcels : SendParcel(d)

Cut(bytes, width) ==
    [k \in 1..(Len(bytes) \div width) |-> SubSeq(bytes, (k - 1) * width + 1, k * width)]

CubeReads(bytes) ==
    LET cut == Cut(After(bytes, 4), 10)
    IN  [k \in DOMAIN cut |-> FromLE(CubePoint, cut[k])]

UsbReads(bytes) ==
    LET cut == Cut(bytes, 8)
    IN  [k \in DOMAIN cut |->
            LET s == FromLE(UsbSample, cut[k])
            IN  [x |-> s.x, y |-> s.y, r |-> cut[k][1], g |-> cut[k][2], b |-> cut[k][3]]]

HeliosReads(bytes) ==
    LET cut == Cut(Take(bytes, Len(bytes) - 5), 7)
    IN  [k \in DOMAIN cut |->
            [x |-> cut[k][1] * 16 + cut[k][2] \div 16, y |-> (cut[k][2] % 16) * 256 + cut[k][3],
             r |-> cut[k][4], g |-> cut[k][5], b |-> cut[k][6], i |-> cut[k][7]]]

-------------------------------------------------------------------------------
Within(a, b, d) == a - b <= d /\ b - a <= d

\* The 12-bit position nearest to v
Shows(n, v) == n \in 0..4095 /\ Within(n * 2 * Full, (ClampUnit(v) + Full) * 4095, Full)

\* A channel whose steps are this wide shows c at this intensity.
Lights(n, step, c, intensity) == Within(n * step, Dim(c, intensity), step)

\* encode_sample_packet and From<&LaserPoint>: a datagram that is not refused fits the network, and
\* each of its samples is at the position and of the brightness that its point asks for.
CubeShows ==
    (parcel.to = "cube" /\ transfers # <<"refused">>) =>
        LET samples == CubeReads(transfers[1])
            p == parcel.points
        IN  /\ Len(transfers[1]) <= 1472 /\ Len(samples) = Len(p)
            /\ \A k \in DOMAIN p :
                /\ Shows(samples[k].x, p[k].x) /\ Shows(samples[k].y, -p[k].y)
                /\ \A c \in {"r", "g", "b"} : Lights(samples[k][c], 16, p[k][c], p[k].intensity)

\* send_samples: the transfers hold whole samples, none more than the device takes at once, and
\* together all of them; mirrored in x, and as bright as the same points on the network.
CubeUsbShows ==
    parcel.to = "cube usb" =>
        LET samples == Concat([t \in DOMAIN transfers |-> UsbReads(transfers[t])])
            p == parcel.points
        IN  /\ \A t \in DOMAIN transfers :
                /\ Len(transfers[t]) % 8 = 0
                /\ parcel.bulk > 0 => Len(transfers[t]) \in 1..(8 * parcel.bulk)
            /\ Len(samples) = Len(p)
            /\ \A k \in DOMAIN p :
                /\ Shows(4095 - samples[k].x, p[k].x) /\ Shows(samples[k].y, p[k].y)
                /\ \A c \in {"r", "g", "b"} : Lights(samples[k][c], 257, p[k][c], p[k].intensity)

\* encode_frame_into and adjusted_frame_params: the transfer never fills its last USB packet, the
\* frame is played once, and at a rate in range it takes the time that was asked for, to half a
\* point, though it may lack its last one.
HeliosShows ==
    parcel.to = "helios" =>
        LET bytes == transfers[1]
            trailer == After(bytes, Len(bytes) - 5)
            rate_sent == IntOf(LittleEndian, Take(trailer, 2))
            n == IntOf(LittleEndian, SubSeq(trailer, 3, 4))
            samples == HeliosReads(bytes)
            p == parcel.points
        IN  /\ Len(bytes) % 64 # 0 /\ trailer[5] = SINGLE_MODE
            /\ n = Len(samples) /\ n \in {Len(p) - 1, Len(p)} /\ (p # <<>> => n > 0)
            /\ parcel.pps \in HeliosMinRate..HeliosMaxRate =>
                    Within(2 * Len(p) * rate_sent, 2 * n * parcel.pps, Len(p))
            /\ \A k \in 1..n :
                /\ Shows(samples[k].x, -p[k].x) /\ Shows(samples[k].y, -p[k].y)
                /\ \A c \in {"r", "g", "b"} : Lights(samples[k][c], 257, p[k][c], 65535)
                /\ Lights(samples[k].i, 257, p[k].intensity, 65535)

PointsShown == CubeShows /\ CubeUsbShows /\ HeliosShows

-------------------------------------------------------------------------------
(***************************************************************************)
(* From the first full-info datagram of a LaserCube to a connected         *)
(* transport: LaserCubeNetworkStatus::parse (lasercube_network/status.rs), *)
(* the profile of its connection (profiles.rs), the startup commands       *)
(* (command.rs, transport.rs) and TransportHandle::connect                 *)
(* (transport/handle.rs), over a network that loses datagrams.  The cube   *)
(* and what its bytes mean are given by the fields of `cube`.              *)
(***************************************************************************)

CONSTANTS
    CubesToMeet,               \* cubes, as records of what they are
    CONNECT_HANDSHAKE_RETRIES

VARIABLES
    cube,       \* the cube, as it is
    parsed,   \* the status the host parsed, or NotParsed
    connecting, \* "scan", "startup", "verify", "waits", "connected" or "failed"
    left,       \* commands still to be sent, each COMMAND_REPEAT_COUNT times
    tries,      \* full-info requests sent to verify
    replies,    \* "info" and "ack", on their way to the host
    answered,   \* the cube answered a request of this connect
    transport   \* SharedTransportState::new, or NoTransport

cubeVars == <<cube, parsed, connecting, left, tries, replies, answered, transport>>

CMD_GET_FULL_INFO == \h77
CMD_ENABLE_BUFFER_SIZE_RESPONSE == \h78
CMD_SET_OUTPUT == \h80
CMD_SET_RATE == \h82
CMD_SET_DAC_BUFFER_THRESHOLD == \hA0
DEFAULT_POINT_RATE == 30000
DEFAULT_BUFFER_CAPACITY == 6000
COMMAND_REPEAT_COUNT == 2

NotParsed == [kind |-> "none"]
NoTransport == [connected |-> FALSE]
AtMost(a, b) == IF a < b THEN a ELSE b
AtLeast(a, b) == IF a < b THEN b ELSE a
Bit(n, k) == (n \div 2^k) % 2 = 1

-------------------------------------------------------------------------------
(* Full info *)

FullInfo ==
    <<Uint("command", 1), Uint("refusal", 1), Uint("payload_version", 1), Uint("firmware_major", 1),
      Uint("firmware_minor", 1), Uint("flags", 1), Octets("reserved", 4), Uint("point_rate", 4),
      Uint("point_rate_max", 4), Octets("reserved_too", 1), Uint("buffer_free", 2),
      Uint("buffer_max", 2), Uint("battery_percent", 1), Sint("temperature_c", 1),
      Uint("connection", 1), Octets("serial", 6), Octets("ip", 4), Octets("reserved_three", 1),
      Uint("model_number", 1), Octets("model_name", 26)>>

Flags(major, minor, flags) ==
    IF major > 0 \/ minor >= 13
    THEN [output_enabled |-> Bit(flags, 0), interlock_enabled |-> Bit(flags, 1),
          temperature_warning |-> Bit(flags, 2), over_temperature |-> Bit(flags, 3),
          packet_errors |-> flags \div 16]
    ELSE [output_enabled |-> Bit(flags, 0), interlock_enabled |-> Bit(flags, 3),
          temperature_warning |-> Bit(flags, 4), over_temperature |-> Bit(flags, 5),
          packet_errors |-> 0]

UpToNul(name) ==
    LET nuls == {i \in DOMAIN name : name[i] = 0}
    IN  IF nuls = {} THEN name ELSE Take(name, (CHOOSE i \in nuls : \A j \in nuls : i <= j) - 1)

\* from_utf8_lossy, of bytes none of which continues a character: what is not ASCII is replaced.
REPLACEMENT == 65533
FromUtf8Lossy(bytes) == [i \in DOMAIN bytes |-> IF bytes[i] < 128 THEN bytes[i] ELSE REPLACEMENT]

\* Two digits a byte
HexUpper(bytes) ==
    [i \in 1..(2 * Len(bytes)) |->
        IF i % 2 = 1 THEN bytes[(i + 1) \div 2] \div 16 ELSE bytes[i \div 2] % 16]

ConnectionTypes == <<"EthernetServer", "WifiServer", "EthernetClient", "WifiClient">>
FromStatusByte(raw) == IF raw < 4 THEN ConnectionTypes[raw + 1] ELSE "Unknown"

ParseFullInfo(bytes) ==
    IF Len(bytes) < 64 THEN NotParsed
    ELSE LET m == FromLE(FullInfo, bytes)
         IN  IF m.command # CMD_GET_FULL_INFO \/ m.refusal # 0 \/ m.payload_version # 0 THEN NotParsed
             ELSE [kind |-> "status", major |-> m.firmware_major, minor |-> m.firmware_minor,
                   flags |-> Flags(m.firmware_major, m.firmware_minor, m.flags),
                   point_rate |-> m.point_rate, point_rate_max |-> m.point_rate_max,
                   buffer_free |-> m.buffer_free, buffer_max |-> m.buffer_max,
                   battery_percent |-> m.battery_percent, temperature_c |-> m.temperature_c,
                   connection_type |-> FromStatusByte(m.connection), serial |-> HexUpper(m.serial),
                   model_number |-> m.model_number, model_name |-> FromUtf8Lossy(UpToNul(m.model_name))]

-------------------------------------------------------------------------------
(* Profile and startup *)

Profile(samples, cutoff, total) ==
    [max_udp_samples_per_packet |-> samples, remote_buffer_cutoff |-> AtMost(cutoff, total),
     buffer_total |-> total]

ForConnection(type, total) ==
    IF type = "WifiServer" THEN Profile(140, 2000, total) ELSE Profile(80, 1800, total)

ResolvedPointRateMax(s) == IF s.point_rate_max > 0 THEN s.point_rate_max ELSE DEFAULT_POINT_RATE
ClampPointRate(s, r) == AtMost(AtLeast(r, 1), ResolvedPointRateMax(s))
BufferTotalFromMax(max) == IF max > 0 THEN max ELSE DEFAULT_BUFFER_CAPACITY

ThresholdSupported(s) == s.major > 1 \/ (s.major = 1 /\ s.minor > 23) \/ s.model_number >= 10

SetRateBytes(r) == <<CMD_SET_RATE>> \o IntBytes(LittleEndian, r, 4)
SetThresholdBytes(n) == <<CMD_SET_DAC_BUFFER_THRESHOLD>> \o IntBytes(LittleEndian, n, 4)

StartupCommands(s, profile) ==
    <<<<CMD_SET_OUTPUT, 0>>, <<CMD_ENABLE_BUFFER_SIZE_RESPONSE, 1>>,
      SetRateBytes(ClampPointRate(s, DEFAULT_POINT_RATE))>>
    \o IF ThresholdSupported(s) /\ profile.remote_buffer_cutoff < s.buffer_max
       THEN <<SetThresholdBytes(profile.remote_buffer_cutoff)>> ELSE <<>>

ProfileOf(s) == ForConnection(s.connection_type, s.buffer_max)

NewTransport(s) ==
    LET total == BufferTotalFromMax(s.buffer_max)
    IN  [connected |-> TRUE, buffer_total |-> total, free_estimate |-> AtMost(s.buffer_free, s.buffer_max),
         host_queue_capacity |-> AtLeast(total * 2, ProfileOf(s).max_udp_samples_per_packet * 8),
         point_rate |-> ClampPointRate(s, IF s.point_rate > 0 THEN s.point_rate ELSE DEFAULT_POINT_RATE)]

-------------------------------------------------------------------------------
(* The cube *)

FlagsByte(c) ==
    LET set(b, k) == IF b THEN 2^k ELSE 0
    IN  IF c.major > 0 \/ c.minor >= 13
        THEN set(c.output, 0) + set(c.interlock, 1) + set(c.warm, 2) + set(c.hot, 3) + 16 * c.errors
        ELSE set(c.output, 0) + set(c.interlock, 3) + set(c.warm, 4) + set(c.hot, 5)

Padded(name, n) == [i \in 1..n |-> IF i <= Len(name) THEN name[i] ELSE 0]

\* Later firmware may append fields; a datagram is cut to `length`.
FullInfoBytes(c) ==
    LE(FullInfo,
       [command |-> CMD_GET_FULL_INFO, refusal |-> c.refusal, payload_version |-> c.version,
        firmware_major |-> c.major, firmware_minor |-> c.minor, flags |-> FlagsByte(c),
        reserved |-> Padded(<<>>, 4), point_rate |-> c.point_rate, point_rate_max |-> c.point_rate_max,
        reserved_too |-> <<0>>, buffer_free |-> c.free, buffer_max |-> c.buffer,
        battery_percent |-> c.battery, temperature_c |-> c.temperature, connection |-> c.connection,
        serial |-> c.serial, ip |-> Padded(<<>>, 4), reserved_three |-> <<0>>,
        model_number |-> c.model, model_name |-> Padded(c.name, 26)])
    \o Padded(<<>>, 8)

\* What the cube does with a command that reaches it
Executes(bytes) ==
    LET op == bytes[1]
        value == IntOf(LittleEndian, After(bytes, 1))
    IN  cube' = CASE op = CMD_SET_OUTPUT -> [cube EXCEPT !.output = (value = 1)]
                  [] op = CMD_SET_RATE -> [cube EXCEPT !.point_rate = value]
                  [] op = CMD_SET_DAC_BUFFER_THRESHOLD -> [cube EXCEPT !.threshold = value]
                  [] op = CMD_ENABLE_BUFFER_SIZE_RESPONSE -> [cube EXCEPT !.acks = (value = 1)]

-------------------------------------------------------------------------------
(* DiscoverDacs and TransportHandle::connect *)

CubeInit(met) ==
    /\ cube \in IF met THEN CubesToMeet ELSE {CHOOSE c \in CubesToMeet : TRUE}
    /\ parsed = NotParsed /\ connecting = "scan" /\ transport = NoTransport
    /\ left = <<>> /\ tries = 0 /\ replies = <<>> /\ answered = FALSE

Repeated(commands) ==
    [i \in 1..(COMMAND_REPEAT_COUNT * Len(commands)) |-> commands[1 + (i - 1) \div COMMAND_REPEAT_COUNT]]

\* A datagram that does not parse is dropped.
MeetCube ==
    /\ connecting = "scan"
    /\ parsed' = ParseFullInfo(Take(FullInfoBytes(cube), cube.length))
    /\ IF parsed' = NotParsed THEN connecting' = "failed" /\ left' = <<>>
       ELSE /\ connecting' = "startup"
            /\ left' = Repeated(StartupCommands(parsed', ProfileOf(parsed')))
    /\ UNCHANGED <<cube, tries, replies, answered, transport>>

\* send_repeated: a datagram reaches the cube or not, and so does its answer the host.
SendStartup(reply) ==
    /\ connecting = "startup" /\ left # <<>>
    /\ left' = Tail(left)
    /\ \/ Executes(Head(left)) /\ replies' = replies \o reply
       \/ UNCHANGED <<cube, replies>>
    /\ UNCHANGED <<parsed, connecting, tries, answered, transport>>

StartVerify ==
    /\ connecting = "startup" /\ left = <<>>
    /\ connecting' = "verify"
    /\ UNCHANGED <<cube, parsed, left, tries, replies, answered, transport>>

AskFullInfo(reply) ==
    /\ connecting = "verify" /\ tries <= CONNECT_HANDSHAKE_RETRIES
    /\ connecting' = "waits" /\ tries' = tries + 1
    /\ replies' = replies \o reply
    /\ answered' = (answered \/ reply # <<>>)
    /\ UNCHANGED <<cube, parsed, left, transport>>

\* Faulty variant: any answer will do.
RecvReplyAny ==
    /\ connecting = "waits" /\ replies # <<>>
    /\ replies' = Tail(replies)
    /\ connecting' = "connected" /\ transport' = NewTransport(parsed)
    /\ UNCHANGED <<cube, parsed, left, tries, answered>>

\* Other responses are skipped.
RecvReply ==
    /\ connecting = "waits" /\ replies # <<>>
    /\ replies' = Tail(replies)
    /\ IF Head(replies) = "info" THEN connecting' = "connected" /\ transport' = NewTransport(parsed)
       ELSE UNCHANGED <<connecting, transport>>
    /\ UNCHANGED <<cube, parsed, left, tries, answered>>

\* What is still under way may arrive in the next attempt.
HandshakeTimesOut ==
    /\ connecting = "waits"
    /\ connecting' = IF tries <= CONNECT_HANDSHAKE_RETRIES THEN "verify" ELSE "failed"
    /\ UNCHANGED <<cube, parsed, left, tries, replies, answered, transport>>

SocketFails ==
    /\ connecting \in {"startup", "verify", "waits"}
    /\ connecting' = "failed"
    /\ UNCHANGED <<cube, parsed, left, tries, replies, answered, transport>>

CubeOver == connecting \in {"connected", "failed"}

CubeNext ==
    \/ MeetCube \/ StartVerify \/ RecvReply \/ HandshakeTimesOut \/ SocketFails
    \/ \E reply \in {<<>>, <<"ack">>} : SendStartup(reply)
    \/ \E reply \in {<<>>, <<"info">>} : AskFullInfo(reply)

-------------------------------------------------------------------------------
\* LaserCubeNetworkStatus::parse: whatever its firmware, a cube is understood to be what it is, or not
\* reported at all.
CubeUnderstood ==
    parsed # NotParsed =>
        /\ cube.refusal = 0 /\ cube.version = 0 /\ cube.length >= 64
        /\ parsed.flags.interlock_enabled = cube.interlock
        /\ parsed.flags.temperature_warning = cube.warm /\ parsed.flags.over_temperature = cube.hot
        /\ parsed.temperature_c = cube.temperature /\ parsed.battery_percent = cube.battery
        /\ Len(parsed.model_name) = AtMost(Len(cube.name), 26)
        /\ \A i \in DOMAIN parsed.model_name :
            parsed.model_name[i] = (IF cube.name[i] < 128 THEN cube.name[i] ELSE REPLACEMENT)
        /\ parsed.buffer_max = cube.buffer /\ parsed.point_rate_max = cube.point_rate_max
        /\ \A i \in 1..6 : parsed.serial[2 * i - 1] * 16 + parsed.serial[2 * i] = cube.serial[i]

\* startup_commands: nothing a connect sends takes a cube beyond its own limits, or lights it.
CubeUnharmed ==
    /\ cube.point_rate_max > 0 => cube.point_rate <= cube.point_rate_max
    /\ cube.threshold > 0 => cube.threshold < cube.buffer
    /\ cube.output => cube.lit

\* TransportHandle::connect: a transport is connected only to a cube that answered this connect, and
\* starts from a rate and a queue that its packets fit.
ConnectAnswered ==
    transport.connected =>
        /\ answered /\ connecting = "connected"
        /\ transport.point_rate \in 1..ResolvedPointRateMax(parsed)
        /\ transport.free_estimate <= transport.buffer_total
        /\ ProfileOf(parsed).max_udp_samples_per_packet * 8 <= transport.host_queue_capacity

CubeSound == CubeUnderstood /\ CubeUnharmed /\ ConnectAnswered

===============================================================================
