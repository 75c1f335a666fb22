--------------------------------- MODULE MCHost ---------------------------------
(***************************************************************************)
(* Instances of the parts of the host that need no more than themselves    *)
(* and their peer: a behaviour is one of `part`, the others stay idle.     *)
(***************************************************************************)
EXTENDS SessionControlCAS, EtherDreamFraming, EtherDreamHarness, IdnWire, IdnClock, DeviceWire,
        Discovery, BufferEstimators, Lifecycle

VARIABLE part

-------------------------------------------------------------------------------
(* Ether Dream connections *)

Cmd(op) == [op |-> op, low_water_mark |-> 0, rate |-> 0, points |-> <<>>]
AtRate(op, pps) == [Cmd(op) EXCEPT !.rate = pps]
Dot(x, r) == [control |-> 0, x |-> x, y |-> -x, r |-> r, g |-> 0, b |-> 65535, i |-> 513,
              u1 |-> 0, u2 |-> 0]
Dots(n) == [Cmd(DATA) EXCEPT !.points = [i \in 1..n |-> Dot(100 * i - 32767, 256 * i)]]

Answering == [response |-> 0, command |-> 0, protocol |-> 0, light_engine_state |-> 0,
              playback_state |-> 2, source |-> 0, light_engine_flags |-> 1, playback_flags |-> 9,
              source_flags |-> 0, buffer_fullness |-> 1799, point_rate |-> 100000,
              point_count |-> 16909060]
Foreign == [Answering EXCEPT !.playback_state = 7]

PlainLink ==
    [batches |-> <<>>, advertised |-> 100000, max_point_rate |-> 100000, zero_rate_hangs |-> TRUE,
     rate_nak_consumes_one_byte |-> TRUE, unknown_command_resets_tcp |-> FALSE,
     build |-> <<114, 51, 51, 49>>, fault |-> "none", fault_at |-> -1, swallowed |-> PING,
     statuses |-> {Answering}, codes |-> {ACK, NAK_STOP}]

Begins == <<Cmd(PREPARE), Dots(2), AtRate(BEGIN, 100000)>>
Retune == <<AtRate(POINT_RATE, 65537), AtRate(UPDATE, 30000), Cmd(PING)>>

Connections ==
    {[PlainLink EXCEPT !.batches = <<<<Cmd(VERSION)>>, Begins, <<Cmd(STOP)>>>>],
     [PlainLink EXCEPT !.batches = <<<<AtRate(BEGIN, 100001)>>, Retune, <<Cmd(CLEAR)>>>>],
     [PlainLink EXCEPT !.batches = <<<<AtRate(UPDATE, 0)>>, <<Cmd(ESTOP), Cmd(CLEAR)>>>>],
     [PlainLink EXCEPT !.batches = <<Retune, <<Cmd(PING)>>>>, !.fault = "duplicate"],
     [PlainLink EXCEPT !.batches = <<Begins>>, !.fault = "truncate", !.fault_at = 1],
     [PlainLink EXCEPT !.batches = <<Begins>>, !.fault = "drop", !.fault_at = 2],
     [PlainLink EXCEPT !.batches = <<Retune>>, !.fault = "swallow", !.swallowed = UPDATE],
     [PlainLink EXCEPT !.batches = <<Begins>>, !.statuses = {Answering, Foreign}],
     [PlainLink EXCEPT !.batches = <<<<Cmd(VERSION)>>, <<Cmd(PING)>>>>, !.build = <<>>, !.codes = {ACK, NAK_INVALID}],
     [PlainLink EXCEPT !.batches = <<<<Cmd(VERSION)>>, <<Cmd(PING)>>>>, !.build = <<>>, !.codes = {ACK, NAK_INVALID},
                       !.unknown_command_resets_tcp = TRUE],
     [PlainLink EXCEPT !.batches = <<<<AtRate(BEGIN, 0)>>, Begins>>, !.advertised = 0]}

-------------------------------------------------------------------------------
(* IDN datagrams *)

IdnSampleSize == [rgbi |-> 8, highres |-> 10, extended |-> 20]

LaserDots ==
    <<[x |-> 32767, y |-> -32767, r |-> 65535, g |-> 128, b |-> 0, intensity |-> 32767],
      [x |-> -1, y |-> 256, r |-> 255, g |-> 32768, b |-> 65535, intensity |-> 257]>>

Routing(format, sdm, mode) ==
    [routing |-> TRUE, close |-> FALSE, format |-> format, sdm |-> sdm, mode |-> mode]
Closing == [NoConfig EXCEPT !.close = TRUE]

Message(type, routing, format, sdm, n) ==
    [type |-> type, config |-> routing, format |-> format, sdm |-> sdm, n |-> n,
     cmd |-> IF n = 1 THEN "cnlmsg_ackreq" ELSE "cnlmsg", sequence |-> 65535 - n,
     service |-> IF sdm = 1 THEN 66 ELSE 1, timestamp |-> 16909060 + n, duration |-> 16777215 - n,
     last |-> n = 1, points |-> SubSeq(LaserDots, 1, n)]

ModeOf(type) == IF type = "Wave" THEN "Continuous" ELSE "Discrete"

ChannelMessages ==
    {Message(t, c, f, s, n) : t \in {"Wave", "Frame", "FrameFirst"}, s \in {0, 1}, n \in {1, 2},
        f \in {"rgbi", "extended"}, c \in {NoConfig}}
    \cup {Message(t, Routing(f, s, ModeOf(t)), f, s, 2) : t \in {"Wave", "Frame"}, s \in {0, 1},
        f \in {"rgbi", "highres", "extended"}}
    \cup {Message("FrameSequel", NoConfig, f, 0, n) : f \in {"rgbi", "highres"}, n \in {1, 2}}
    \cup {Message("Void", c, "rgbi", 0, 0) : c \in {NoConfig, Closing}}

\* Names of one-byte, two-byte and four-byte characters around the 20 bytes of a field
Name(n, char) == [i \in 1..n |-> char]
Names == {<<>>, Name(19, <<65>>) \o <<<<195, 164>>>>, Name(20, <<65>>), Name(6, <<240, 159, 146, 161>>),
          Name(11, <<195, 164>>)}

Unit(name) == [unit_id |-> [i \in 1..16 |-> IF i = 1 THEN 7 ELSE i * 13], hostname |-> name,
               protocol_version |-> 16, status |-> 17]
Services(n, name) ==
    [i \in 1..n |-> [service_id |-> i, service_type |-> <<128, 131, 4, 5, 0>>[1 + (i % 5)],
                     flags |-> 1, relay_number |-> 0, name |-> name]]
Relays(n) == [i \in 1..n |-> [relay_number |-> i, name |-> Name(3, <<82>>)]]

Asked ==
    {[kind |-> "scan", sequence |-> 258, unit |-> Unit(name)] : name \in Names}
    \cup {[kind |-> "map", sequence |-> 513, services |-> Services(2, name), relays |-> Relays(1)] :
            name \in Names}
    \cup {[kind |-> "map", sequence |-> 513, services |-> Services(n, <<>>), relays |-> Relays(2)] :
            n \in {0, 60, 61}}
    \cup {[kind |-> "ack", sequence |-> 65535, code |-> c] : c \in {0, \hEB, \hEC, \hED, \hEE, \hEF, \hF0}}
    \cup {[kind |-> "parameter", sequence |-> 255, service |-> s, param |-> 1027, value |-> v] :
            s \in {0, 1}, v \in {-1, 16909060}}
    \cup {[kind |-> "group", sequence |-> 772, mask |-> m, has |-> 4660, refuses |-> b] :
            m \in {-1, 32769}, b \in BOOLEAN}
    \cup {[kind |-> "ping", sequence |-> 1, payload |-> <<0, 255, 7>>]}

-------------------------------------------------------------------------------
(* Devices to open, start and lose *)

Caps(model, min, max) == [model |-> model, min |-> min, max |-> max]
Opened(kind, scanned, live) ==
    [kind |-> kind, swap |-> kind = "Helios", scanned |-> scanned, live |-> live,
     lights |-> kind = "LaserCubeUsb", once |-> kind = "LaserCubeUsb"]

\* A LaserCube USB learns its top rate by connecting; a custom backend may learn that its
\* output model is another one, of its own kind or of the other.
Cupboard ==
    {Opened("EtherDream", Caps("NetworkFifo", 1, 3), Caps("NetworkFifo", 1, 3)),
     Opened("LaserCubeUsb", Caps("BlockingFifo", 1, 3), Caps("BlockingFifo", 1, 2)),
     Opened("Helios", Caps("UsbFrameSwap", 2, 3), Caps("UsbFrameSwap", 2, 3)),
     Opened("Oscilloscope", Caps("NetworkFifo", 1, 3), Caps("NetworkFifo", 1, 3)),
     Opened("Idn", Caps("UdpTimed", 1, 3), Caps("UdpTimed", 1, 3)),
     Opened("Custom", Caps("NetworkFifo", 1, 3), Caps("UdpTimed", 1, 3)),
     Opened("Custom", Caps("NetworkFifo", 1, 3), Caps("UsbFrameSwap", 1, 3)),
     Opened("Custom", Caps("UsbFrameSwap", 1, 3), Caps("NetworkFifo", 1, 3))}

-------------------------------------------------------------------------------
(* Units to find, by their identifiers and by scanning *)

Named(prefix, mark, host) == [prefix |-> prefix, mark |-> mark, host |-> host]
Players ==
    {{Named("etherdream", "a", ""), Named("etherdream", "b", ""), Named("idn", "b", "x")},
     {Named("idn", "b", "x"), Named("idn", "c", "x")},
     {Named("lasercube-network", "d", ""), Named("lasercube-network", "e", ""),
      Named("lasercube-network", "", "f")},
     {Named("lasercube-usb", "d", ""), Named("lasercube-usb", "", "f"), Named("lasercube-usb", "", "g")},
     {Named("helios", "n", "1"), Named("helios", "N!", "2"), Named("helios", "m", "")},
     {Named("avb", "n", "1"), Named("avb", "n", "2"), Named("oscilloscope", "n", "")}}

\* A name with capitals and punctuation, and what is left of it
Spellings == [name \in {"N!"} |-> "n"]

\* register_builtins, and an application's own choice in its own order
Orders == {<<"helios", "etherdream", "idn", "lasercube-network", "lasercube-usb", "oscilloscope", "avb">>,
           <<"lasercube-network", "idn">>}

Offer(id, kind) == [service_id |-> id, kind |-> kind]
Receiver(id, addresses, services) ==
    [unit_id |-> id, hostname |-> "h", addresses |-> addresses, services |-> services]
Receivers ==
    {{Receiver("u", {1, 2}, <<Offer(1, "laser"), Offer(2, "laser")>>)},
     {Receiver("u", {1}, <<Offer(1, "laser"), Offer(2, "laser")>>),
      Receiver("v", {3}, <<Offer(1, "laser"), Offer(2, "dmx")>>)}}

Cube(serial, addresses) == [kind |-> "cube", serial |-> serial, addresses |-> addresses]
Dream(mac, addresses) == [kind |-> "dream", serial |-> mac, addresses |-> addresses]
Wires == {{Cube("c1", {1, 2}), Cube("000", {3})}, {Cube("000", {1}), Cube("", {2})},
          {Dream("m1", {1, 2}), Dream("m2", {3})}}

-------------------------------------------------------------------------------
(* Scenarios through the interlock of the hardware check *)

Script(sends, injects) == [NoPlan EXCEPT !.sends = sends, !.injects = injects]
Scripts ==
    {[Script(<<<<"prepare", "data", "begin", "data">>, <<"clear">>>>, <<<<>>, <<>>>>) EXCEPT !.drops = 1],
     [Script(<<<<"prepare", "begin", "clear", "prepare">>, <<"ping">>>>, <<<<"estop">>, <<>>>>)
        EXCEPT !.window = 2, !.reestops = 1],
     [Script(<<<<"prepare", "begin", "data", "clear">>>>, <<<<"estop", "data">>>>)
        EXCEPT !.window = 2, !.drops = 1],
     Script(<<<<"prepare", "begin", "unsafe", "data">>, <<"ping">>>>, <<<<>>, <<>>>>),
     [Script(<<<<"prepare", "begin", "unsafe", "data">>>>, <<<<"estop">>>>) EXCEPT !.window = 2],
     [Script(<<<<"prepare", "begin", "clear", "prepare">>, <<"prepare">>>>, <<<<>>, <<>>>>)
        EXCEPT !.buttons = 1],
     [Script(<<<<"prepare">>, <<"ping">>>>, <<<<>>, <<>>>>) EXCEPT !.others = TRUE]}

-------------------------------------------------------------------------------
(* Points for the devices with 12-bit scanners, and LaserCubes to connect *)

Corners ==
    <<[x |-> 32767, y |-> -32767, r |-> 65535, g |-> 0, b |-> 32768, intensity |-> 65535],
      [x |-> 0, y |-> 1, r |-> 65535, g |-> 15, b |-> 257, intensity |-> 32767],
      [x |-> -40000, y |-> 40000, r |-> 65535, g |-> 40000, b |-> 1, intensity |-> 0],
      [x |-> 8, y |-> -8, r |-> 128, g |-> 129, b |-> 65407, intensity |-> 65535],
      [x |-> 12345, y |-> -23456, r |-> 50000, g |-> 65535, b |-> 256, intensity |-> 40000]>>

Parcel(to, n, pps, bulk) ==
    [to |-> to, points |-> [i \in 1..n |-> Corners[1 + (i % 5)]], pps |-> pps,
     numbers |-> <<255, n % 256>>, bulk |-> bulk]

\* Up to the limits: 140 samples a datagram; 45 and 109 points fill the last packet of a Helios transfer.
Shipments ==
    {Parcel("cube", n, 0, 0) : n \in {0, 1, 80, 140, 141}}
    \cup {Parcel("cube usb", n, 0, b) : n \in {0, 1, 4, 5, 9}, b \in {0, 1, 4}}
    \cup {Parcel("helios", n, pps, 0) : n \in {0, 1, 44, 45, 46, 109}, pps \in {1, 7, 30000, 65535, 70000}}

PlainCube ==
    [refusal |-> 0, version |-> 0, length |-> 64, major |-> 0, minor |-> 12, lit |-> FALSE,
     output |-> FALSE, interlock |-> TRUE, warm |-> FALSE, hot |-> TRUE, errors |-> 0, point_rate |-> 0,
     point_rate_max |-> 20000, free |-> 6000, buffer |-> 6000, battery |-> 255, temperature |-> -5,
     connection |-> 1, serial |-> <<0, 16, 255, 1, 170, 9>>, model |-> 0, name |-> <<76, 67>>,
     threshold |-> 0, acks |-> FALSE]

\* Old and new flags; a name without end and one that is no text; limits unknown; a buffer no larger than the cutoff; and
\* datagrams that must not be taken for a cube's
CubesOnSale ==
    {PlainCube,
     [PlainCube EXCEPT !.minor = 13, !.errors = 15, !.connection = 0, !.lit = TRUE, !.output = TRUE],
     [PlainCube EXCEPT !.major = 1, !.minor = 24, !.buffer = 1800, !.free = 2000, !.connection = 3,
                       !.length = 72, !.name = [i \in 1..30 |-> 65]],
     [PlainCube EXCEPT !.model = 10, !.point_rate_max = 0, !.connection = 9, !.point_rate = 40000],
     [PlainCube EXCEPT !.model = 10, !.buffer = 0, !.free = 9, !.name = <<76, 255, 67>>],
     [PlainCube EXCEPT !.length = 63], [PlainCube EXCEPT !.refusal = 1], [PlainCube EXCEPT !.version = 1]}

-------------------------------------------------------------------------------
Parts == {"control", "framing", "datagrams", "lifecycle", "registry", "idn scan", "lan scan", "interlock",
          "software decay", "status decay", "acknowledged", "stamps", "simulator", "samples", "cube"}

wireVars == <<framingVars, exchangeVars, parcelVars, cubeVars>>
scanVars == <<scannerVars, lanVars>>
estimateVars == <<decayVars, statusVars, ackedVars, clockVars>>
deviceVars == <<lifeVars, registryVars, hwVars, simVars>>
vars == <<part, casVars, wireVars, deviceVars, scanVars, estimateVars>>

Init ==
    /\ part \in Parts
    /\ CASInit /\ (part # "control" => rate = [pps |-> 1, min |-> 1, max |-> 1])
    /\ FramingInit(part = "framing")
    /\ ExchangeInit /\ ParcelInit
    /\ CubeInit(part = "cube")
    /\ LifeInit(part = "lifecycle")
    /\ RegistryInit(part = "registry")
    /\ ScannerInit(part = "idn scan")
    /\ LanInit(part = "lan scan")
    /\ HwInit(part = "interlock")
    /\ SimInit(part = "simulator")
    /\ DecayInit /\ StatusInit /\ AckedInit
    /\ ClockInit /\ (part # "stamps" => scan_speed = CHOOSE s \in Speeds : TRUE)

\* What came to its end stays there.
Finished ==
    /\ part \in {"framing", "lifecycle", "registry", "idn scan", "lan scan", "interlock", "simulator", "cube"}
    /\ part = "framing" => FramingOver
    /\ part = "simulator" => SimOver
    /\ part = "cube" => CubeOver
    /\ LifeOver /\ ScannerOver /\ LanOver /\ HwOver
    /\ UNCHANGED vars

DeviceNext ==
    \/ /\ part = "lifecycle" /\ LifeNext
       /\ UNCHANGED <<registryVars, hwVars, simVars>>
    \/ /\ part = "registry" /\ RegistryNext
       /\ UNCHANGED <<lifeVars, hwVars, simVars>>
    \/ /\ part = "interlock" /\ HwNext
       /\ UNCHANGED <<lifeVars, registryVars, simVars>>
    \/ /\ part = "simulator" /\ SimNext
       /\ UNCHANGED <<lifeVars, registryVars, hwVars>>

WireNext ==
    \/ /\ part = "framing" /\ FramingNext
       /\ UNCHANGED <<exchangeVars, parcelVars, cubeVars>>
    \/ /\ part = "datagrams" /\ ExchangeNext
       /\ UNCHANGED <<framingVars, parcelVars, cubeVars>>
    \/ /\ part = "samples" /\ ParcelNext
       /\ UNCHANGED <<framingVars, exchangeVars, cubeVars>>
    \/ /\ part = "cube" /\ CubeNext
       /\ UNCHANGED <<framingVars, exchangeVars, parcelVars>>

EstimateNext ==
    \/ /\ part = "software decay" /\ DecayNext
       /\ UNCHANGED <<statusVars, ackedVars, clockVars>>
    \/ /\ part = "status decay" /\ StatusNext
       /\ UNCHANGED <<decayVars, ackedVars, clockVars>>
    \/ /\ part = "acknowledged" /\ AckedNext
       /\ UNCHANGED <<decayVars, statusVars, clockVars>>
    \/ /\ part = "stamps" /\ ClockNext
       /\ UNCHANGED <<decayVars, statusVars, ackedVars>>

Next ==
    \/ /\ part = "control" /\ CASNext
       /\ UNCHANGED <<part, wireVars, deviceVars, scanVars, estimateVars>>
    \/ WireNext /\ UNCHANGED <<part, casVars, deviceVars, scanVars, estimateVars>>
    \/ /\ part = "idn scan" /\ ScannerNext
       /\ UNCHANGED <<part, casVars, wireVars, deviceVars, lanVars, estimateVars>>
    \/ /\ part = "lan scan" /\ LanNext
       /\ UNCHANGED <<part, casVars, wireVars, deviceVars, scannerVars, estimateVars>>
    \/ DeviceNext /\ UNCHANGED <<part, casVars, wireVars, scanVars, estimateVars>>
    \/ EstimateNext /\ UNCHANGED <<part, casVars, wireVars, deviceVars, scanVars>>
    \/ Finished

Spec == Init /\ [][Next]_vars

-------------------------------------------------------------------------------
(* Properties of several parts *)

\* CommandQueue::submit, recv_response_buffered, FrameParser and packet_builder: what one end writes
\* the other reads as it was meant, or the end that reads it notices. encode_sample_packet,
\* send_samples, encode_frame_into and TransportHandle::connect: a device is sent what its points
\* mean, in transfers it can take, and only after it was understood.
WireAgrees ==
    /\ Framed /\ OkMeansAcked
    /\ ParserAgrees /\ AnswersUnderstood
    /\ PointsShown /\ CubeSound

\* The interlock of the hardware check and the simulator's server: nothing reaches a DAC that was
\* stopped, and the server counts, closes and joins its connections as it says.
HarnessSound == Interlocked /\ Served

\* The scanners, the registry and the reconnect target: what a scan reports is there, none
\* is reported in place of another, an IDN unit is reported once however many addresses it has, and
\* what is opened again is the unit that was asked for.
FoundTrue == FoundAgain /\ ScanTrue /\ LanTrue

===============================================================================
