-------------------------------- MODULE IdnWire -------------------------------
(***************************************************************************)
(* The bytes of the IDN protocol, and their exchange.                      *)
(***************************************************************************)
EXTENDS IdnParser, WireFormat

-----------------------------------------------------------------------------
(***************************************************************************)
(* The bytes of the IDN protocol.  The host's messages (idn/protocol.rs,   *)
(* written by idn/dac/stream.rs, read by idn/mod.rs and stream.rs) and the *)
(* receiver's (receiver/packet_builder.rs and parser.rs) are two separate  *)
(* implementations; each is given here from its own source.                *)
(*                                                                         *)
(* A channel message is the record of IdnParser, with what only the wire   *)
(* shows beside it: sequence number, service, timestamp, duration, whether *)
(* it is the last fragment, and its points.                                *)
(***************************************************************************)

Ignored == [kind |-> "ignored"]

-------------------------------------------------------------------------------
(* The host's layouts: protocol.rs *)

PacketHeader == <<Uint("command", 1), Uint("flags", 1), Uint("sequence", 2)>>

ScanResponse ==
    <<Uint("struct_size", 1), Uint("protocol_version", 1), Uint("status", 1), Uint("reserved", 1),
      Octets("unit_id", 16), Octets("hostname", 20)>>

ServiceMapResponseHeader ==
    <<Uint("struct_size", 1), Uint("entry_size", 1), Uint("relay_entry_count", 1),
      Uint("service_entry_count", 1)>>

ServiceMapEntry ==
    <<Uint("service_id", 1), Uint("service_type", 1), Uint("flags", 1), Uint("relay_number", 1),
      Octets("name", 20)>>

ChannelMessageHeader == <<Uint("total_size", 2), Uint("content_id", 2), Uint("timestamp", 4)>>

ChannelConfigHeader ==
    <<Uint("word_count", 1), Uint("flags", 1), Uint("service_id", 1), Uint("service_mode", 1)>>

SampleChunkHeader == <<Uint("flags_duration", 4)>>

AcknowledgeResponse ==
    <<Uint("struct_size", 1), Sint("result_code", 1), Uint("input_event_flags", 2),
      Uint("pipeline_event_flags", 2), Uint("status_flags", 1), Uint("link_quality", 1),
      Uint("latency_us", 2)>>

ParameterGetRequest == <<Uint("service_id", 1), Uint("reserved", 1), Uint("param_id", 2)>>
ParameterSetRequest == ParameterGetRequest \o <<Uint("value", 4)>>
ParameterResponse ==
    <<Uint("service_id", 1), Sint("result_code", 1), Uint("param_id", 2), Uint("value", 4)>>

GroupRequest ==
    <<Uint("struct_size", 1), Sint("op_code", 1), Uint("group_mask", 2), Octets("auth_code", 12)>>
GroupResponse == <<Uint("struct_size", 1), Sint("op_code", 1), Uint("group_mask", 2)>>

PointXyrgbi ==
    <<Sint("x", 2), Sint("y", 2), Uint("r", 1), Uint("g", 1), Uint("b", 1), Uint("i", 1)>>
PointXyrgbHighRes == <<Sint("x", 2), Sint("y", 2), Uint("r", 2), Uint("g", 2), Uint("b", 2)>>
PointExtended ==
    PointXyrgbHighRes \o <<Uint("i", 2), Uint("u1", 2), Uint("u2", 2), Uint("u3", 2), Uint("u4", 2)>>

PointLayout == [rgbi |-> PointXyrgbi, highres |-> PointXyrgbHighRes, extended |-> PointExtended]

\* channel_descriptors
XYRGBI == <<\h4200, \h4010, \h4210, \h4010, \h527E, \h5214, \h51CC, \h5C10>>
XYRGB_HIGHRES ==
    <<\h4200, \h4010, \h4210, \h4010, \h527E, \h4010, \h5214, \h4010, \h51CC, \h4010>>
EXTENDED ==
    XYRGB_HIGHRES \o <<\h5C10, \h4010, \h51BD, \h4010, \h5241, \h4010, \h51E8, \h4010, \h4201, \h4010>>
Descriptors == [rgbi |-> XYRGBI, highres |-> XYRGB_HIGHRES, extended |-> EXTENDED]

BE(layout, m) == WriteBytes(BigEndian, layout, m)
FromBE(layout, bytes) == ReadBytes(BigEndian, layout, bytes)

-------------------------------------------------------------------------------
(* What the host writes *)

\* From<&LaserPoint>, for each format
WirePoint(format, p) ==
    LET colour(c) == CASE format = "rgbi" -> ColorToU8(c)
                       [] format = "highres" -> Dim(c, p.intensity)
                       [] format = "extended" -> c
    IN  [x |-> CoordToI16Inverted(p.x), y |-> CoordToI16Inverted(p.y),
         r |-> colour(p.r), g |-> colour(p.g), b |-> colour(p.b), i |-> colour(p.intensity),
         u1 |-> 0, u2 |-> 0, u3 |-> 0, u4 |-> 0]

ChannelId(service) == ((IF service = 0 THEN 0 ELSE service - 1) % 64) * 256
SdmFlags(match) == ((match % 2) + 2) * 16

ChunkTypeByte ==
    [Void |-> \h00, Wave |-> \h01, Frame |-> \h02, FrameFirst |-> \h03, FrameSequel |-> \hC0]

\* The bit that announces a configuration marks, on a sequel, the last fragment.
ContentId(d) ==
    LET bit == d.config # NoConfig \/ (d.type = "FrameSequel" /\ d.last)
    IN  \h8000 + (IF bit THEN \h4000 ELSE 0) + ChannelId(d.service) + ChunkTypeByte[d.type]

\* write_config, and the header that closes a channel
ConfigBytes(d) ==
    IF d.config.routing
    THEN BE(ChannelConfigHeader,
            [word_count |-> Len(Descriptors[d.config.format]) \div 2,
             flags |-> 1 + SdmFlags(d.config.sdm), service_id |-> d.service,
             service_mode |-> IF d.config.mode = "Continuous" THEN 1 ELSE 2])
         \o Concat([i \in DOMAIN Descriptors[d.config.format] |->
                            IntBytes(BigEndian, Descriptors[d.config.format][i], 2)])
    ELSE IF d.config.close
    THEN BE(ChannelConfigHeader,
            [word_count |-> 0, flags |-> 2, service_id |-> d.service, service_mode |-> 0])
    ELSE <<>>

ChunkBytes(d) ==
    IF d.type \in {"Void", "FrameSequel"} THEN <<>>
    ELSE BE(SampleChunkHeader,
            [flags_duration |-> SdmFlags(d.sdm) * 2^24 + (d.duration % 2^24)])

\* build_and_send_first_packet, write_frame_continuation, send_frame_fragment,
\* send_keepalive and send_channel_close write the same parts.
ChannelMessageBytes(d) ==
    LET body == ConfigBytes(d) \o ChunkBytes(d)
                \o Concat([i \in DOMAIN d.points |->
                        BE(PointLayout[d.format], WirePoint(d.format, d.points[i]))])
    IN  BE(PacketHeader, [command |-> IF d.cmd = "cnlmsg_ackreq" THEN \h41 ELSE \h40,
                          flags |-> 0, sequence |-> d.sequence])
        \o BE(ChannelMessageHeader, [total_size |-> 8 + Len(body), content_id |-> ContentId(d),
                                     timestamp |-> d.timestamp])
        \o body

-------------------------------------------------------------------------------
(* What the receiver reads: parser.rs.  The state it keeps for a channel   *)
(* has the two match bits and the service mode as they are on the wire.    *)

U16(bytes, at) == bytes[at] * 256 + bytes[at + 1]

\* parse_metadata
ParseMetadata(bytes) ==
    LET total == U16(bytes, 5)
        content == U16(bytes, 7)
        bit == (content \div 2^14) % 2 = 1
        type == content % 256
    IN  IF \/ Len(bytes) < 12
           \/ ~(8 <= total /\ total <= \hFF00)
           \/ Len(bytes) < 4 + total
           \/ content < \h8000
        THEN Ignored
        ELSE [kind |-> "metadata", sequence |-> U16(bytes, 3), total_size |-> total,
              channel_id |-> (content \div 256) % 64, chunk_type |-> type,
              has_config |-> bit /\ type < \hC0,
              is_last_fragment |-> type = \h02 \/ (type = \hC0 /\ bit),
              timestamp |-> IntOf(BigEndian, SubSeq(bytes, 9, 12))]

DESC_PRECISION_16BIT == \h4010

\* classify_format, the walk: the channels of the first scan head and their bytes, or
\* a single channel of no bytes where a precision stands alone.
DescribedChannels(descs) ==
    LET from[i \in 1..(Len(descs) + 16)] ==
            IF i > Len(descs) THEN <<>>
            ELSE LET d == descs[i]
                     wide == i < Len(descs) /\ descs[i + 1] = DESC_PRECISION_16BIT
                 IN  CASE d \div 4096 = 0 -> from[i + 1 + (d % 16)]
                       [] d \div 256 = \h10 -> <<>>
                       [] d \div 4096 = 1 /\ d \div 256 # \h10 -> from[i + 1]
                       [] d = DESC_PRECISION_16BIT -> <<[id |-> d, bytes |-> 0]>>
                       [] OTHER -> <<[id |-> d, bytes |-> IF wide THEN 2 ELSE 1]>>
                                   \o from[IF wide THEN i + 2 ELSE i + 1]
    IN  from[1]

\* classify_format, the match, and SampleFormat::sample_size
KnownFormats ==
    [rgbi |-> [ids |-> <<\h4200, \h4210, \h527E, \h5214, \h51CC, \h5C10>>, size |-> 8],
     highres |-> [ids |-> <<\h4200, \h4210, \h527E, \h5214, \h51CC>>, size |-> 10],
     extended |-> [ids |-> <<\h4200, \h4210, \h527E, \h5214, \h51CC, \h5C10, \h51BD, \h5241,
                             \h51E8, \h4201>>, size |-> 20],
     xy |-> [ids |-> <<\h4200, \h4210>>, size |-> 4],
     xyrgb |-> [ids |-> <<\h4200, \h4210, \h527E, \h5214, \h51CC>>, size |-> 7]]

ClassifyFormat(descs) ==
    LET channels == DescribedChannels(descs)
        described == [ids |-> [i \in DOMAIN channels |-> channels[i].id],
                      size |-> Offset([i \in DOMAIN channels |-> [width |-> channels[i].bytes]], Len(channels))]
        matching == {f \in DOMAIN KnownFormats : KnownFormats[f] = described}
    IN  IF matching = {} THEN "none" ELSE CHOOSE f \in matching : TRUE

\* parse_channel_config; `cursor` is what follows the message header
ParseChannelConfig(cursor) ==
    LET descs == [i \in 1..(2 * cursor[1]) |-> U16(cursor, 3 + 2 * i)]
        routing == cursor[2] % 2 = 1
    IN  IF Len(cursor) < 4 \/ Len(cursor) < 4 + 4 * cursor[1] THEN Ignored
        ELSE [kind |-> "config", routing |-> routing, close |-> (cursor[2] \div 2) % 2 = 1,
              sdm |-> (cursor[2] \div 16) % 4, mode |-> cursor[4],
              format |-> IF routing /\ cursor[4] # 0 THEN ClassifyFormat(descs) ELSE "none",
              size |-> 4 + 4 * cursor[1]]

ModeAccepts(mode, type) == (mode = 1 /\ type = \h01) \/ (mode = 2 /\ type \in {\h02, \h03, \hC0})

SampleLayout ==
    LET xy == <<Sint("x", 2), Sint("y", 2)>>
        rgb(w) == <<Uint("r", w), Uint("g", w), Uint("b", w)>>
    IN  [xy |-> xy, xyrgb |-> xy \o rgb(1), rgbi |-> xy \o rgb(1) \o <<Uint("i", 1)>>,
         highres |-> xy \o rgb(2), extended |-> xy \o rgb(2) \o <<Uint("i", 2), Octets("user", 8)>>]

\* A sample as it is read, in the format that the channel has; brightness in 1/65535,
\* intensity multiplied in.
Brightened(format, p) ==
    LET colour(name) == CASE format = "xy" -> 0
                          [] format = "xyrgb" -> p[name] * 257
                          [] format = "rgbi" -> (p[name] * p.i * 257) \div 255
                          [] format = "highres" -> p[name]
                          [] format = "extended" -> Dim(p[name], p.i)
        coordinate(v) == IF v = -32768 THEN -32767 ELSE v
    IN  [x |-> coordinate(p.x), y |-> coordinate(p.y),
         r |-> colour("r"), g |-> colour("g"), b |-> colour("b")]

ReceivedPoint(format, bytes) == Brightened(format, FromBE(SampleLayout[format], bytes))

NoChunk == [kind |-> "none"]
NoStateSeen == [format |-> "none", sdm |-> 0, mode |-> 0]

\* What comes of a message: the chunk, and the channel state that is left
Parsed(chunk, left) == [chunk |-> chunk, state |-> left]

\* The samples, behind the sample chunk header where there is one
ParseSamples(meta, data, duration, cached, current, update) ==
    LET size == KnownFormats[current.format].size
    IN  IF Len(data) % size # 0 THEN Parsed(NoChunk, cached)
        ELSE Parsed([kind |-> "chunk", sequence |-> meta.sequence, channel_id |-> meta.channel_id,
                     is_last_fragment |-> meta.is_last_fragment, timestamp |-> meta.timestamp,
                     duration |-> duration, format |-> current.format,
                     points |-> [i \in 1..(Len(data) \div size) |->
                        ReceivedPoint(current.format, SubSeq(data, (i - 1) * size + 1, i * size))]],
                    update)

\* What follows the configuration, under the state `current`; `update` is
\* state_update_for_config.
ParseChunk(meta, rest, cached, current, update) ==
    CASE meta.chunk_type = \h00 -> Parsed(NoChunk, update)
      [] meta.chunk_type # \h00 /\ current = NoStateSeen -> Parsed(NoChunk, cached)
      [] meta.chunk_type # \h00 /\ current # NoStateSeen ->
            IF ~ModeAccepts(current.mode, meta.chunk_type) THEN Parsed(NoChunk, update)
            ELSE IF meta.chunk_type = \hC0 THEN ParseSamples(meta, rest, 0, cached, current, update)
            ELSE IF Len(rest) < 4 THEN Parsed(NoChunk, cached)
            ELSE IF (rest[1] \div 16) % 4 # current.sdm THEN Parsed(NoChunk, NoStateSeen)
            ELSE ParseSamples(meta, After(rest, 4), IntOf(BigEndian, SubSeq(rest, 2, 4)), cached,
                              current, update)

ParseConfigured(meta, rest, config, cached) ==
    LET routed == [format |-> config.format, sdm |-> config.sdm, mode |-> config.mode]
        current == IF config.routing THEN routed ELSE cached
    IN  IF config = Ignored THEN Parsed(NoChunk, cached)
        ELSE IF config.routing /\ (config.format = "none" \/ config.mode = 0)
        THEN Parsed(NoChunk, NoStateSeen)
        ELSE ParseChunk(meta, After(rest, config.size), cached, current,
                        IF config.close THEN NoStateSeen ELSE current)

\* parse_frame_data_with_metadata
ParseWithMetadata(meta, bytes, cached) ==
    LET rest == SubSeq(bytes, 13, 4 + meta.total_size)
    IN  IF meta.has_config THEN ParseConfigured(meta, rest, ParseChannelConfig(rest), cached)
        ELSE ParseChunk(meta, rest, cached, cached, cached)

ParseUnlessIgnored(meta, bytes, cached) ==
    IF meta = Ignored THEN Parsed(NoChunk, cached) ELSE ParseWithMetadata(meta, bytes, cached)

\* FrameParser::parse_frame_data, for one channel
ParseBytes(bytes, cached) == ParseUnlessIgnored(ParseMetadata(bytes), bytes, cached)

-------------------------------------------------------------------------------
(* What the receiver answers: packet_builder.rs.  A name is a sequence of  *)
(* characters, each the sequence of its UTF-8 bytes.                       *)

\* floor_char_boundary: the longest prefix of whole characters within `max` bytes
FloorCharBoundary(name, max) ==
    LET lengths == {Len(Concat(SubSeq(name, 1, k))) : k \in 0..Len(name)}
    IN  CHOOSE n \in lengths : n <= max /\ \A m \in lengths : m <= max => m <= n

CopyPaddedName(name, size) ==
    LET bytes == Concat(name)
        end == FloorCharBoundary(name, size)
    IN  [i \in 1..size |-> IF i <= end THEN bytes[i] ELSE 0]

BuildScanResponse(flags, sequence, unit) ==
    <<\h11, flags>> \o IntBytes(BigEndian, sequence, 2)
    \o <<40, unit.protocol_version, unit.status, 0>> \o unit.unit_id
    \o CopyPaddedName(unit.hostname, 20)

BuildServicemapResponse(flags, sequence, services, relays) ==
    <<\h13, flags>> \o IntBytes(BigEndian, sequence, 2)
    \o <<4, 24, Len(relays) % 256, Len(services) % 256>>
    \o Concat([i \in DOMAIN relays |->
            <<0, 0, 0, relays[i].relay_number>> \o CopyPaddedName(relays[i].name, 20)])
    \o Concat([i \in DOMAIN services |->
            <<services[i].service_id, services[i].service_type, services[i].flags,
              services[i].relay_number>> \o CopyPaddedName(services[i].name, 20)])

BuildPingResponse(flags, sequence, payload) ==
    <<\h09, flags>> \o IntBytes(BigEndian, sequence, 2) \o payload

BuildAckResponseFull(flags, sequence, code, quality, latency) ==
    <<\h47, flags>> \o IntBytes(BigEndian, sequence, 2)
    \o <<12, code, 0, 0, 0, 0, 0, quality>> \o IntBytes(BigEndian, latency, 4)

BuildAckResponse(flags, sequence, code) == BuildAckResponseFull(flags, sequence, code, \hFF, 0)

BuildParameterResponse(flags, sequence, cmd, code, service, param, value) ==
    <<cmd, flags>> \o IntBytes(BigEndian, sequence, 2) \o <<service, code % 256>>
    \o IntBytes(BigEndian, param, 2) \o IntBytes(BigEndian, value, 4)

\* The server's branches for parameter requests: it echoes the service and the
\* parameter, and answers one value.
AnswerParameters(bytes) ==
    LET service == IF Len(bytes) > 4 THEN bytes[5] ELSE 0
        param == IF Len(bytes) > 7 THEN U16(bytes, 7) ELSE 0
    IN  BuildParameterResponse(bytes[2], U16(bytes, 3), IF bytes[1] = \h22 THEN \h23 ELSE \h21,
                               0, service, param, \h12345678)

-------------------------------------------------------------------------------
(* What the host reads *)

\* The bytes are a sequence of whole characters.
ValidUtf8(bytes) ==
    LET size(b) == CASE b < 128 -> 1 [] 192 <= b /\ b < 224 -> 2 [] 224 <= b /\ b < 240 -> 3
                     [] 240 <= b -> 4 [] 128 <= b /\ b < 192 -> 0
        valid[i \in 1..(Len(bytes) + 4)] ==
            IF i > Len(bytes) THEN i = Len(bytes) + 1
            ELSE /\ size(bytes[i]) > 0
                 /\ \A j \in (i + 1)..(i + size(bytes[i]) - 1) : j <= Len(bytes) /\ size(bytes[j]) = 0
                 /\ valid[i + size(bytes[i])]
    IN  valid[1]

NullTerminatedStr(bytes) ==
    LET nuls == {i \in DOMAIN bytes : bytes[i] = 0}
        end == IF nuls = {} THEN Len(bytes) ELSE (CHOOSE i \in nuls : \A j \in nuls : i <= j) - 1
    IN  IF ValidUtf8(Take(bytes, end)) THEN Take(bytes, end) ELSE <<>>

\* process_scan_response and the entry that record_server makes of it
ReadScanResponse(bytes) ==
    LET r == FromBE(ScanResponse, After(bytes, 4))
    IN  IF Len(bytes) < 44 \/ bytes[1] # \h11 THEN Ignored
        ELSE [kind |-> "unit", unit_id |-> r.unit_id, hostname |-> NullTerminatedStr(r.hostname),
              version |-> <<r.protocol_version \div 16, r.protocol_version % 16>>,
              status |-> r.status]

\* parse_service_map_entries: stops at the first entry that is not there in full
MapEntries(cursor, count, size) ==
    LET whole == IF size = 0 THEN count ELSE Len(cursor) \div size
        n == IF whole < count THEN whole ELSE count
        entry(i) == LET raw == SubSeq(cursor, (i - 1) * size + 1, i * size)
                    IN  FromBE(ServiceMapEntry, [k \in 1..24 |-> IF k <= Len(raw) THEN raw[k] ELSE 0])
    IN  [i \in 1..n |-> entry(i)]

ServiceTypeOf(byte) ==
    CASE \h80 <= byte /\ byte <= \hBF -> "LaserProjector"
      [] byte = \h04 -> "Uart" [] byte = \h05 -> "Dmx512" [] OTHER -> "Unknown"

\* RelayInfo::from_entry and ServiceInfo::from_entry
RelayOf(e) == [relay_number |-> e.relay_number, name |-> NullTerminatedStr(e.name)]
ServiceOf(e) == [service_id |-> e.service_id, flags |-> e.flags,
                 service_type |-> ServiceTypeOf(e.service_type), relay_number |-> e.relay_number,
                 name |-> NullTerminatedStr(e.name)]

MapFrom(relays, services) ==
    [kind |-> "map", relays |-> [i \in DOMAIN relays |-> RelayOf(relays[i])],
     services |-> [i \in DOMAIN services |-> ServiceOf(services[i])]]

ReadEntries(h, rest) ==
    LET extra == IF h.struct_size > 4 THEN h.struct_size - 4 ELSE 0
        cursor == IF extra > 0 /\ Len(rest) >= extra THEN After(rest, extra) ELSE rest
        relays == MapEntries(cursor, h.relay_entry_count, h.entry_size)
    IN  MapFrom(relays, MapEntries(After(cursor, Len(relays) * h.entry_size),
                                   h.service_entry_count, h.entry_size))

\* recv_service_map, from a datagram in the buffer
ReadServiceMap(bytes, expected) ==
    IF Len(bytes) < 8 \/ bytes[1] # \h13 \/ U16(bytes, 3) # expected THEN Ignored
    ELSE ReadEntries(FromBE(ServiceMapResponseHeader, After(bytes, 4)), After(bytes, 8))

\* recv_matching and recv_response
RecvResponse(bytes, layout, cmd, expected) ==
    IF Len(bytes) < 4 \/ bytes[1] # cmd \/ U16(bytes, 3) # expected THEN Ignored
    ELSE IF Len(bytes) < 4 + Width(layout) THEN [kind |-> "BufferTooSmall"]
    ELSE [kind |-> "response", body |-> FromBE(layout, After(bytes, 4))]

\* ResponseError::from_ack_code
FromAckCode(code) ==
    IF code >= 0 THEN "success"
    ELSE CASE code + 256 = \hEB -> "NotConnected" [] code + 256 = \hEC -> "Occupied"
           [] code + 256 = \hED -> "Excluded" [] code + 256 = \hEE -> "InvalidPayload"
           [] code + 256 = \hEF -> "GenericError" [] OTHER -> "UnknownAckCode"

\* get_parameter and set_parameter: param_commands and the request
ParameterRequest(sequence, service, param, value) ==
    BE(PacketHeader, [command |-> IF service = 0 THEN \h22 ELSE \h20, flags |-> 0,
                      sequence |-> sequence])
    \o (LET m == [service_id |-> service, reserved |-> 0, param_id |-> param, value |-> value]
        IN  IF value < 0 THEN BE(ParameterGetRequest, m) ELSE BE(ParameterSetRequest, m))

\* get_client_group_mask (mask -1) and set_client_group_mask
GroupMaskRequest(sequence, mask) ==
    BE(PacketHeader, [command |-> \h0C, flags |-> 0, sequence |-> sequence])
    \o BE(GroupRequest, [struct_size |-> 16, op_code |-> IF mask < 0 THEN 1 ELSE 2,
                         group_mask |-> IF mask < 0 THEN 0 ELSE mask,
                         auth_code |-> [i \in 1..12 |-> 0]])

\* A server that has groups: the mask it has afterwards, or an error (external; the
\* receiver of this repository does not answer group requests).
AnswerGroup(bytes, mask, refuses) ==
    LET r == FromBE(GroupRequest, After(bytes, 4))
    IN  <<\h0D, 0>> \o SubSeq(bytes, 3, 4)
        \o BE(GroupResponse, [struct_size |-> 4, op_code |-> IF refuses THEN -3 ELSE 0,
                              group_mask |-> IF r.op_code = 2 /\ ~refuses THEN r.group_mask ELSE mask])

\* GroupResponse::enabled_groups
EnabledGroups(response) == {g \in 0..15 : (response.group_mask \div 2^g) % 2 = 1}

-----------------------------------------------------------------------------
(***************************************************************************)
(* Datagrams between the host and the receiver, as bytes.  Channel         *)
(* messages arrive whole or cut short, in any order; `seen` is what the    *)
(* receiver's own parser keeps of them and `state` what IdnParser says it  *)
(* keeps.  Queries are answered by the receiver's packet builders and read *)
(* by the host.                                                            *)
(***************************************************************************)

CONSTANTS
    Messages,   \* channel messages that the host sends
    Queries     \* what is asked, with what the receiver has to tell

VARIABLES state, seen, last

exchangeVars == <<state, seen, last>>

Nothing == [kind |-> "none"]

ExchangeInit == state = NoState /\ seen = NoStateSeen /\ last = Nothing

\* A channel message arrives.
Deliver(d) ==
    LET by == Parse(d, state)
        got == ParseBytes(ChannelMessageBytes(d), seen)
    IN  /\ state' = by.state
        /\ seen' = got.state
        /\ last' = [kind |-> "message", sent |-> d, by |-> by, chunk |-> got.chunk]

\* Only its first n bytes arrive.
DeliverCut(d, n) ==
    LET got == ParseBytes(Take(ChannelMessageBytes(d), n), seen)
    IN  /\ seen' = got.state
        /\ last' = [kind |-> "cut", chunk |-> got.chunk]
        /\ UNCHANGED state

\* The datagram with the receiver's answer to a query
AnswerOf(q) ==
    CASE q.kind = "scan" -> BuildScanResponse(0, q.sequence, q.unit)
      [] q.kind = "map" -> BuildServicemapResponse(0, q.sequence, q.services, q.relays)
      [] q.kind = "ack" -> BuildAckResponse(0, q.sequence, q.code)
      [] q.kind = "parameter" ->
            AnswerParameters(ParameterRequest(q.sequence, q.service, q.param, q.value))
      [] q.kind = "group" ->
            AnswerGroup(GroupMaskRequest(q.sequence, q.mask), q.has, q.refuses)
      [] q.kind = "ping" -> BuildPingResponse(0, q.sequence, q.payload)

\* The host's receive buffers have 1500 bytes.
ScanBuffer == 1500

ReadAnswer(q) ==
    LET answer == AnswerOf(q)
        bytes == IF Len(answer) > ScanBuffer THEN Take(answer, ScanBuffer) ELSE answer
    IN  CASE q.kind = "scan" -> ReadScanResponse(bytes)
          [] q.kind = "map" -> ReadServiceMap(bytes, q.sequence)
          [] q.kind = "ack" -> RecvResponse(bytes, AcknowledgeResponse, \h47, q.sequence)
          [] q.kind = "parameter" ->
                RecvResponse(bytes, ParameterResponse, IF q.service = 0 THEN \h23 ELSE \h21, q.sequence)
          [] q.kind = "group" -> RecvResponse(bytes, GroupResponse, \h0D, q.sequence)
          [] q.kind = "ping" ->
                RecvResponse(bytes, <<Octets("payload", Len(q.payload))>>, \h09, q.sequence)

Ask(q) ==
    /\ last' = [kind |-> "answer", query |-> q, read |-> ReadAnswer(q)]
    /\ UNCHANGED <<state, seen>>

\* What was read is taken.
Taken == last # Nothing /\ last' = Nothing /\ UNCHANGED <<state, seen>>

ExchangeNext ==
    \/ /\ last = Nothing
       /\ \/ \E d \in Messages : Deliver(d)
          \/ \E d \in Messages : \E n \in 0..(Len(ChannelMessageBytes(d)) - 1) : DeliverCut(d, n)
          \/ \E q \in Queries : Ask(q)
    \/ Taken

-------------------------------------------------------------------------------
(* Properties *)

StateSeen(s) ==
    [format |-> s.format, sdm |-> IF s = NoState THEN 0 ELSE 2 + s.sdm,
     mode |-> CASE s.mode = "none" -> 0 [] s.mode = "Continuous" -> 1 [] s.mode = "Discrete" -> 2]

\* How far 8-bit colours may be from the brightness that was sent
Near(format, a, b) ==
    IF format = "rgbi" THEN -520 <= a - b /\ a - b <= 520 ELSE a = b

PointArrived(format, sent, got) ==
    /\ got.x = -sent.x /\ got.y = -sent.y
    /\ Near(format, got.r, Dim(sent.r, sent.intensity))
    /\ Near(format, got.g, Dim(sent.g, sent.intensity))
    /\ Near(format, got.b, Dim(sent.b, sent.intensity))

\* The receiver's parser makes of the bytes of each channel message what IdnParser says
\* of the message: the same channel state is kept, a chunk comes out of the same
\* messages, and read in the format it was written in it is the chunk that was sent,
\* with its place on the time line.  A message that was cut short changes nothing.
ParserAgrees ==
    /\ seen = StateSeen(state)
    /\ last.kind = "cut" => last.chunk = NoChunk
    /\ last.kind = "message" =>
        LET d == last.sent
            c == last.chunk
        IN  /\ (c.kind = "chunk") <=> last.by.chunk
            /\ c.kind = "chunk" =>
                /\ c.format = last.by.as
                /\ c.sequence = d.sequence /\ c.timestamp = d.timestamp
                /\ c.channel_id * 256 = ChannelId(d.service)
                /\ c.duration = IF d.type = "FrameSequel" THEN 0 ELSE d.duration
                /\ c.is_last_fragment <=> (d.type = "Frame" \/ (d.type = "FrameSequel" /\ d.last))
            /\ (c.kind = "chunk" /\ c.format = d.format) =>
                /\ Len(c.points) = d.n
                /\ \A i \in 1..d.n : PointArrived(d.format, d.points[i], c.points[i])

Prefix(name) == Take(Concat(name), FloorCharBoundary(name, 20))

\* What the receiver tells of itself is what the host reads: identity, services (as many
\* as fit the host's buffer) with their whole-character names, acknowledgements, and the
\* value of the parameter that was asked for.
AnswersUnderstood ==
    last.kind = "answer" =>
        LET q == last.query
            r == last.read
        IN  CASE q.kind = "scan" ->
                    /\ r.kind = "unit"
                    /\ r.unit_id = q.unit.unit_id /\ r.hostname = Prefix(q.unit.hostname)
                    /\ r.status = q.unit.status
              [] q.kind = "map" ->
                    /\ r.kind = "map"
                    /\ Len(r.relays) = Len(q.relays)
                    /\ Len(r.services) = Len(q.services)
                       \/ 8 + 24 * (Len(q.relays) + Len(r.services) + 1) > ScanBuffer
                    /\ \A i \in DOMAIN r.relays : r.relays[i].relay_number = q.relays[i].relay_number
                    /\ \A i \in DOMAIN r.services :
                        /\ r.services[i].service_id = q.services[i].service_id
                        /\ r.services[i].name = Prefix(q.services[i].name)
                        /\ r.services[i].service_type = ServiceTypeOf(q.services[i].service_type)
              [] q.kind = "ack" ->
                    /\ r.kind = "response"
                    /\ (FromAckCode(r.body.result_code) = "success") <=> q.code < 128
                    /\ r.body.link_quality = 255
              [] q.kind = "parameter" ->
                    /\ r.kind = "response"
                    /\ r.body.service_id = q.service /\ r.body.param_id = q.param
                    /\ r.body.value = \h12345678 /\ FromAckCode(r.body.result_code) = "success"
              [] q.kind = "group" ->
                    /\ r.kind = "response" /\ (r.body.op_code >= 0 <=> ~q.refuses)
                    /\ EnabledGroups(r.body) =
                        IF q.mask < 0 \/ q.refuses THEN EnabledGroups([group_mask |-> q.has])
                        ELSE EnabledGroups([group_mask |-> q.mask])
              [] q.kind = "ping" -> r.kind = "response" /\ r.body.payload = q.payload

===============================================================================
