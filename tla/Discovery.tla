------------------------------ MODULE Discovery -------------------------------
(***************************************************************************)
(* Finding devices: by identifier, and on the network by protocol.         *)
(***************************************************************************)
EXTENDS Naturals, FiniteSets, Sequences

-----------------------------------------------------------------------------
(***************************************************************************)
(* Finding a device by its identifier (discovery.rs, the discovery.rs of   *)
(* every protocol, ReconnectTarget::open_device): scanning builds          *)
(* identifiers from what the hardware tells of itself or, failing that,    *)
(* from where it is; opening scans again and takes the first match; a      *)
(* reconnect opens again by the identifier the first opening stored.       *)
(* units move, come and go between any two of these steps.                 *)
(*                                                                         *)
(* An identifier is <<prefix, kind, value>> where kind says what the value *)
(* is: "mark" (MAC, unit id and service, serial, name), "place" (IP        *)
(* address or USB port), "index" (a name and a position among its          *)
(* namesakes) or "host" (host name).                                       *)
(***************************************************************************)

CONSTANTS Casts,        \* sets of units, one of them for a behaviour: [prefix, mark, host],
                        \* mark "" when the hardware tells nothing of itself
          Slugs,        \* the slugs of the names that are not slugs themselves
          Places,
          RegistryOrders,   \* the sequences of prefixes an application may register
          MaxMoves

VARIABLES
    units,      \* the units there are in this behaviour
    sits,         \* where each unit is, 0 when it is not there
    unreadable, \* the units a scan cannot ask for their name (a Helios in use)
    result,     \* a DiscoveredDevice the application keeps, or NoDevice
    dac,        \* the opened Dac, or NoDac; `first` and `named` are the unit it was first
                \* opened for and the identifier scanning gave that unit then
    talks,      \* the unit its backend connected to, or NoUnit
    moves

registryVars == <<units, sits, unreadable, result, dac, talks, moves>>

NoDevice == [stable_id |-> <<"", "", "">>, discoverer_index |-> 0]
NoDac == [id |-> <<"", "", "">>]
NoUnit == [prefix |-> "", mark |-> "", host |-> ""]

Present == {u \in units : sits[u] # 0}

-------------------------------------------------------------------------------
(* Identifiers *)

ByPlace(u) == <<u.prefix, "place", sits[u]>>
\* slugify_device_id keeps the letters and digits of a name: two names may have one slug.
Slug(u) == IF u.prefix \in {"helios", "oscilloscope", "avb"} /\ u.mark \in DOMAIN Slugs
           THEN Slugs[u.mark] ELSE u.mark
ByMark(u) == <<u.prefix, "mark", Slug(u)>>
ByMarkIfAny(u) == IF u.mark # "" THEN ByMark(u) ELSE ByPlace(u)

\* Duplicate names of audio devices are told apart by their position among themselves.
Namesakes(u) == {v \in Present : v.prefix = u.prefix /\ v.mark = u.mark}
DuplicateIndex(u) == Cardinality({v \in Namesakes(u) : sits[v] < sits[u]})

\* The MAC address; the unit and its service; the device's name; name and index
EtherDreamId(u) == ByMark(u)
IdnId(u) == ByMark(u)
OscilloscopeId(u) == ByMark(u)
AvbId(u) == <<u.prefix, "index", <<Slug(u), DuplicateIndex(u)>>>>

\* The name if it can be read now, else the port
HeliosId(u) == IF u \in unreadable THEN ByPlace(u) ELSE ByMarkIfAny(u)

\* The serial if there is one, else the USB or IP address
LaserCubeUsbId(u) == ByMarkIfAny(u)
LaserCubeNetworkId(u) == ByMarkIfAny(u)

StableId(u) ==
    CASE u.prefix = "etherdream" -> EtherDreamId(u)
      [] u.prefix = "idn" -> IdnId(u)
      [] u.prefix = "oscilloscope" -> OscilloscopeId(u)
      [] u.prefix = "avb" -> AvbId(u)
      [] u.prefix = "helios" -> HeliosId(u)
      [] u.prefix = "lasercube-usb" -> LaserCubeUsbId(u)
      [] u.prefix = "lasercube-network" -> LaserCubeNetworkId(u)

\* The identifiers of earlier releases: the host name, the port, the IP address
LegacyIds(u) ==
    CASE u.prefix = "idn" -> {<<u.prefix, "host", u.host>>}
      [] u.prefix \in {"helios", "lasercube-network"} -> {ByPlace(u)} \ {StableId(u)}
      [] OTHER -> {}

\* A discoverer keeps for connecting what it will need: an address, a USB handle, a name.
ConnectData(u) == [prefix |-> u.prefix, unit |-> u, place |-> sits[u],
                   index |-> DuplicateIndex(u), scan_duplicate_count |-> Cardinality(Namesakes(u))]

\* The units a backend made from `data` may find when it connects
Reaches(data) ==
    {u \in Present :
        /\ u.prefix = data.prefix
        /\ CASE u.prefix \in {"etherdream", "idn", "lasercube-network"} -> sits[u] = data.place
             [] u.prefix = "avb" -> /\ u.mark = data.unit.mark
                                    /\ DuplicateIndex(u) = data.index
                                    /\ Cardinality(Namesakes(u)) = data.scan_duplicate_count
             [] u.prefix = "oscilloscope" -> u.mark = data.unit.mark
             [] OTHER -> u = data.unit /\ sits[u] = data.place}

-------------------------------------------------------------------------------
(* DacDiscovery *)

IndexOf(registry, prefix) == CHOOSE i \in DOMAIN registry : registry[i] = prefix
Registered(registry) == {registry[i] : i \in DOMAIN registry}

\* scan_one: the discoverer's devices, each marked with its index
ScanOne(registry, i) ==
    {[stable_id |-> StableId(u), legacy_ids |-> LegacyIds(u), connect_data |-> ConnectData(u),
      discoverer_index |-> i] : u \in {v \in Present : v.prefix = registry[i]}}

\* connect: the index picks the discoverer, which refuses data that is not its own.
Routes(registry, device) ==
    /\ device.discoverer_index \in DOMAIN registry
    /\ registry[device.discoverer_index] = device.connect_data.prefix

\* open_discovered: a Dac that reopens by the identifier this scan gave the device
Opens(device) ==
    [id |-> device.stable_id, target |-> device.stable_id, data |-> device.connect_data,
     first |-> device.connect_data.unit, named |-> device.stable_id, fresh |-> TRUE]

Matches(device, id) == device.stable_id = id \/ id \in device.legacy_ids

\* open_by_id scans the discoverer of the prefix only; order within a scan is the network's.
FindById(registry, id) ==
    IF id[1] \in Registered(registry)
    THEN {d \in ScanOne(registry, IndexOf(registry, id[1])) : Matches(d, id)}
    ELSE {}

-------------------------------------------------------------------------------
\* The application scans and keeps a result.
Keep(registry) ==
    /\ result = NoDevice
    /\ \E i \in DOMAIN registry : \E d \in ScanOne(registry, i) : result' = d
    /\ UNCHANGED <<units, sits, unreadable, dac, talks, moves>>

\* The application opens what it kept, perhaps with a registry built in another order.
OpenKept(registry) ==
    /\ result # NoDevice /\ dac = NoDac
    /\ dac' = IF Routes(registry, result)
              THEN [Opens(result) EXCEPT !.fresh = FALSE]
              ELSE NoDac
    /\ result' = NoDevice
    /\ UNCHANGED <<units, sits, unreadable, talks, moves>>

\* A faulty variant: the Dac would reopen by the identifier the caller asked for.
OpenByIdAsAsked(registry, id) ==
    /\ dac = NoDac
    /\ \E d \in FindById(registry, id) :
        Routes(registry, d) /\ dac' = [Opens(d) EXCEPT !.target = id]
    /\ UNCHANGED <<units, sits, unreadable, result, talks, moves>>

\* open_device, open_device_with
OpenById(registry, id) ==
    /\ dac = NoDac
    /\ \E d \in FindById(registry, id) : Routes(registry, d) /\ dac' = Opens(d)
    /\ UNCHANGED <<units, sits, unreadable, result, talks, moves>>

\* BackendKind::connect reaches what is there now.
ConnectBackend ==
    /\ dac # NoDac /\ talks = NoUnit
    /\ \E u \in Reaches(dac.data) : talks' = u
    /\ UNCHANGED <<units, sits, unreadable, result, dac, moves>>

\* ReconnectTarget::open_device, once the backend is gone
Reopen(registry) ==
    /\ dac # NoDac /\ talks # NoUnit /\ talks \notin Present
    /\ \E d \in FindById(registry, dac.target) :
        /\ Routes(registry, d)
        /\ dac' = [Opens(d) EXCEPT !.first = dac.first, !.named = dac.named, !.target = dac.target]
    /\ talks' = NoUnit
    /\ UNCHANGED <<units, sits, unreadable, result, moves>>

\* units come, go and move; what was scanned before may be out of date.
Move(u, place) ==
    /\ moves < MaxMoves /\ sits[u] # place
    /\ place # 0 => \A v \in Present : v.prefix = u.prefix => sits[v] # place
    /\ sits' = [sits EXCEPT ![u] = place]
    /\ dac' = IF dac = NoDac THEN NoDac ELSE [dac EXCEPT !.fresh = FALSE]
    /\ moves' = moves + 1
    /\ UNCHANGED <<units, unreadable, result, talks>>

\* A Helios starts or stops answering for its name.
NameTurns(u) ==
    /\ u.prefix = "helios" /\ moves < MaxMoves
    /\ unreadable' = (unreadable \ {u}) \cup ({u} \ unreadable)
    /\ moves' = moves + 1
    /\ UNCHANGED <<units, sits, result, dac, talks>>

\* Identifiers an application may have stored, from any earlier time
KnownIds ==
    UNION {{ByMark(u), <<u.prefix, "host", u.host>>} : u \in units}
    \cup {<<u.prefix, "place", p>> : u \in units, p \in Places}
    \cup {<<u.prefix, "index", <<Slug(u), i>>>> : u \in units, i \in {0, 1}}

RegistryInit(active) ==
    /\ units \in IF active THEN Casts ELSE {{}}
    /\ sits \in IF active
              THEN {f \in [units -> Places \cup {0}] :
                        \A u, v \in units :
                            u # v /\ u.prefix = v.prefix /\ f[u] # 0 => f[u] # f[v]}
              ELSE {[u \in units |-> 0]}
    /\ unreadable = {}
    /\ result = NoDevice /\ dac = NoDac /\ talks = NoUnit
    /\ moves = 0

RegistryNext ==
    \/ \E r \in RegistryOrders :
        \/ Keep(r) \/ OpenKept(r) \/ Reopen(r)
        \/ \E id \in KnownIds : OpenById(r, id)
    \/ ConnectBackend
    \/ \E u \in units : NameTurns(u) \/ \E p \in Places \cup {0} : Move(u, p)

-------------------------------------------------------------------------------
(* Properties *)

\* The mark, when there is one, is this unit's alone; or what the identifier keeps of it is.
OwnMark(u) == u.mark # "" /\ \A v \in units : v # u => v.prefix # u.prefix \/ v.mark # u.mark
OwnSlug(u) == u.mark # "" /\ \A v \in units : v # u => v.prefix # u.prefix \/ Slug(v) # Slug(u)

\* However a unit was first found (by a current identifier, by a legacy one that named its
\* address or its host, or in a scan kept since), a reconnect finds that same unit again
\* wherever it has moved, if its hardware told who it is and no other's name makes the same
\* identifier; never the one now in its place.
SameUnitAgain ==
    dac # NoDac /\ dac.named[2] = "mark" /\ OwnSlug(dac.first) => dac.data.unit = dac.first

\* An identifier that names a unit which is there never resolves to another one by way of a
\* legacy identifier: a stable identifier is nobody else's legacy identifier.
NoShadowing ==
    \A u, v \in Present : u # v => StableId(u) \notin LegacyIds(v)

\* Connection data only ever reaches the discoverer that made it, also through a registry built
\* in another order, and a backend made from a fresh scan talks to the unit it is named for.
RightlyRouted ==
    dac # NoDac => /\ dac.data.prefix = dac.id[1]
                   /\ talks \in {NoUnit, dac.data.unit} \/ ~dac.fresh
                        \/ ~OwnMark(dac.data.unit)
                   /\ talks.prefix \in {"", dac.id[1]}

FoundAgain == SameUnitAgain /\ NoShadowing /\ RightlyRouted

-----------------------------------------------------------------------------
(***************************************************************************)
(* IDN discovery (protocols/idn/mod.rs ServerScanner, protocols/idn/       *)
(* discovery.rs): a window in which scan requests are broadcast a few      *)
(* times and answers recorded by unit, then one service map query per unit *)
(* found.  Datagrams are lost, duplicated, reordered and delayed past the  *)
(* wait they belong to; all answers come in on one socket and a service    *)
(* map does not say whose it is.                                           *)
(***************************************************************************)

CONSTANTS Fleets,        \* sets of receivers, one for a behaviour:
                         \*   [unit_id, hostname, addresses (a set), services (a sequence)]
          ScanBursts,    \* SCAN_BURSTS
          MapAttempts    \* SERVICEMAP_ATTEMPTS

VARIABLES
    fleet,
    phase,          \* "listen", "query", "recv" or "done"
    burst,          \* scan requests sent
    next_seq,       \* sequence of the next request
    flying,         \* answers on their way or waiting in the socket
    servers,        \* what was found, by unit: [addresses, services, hostname]
    addr_to_unit,   \* which unit an address answered for
    todo,           \* units whose service map is still to be asked for
    asked,          \* the unit asked now
    attempt,
    heard           \* history: the units one of whose scan answers was received in the window

scannerVars == <<fleet, phase, burst, next_seq, flying, servers, addr_to_unit, todo, asked, attempt,
                 heard>>

-------------------------------------------------------------------------------
Extended(f, x, v) == [y \in DOMAIN f \cup {x} |-> IF y = x THEN v ELSE f[y]]
Mem(s, x) == \E i \in DOMAIN s : s[i] = x
Nobody == ""

\* The receivers' answers to a broadcast, from every address it reaches (external)
ScanAnswers ==
    UNION {{[command |-> "scan", sequence |-> next_seq, source |-> a, unit_id |-> u.unit_id,
             hostname |-> u.hostname] : a \in u.addresses} : u \in fleet}

\* A service map names no unit; only the sequence ties it to its request (external).
MapAnswers(a) ==
    {[command |-> "map", sequence |-> next_seq, source |-> a, services |-> u.services] :
        u \in {v \in fleet : a \in v.addresses}}

\* send_broadcast_scan: the first burst opens the window, later ones are spread over it.
Broadcast ==
    /\ phase = "listen" /\ burst < ScanBursts
    /\ burst' = burst + 1
    /\ next_seq' = next_seq + 1
    /\ \E reach \in SUBSET ScanAnswers : flying' = flying \cup reach
    /\ UNCHANGED <<fleet, phase, servers, addr_to_unit, todo, asked, attempt, heard>>

\* record_server: an address counts for the unit it first answered for.
RecordServer(m) ==
    LET unit == IF m.source \in DOMAIN addr_to_unit THEN addr_to_unit[m.source] ELSE m.unit_id
        entry == IF unit \in DOMAIN servers THEN servers[unit]
                 ELSE [addresses |-> <<>>, services |-> <<>>, hostname |-> m.hostname]
    IN  /\ servers' = Extended(servers, unit,
                        IF Mem(entry.addresses, m.source) THEN entry
                        ELSE [entry EXCEPT !.addresses = Append(@, m.source)])
        /\ addr_to_unit' = Extended(addr_to_unit, m.source, unit)

\* A datagram is taken from the socket, and may have been sent twice.
Taking(m) ==
    /\ m \in flying
    /\ flying' \in {flying, flying \ {m}}

\* The polling loop of scan and scan_address; process_scan_response takes scan answers only.
HearScan(m) ==
    /\ phase = "listen" /\ burst > 0
    /\ Taking(m)
    /\ m.command = "scan"
    /\ RecordServer(m)
    /\ heard' = heard \cup {m.unit_id}
    /\ UNCHANGED <<fleet, phase, burst, next_seq, todo, asked, attempt>>

WindowCloses ==
    /\ phase = "listen" /\ burst > 0
    /\ phase' = "query"
    /\ todo' = DOMAIN servers
    /\ UNCHANGED <<fleet, burst, next_seq, flying, servers, addr_to_unit, asked, attempt, heard>>

-------------------------------------------------------------------------------
(* query_service_map *)

\* drain_unicast_socket clears what has arrived by now, then the request goes out.
SendQuery(unit, n) ==
    \E arrived \in SUBSET flying :
        /\ attempt' = n
        /\ asked' = unit
        /\ next_seq' = next_seq + 1
        /\ phase' = "recv"
        /\ LET a == servers[unit].addresses[1]
           IN  \E reply \in SUBSET MapAnswers(a) : flying' = (flying \ arrived) \cup reply

NextServer ==
    /\ phase = "query"
    /\ \E u \in todo : SendQuery(u, 1)
    /\ UNCHANGED <<fleet, burst, servers, addr_to_unit, todo, heard>>

\* A send error ends the query; the server is listed without services.
SendFails ==
    /\ phase = "query"
    /\ \E u \in todo : todo' = todo \ {u}
    /\ UNCHANGED <<fleet, phase, burst, next_seq, flying, servers, addr_to_unit, asked, attempt, heard>>

\* recv_service_map: the request went out under the sequence before next_seq.
Expected(m) == m.command = "map" /\ m.sequence = next_seq - 1

RecvMap(m) ==
    /\ phase = "recv"
    /\ Taking(m)
    /\ IF Expected(m)
       THEN /\ servers' = [servers EXCEPT ![asked].services = m.services]
            /\ phase' = "query" /\ asked' = Nobody
            /\ todo' = todo \ {asked}
       ELSE UNCHANGED <<servers, phase, asked, todo>>
    /\ UNCHANGED <<fleet, burst, next_seq, addr_to_unit, attempt, heard>>

MapTimeout ==
    /\ phase = "recv"
    /\ IF attempt < MapAttempts
       THEN SendQuery(asked, attempt + 1) /\ UNCHANGED todo
       ELSE /\ phase' = "query" /\ asked' = Nobody
            /\ todo' = todo \ {asked}
            /\ UNCHANGED <<next_seq, flying, attempt>>
    /\ UNCHANGED <<fleet, burst, servers, addr_to_unit, heard>>

ScanReturns ==
    /\ phase = "query" /\ todo = {}
    /\ phase' = "done"
    /\ UNCHANGED <<fleet, burst, next_seq, flying, servers, addr_to_unit, todo, asked, attempt, heard>>

\* servers_to_devices: one device per laser projector service
IsLaserProjector(s) == s.kind = "laser"
DevicesOf(unit) ==
    {[stable_id |-> <<unit, servers[unit].services[i].service_id>>, address |-> servers[unit].addresses[1],
      service |-> servers[unit].services[i]] :
        i \in {j \in DOMAIN servers[unit].services : IsLaserProjector(servers[unit].services[j])}}
Devices == UNION {DevicesOf(u) : u \in DOMAIN servers}

-------------------------------------------------------------------------------
ScannerInit(active) ==
    /\ fleet \in IF active THEN Fleets ELSE {{}}
    /\ phase = IF active THEN "listen" ELSE "done"
    /\ burst = 0 /\ next_seq = 0
    /\ flying = {}
    /\ servers = <<>> /\ addr_to_unit = <<>>
    /\ todo = {} /\ asked = Nobody /\ attempt = 0
    /\ heard = {}

ScannerOver == phase = "done"

ScannerNext ==
    \/ Broadcast \/ WindowCloses \/ NextServer \/ SendFails \/ MapTimeout \/ ScanReturns
    \/ \E m \in flying : HearScan(m) \/ RecvMap(m)

-------------------------------------------------------------------------------
(* Properties *)

\* Answers that come late, twice or out of turn never credit a unit with another's: every unit
\* heard in the window is listed once, under its own addresses only, with its own services or,
\* if its map never came, with none.
ServersTrue ==
    /\ DOMAIN servers = heard
    /\ \A id \in DOMAIN servers : \E u \in fleet :
        /\ u.unit_id = id
        /\ \A i, j \in DOMAIN servers[id].addresses :
            /\ servers[id].addresses[i] \in u.addresses
            /\ i # j => servers[id].addresses[i] # servers[id].addresses[j]
        /\ servers[id].services \in {<<>>, u.services}

\* The devices a finished scan reports have identifiers of their own, and each is reached at an
\* address of the unit that offers that very service.
DevicesTrue ==
    phase = "done" =>
        /\ \A d, e \in Devices : d.stable_id = e.stable_id => d = e
        /\ \A d \in Devices : \E u \in fleet :
            d.address \in u.addresses /\ Mem(u.services, d.service) /\ d.stable_id[1] = u.unit_id

ScanTrue == ServersTrue /\ DevicesTrue

-----------------------------------------------------------------------------
(***************************************************************************)
(* Discovery of LaserCubes and of Ether Dreams on the network              *)
(* (protocols/lasercube_network/discovery.rs, protocols/ether_dream/       *)
(* discovery.rs and mod.rs).                                               *)
(*                                                                         *)
(* A LaserCube scan broadcasts two requests, asks every cube that answers  *)
(* the liveness request for its full information, and takes at most        *)
(* MaxDevices answers, each after no more than one timeout of silence.  An *)
(* Ether Dream announces itself once a second; a scan listens until its    *)
(* deadline.  Datagrams get lost, doubled and reordered, other hosts' and  *)
(* malformed ones come in between, and a unit with two addresses answers   *)
(* from both.                                                              *)
(***************************************************************************)

CONSTANTS Lans,         \* sets of units, one for a behaviour: [kind, serial, addresses]
          MaxDevices,   \* next_device calls of a scan (10)
          MaxNoise      \* malformed datagrams, receive errors and repeated announcements

VARIABLES
    lan, lanScan,   \* "start", "listen" or "done"
    datagrams,      \* waiting in one of the sockets or on their way
    known,           \* seen_ips, or the MAC addresses seen
    found,          \* the devices reported, in order
    calls,          \* next_device calls that returned
    noise,
    taken           \* history: the datagrams received

lanVars == <<lan, lanScan, datagrams, known, found, calls, noise, taken>>

-------------------------------------------------------------------------------
IsCube(u) == u.kind = "cube"

\* What a datagram is filed under: a cube by its address, an Ether Dream by its MAC
Key(m) == IF IsCube(m.unit) THEN m.source ELSE m.unit.serial

Datagram(u, a, type) == [unit |-> u, source |-> a, type |-> type]

\* discover_dacs: both requests are broadcast on every socket; answers may come to either.
SendDiscoveryBroadcasts ==
    /\ lanScan = "start"
    /\ lanScan' = "listen"
    /\ \E answers \in SUBSET UNION {{Datagram(u, a, t) : a \in u.addresses,
                                        t \in IF IsCube(u) THEN {"alive", "info"} ELSE {}} : u \in lan} :
        datagrams' = answers
    /\ UNCHANGED <<lan, known, found, calls, noise, taken>>

\* An Ether Dream announces itself whoever listens (external).
Announce(u) ==
    /\ lanScan = "listen" /\ ~IsCube(u) /\ noise < MaxNoise
    /\ \E a \in u.addresses : datagrams' = datagrams \cup {Datagram(u, a, "info")}
    /\ noise' = noise + 1
    /\ UNCHANGED <<lan, lanScan, known, found, calls, taken>>

\* A unit, or another program on its host, sends something too short to be an answer (external).
SendShort(u) ==
    /\ lanScan = "listen" /\ noise < MaxNoise
    /\ \E a \in u.addresses : datagrams' = datagrams \cup {Datagram(u, a, "short")}
    /\ noise' = noise + 1
    /\ UNCHANGED <<lan, lanScan, known, found, calls, taken>>

Receiving(m) ==
    /\ lanScan = "listen" /\ calls < MaxDevices
    /\ m \in datagrams

\* is_alive_response: a cube not reported yet is asked for its full information.
HearAlive(m) ==
    /\ Receiving(m) /\ m.type = "alive"
    /\ datagrams' \in IF Key(m) \in known
                      THEN {datagrams \ {m}}
                      ELSE {datagrams \ {m}, (datagrams \ {m}) \cup {[m EXCEPT !.type = "info"]}}
    /\ UNCHANGED <<lan, lanScan, known, found, calls, noise, taken>>

\* next_device and the Ether Dream's loop: what was seen or does not parse is passed over, the
\* rest remembered and reported.  An answer may have been sent twice.
HearInfo(m) ==
    /\ Receiving(m) /\ m.type \in {"info", "short"}
    /\ datagrams' \in {datagrams, datagrams \ {m}}
    /\ taken' = taken \cup {m}
    /\ IF Key(m) \in known \/ m.type = "short"
       THEN UNCHANGED <<known, found, calls>>
       ELSE /\ known' = known \cup {Key(m)}
            /\ found' = Append(found, [key |-> Key(m), source |-> m.source, unit |-> m.unit])
            /\ calls' = IF IsCube(m.unit) THEN calls + 1 ELSE calls
    /\ UNCHANGED <<lan, lanScan, noise>>

\* An error of the main socket uses up one of a cube scan's calls, unless it is a reset.
RecvError ==
    /\ lanScan = "listen" /\ noise < MaxNoise /\ calls < MaxDevices
    /\ noise' = noise + 1
    /\ calls' \in {calls, calls + 1}
    /\ UNCHANGED <<lan, lanScan, datagrams, known, found, taken>>

\* A timeout of silence, the last call, or the deadline
LanScanEnds ==
    /\ lanScan = "listen"
    /\ lanScan' = "done"
    /\ UNCHANGED <<lan, datagrams, known, found, calls, noise, taken>>

\* stable_id_for: a serial that is blank or all zeros is nobody's.
StableSerial(u) == u.serial \notin {"", "000"}
CubeId(d) == IF StableSerial(d.unit) THEN <<"serial", d.unit.serial>> ELSE <<"ip", d.source>>

-------------------------------------------------------------------------------
LanInit(active) ==
    /\ lan \in IF active THEN Lans ELSE {{}}
    /\ lanScan = IF active THEN "start" ELSE "done"
    /\ datagrams = {} /\ known = {} /\ found = <<>> /\ calls = 0 /\ noise = 0 /\ taken = {}

LanOver == lanScan = "done"

LanNext ==
    \/ SendDiscoveryBroadcasts \/ RecvError \/ LanScanEnds
    \/ \E u \in lan : Announce(u) \/ SendShort(u)
    \/ \E m \in datagrams : HearAlive(m) \/ HearInfo(m)

-------------------------------------------------------------------------------
(* Properties *)

\* No address and no MAC is reported twice, and a unit is reported as soon as one good datagram
\* of its was received, whatever malformed one came before it.
FoundOnce ==
    /\ \A i, j \in DOMAIN found : found[i].key = found[j].key => i = j
    /\ \A m \in taken : m.type = "info" => \E i \in DOMAIN found : found[i].key = Key(m)
    /\ Len(found) <= MaxDevices \/ \A u \in lan : ~IsCube(u)

\* Two reported cubes share an identifier only if they are one cube at two addresses.
CubesApart ==
    \A i, j \in DOMAIN found :
        /\ i # j /\ IsCube(found[i].unit) /\ IsCube(found[j].unit)
        /\ CubeId(found[i]) = CubeId(found[j])
        => found[i].unit = found[j].unit

LanTrue == FoundOnce /\ CubesApart

===============================================================================
