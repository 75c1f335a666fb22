# Verification of laser-dac-rs

TLA+ specifications of laser-dac-rs: the session layer, the presentation engine,
every backend with its transport and its device, the wire formats, discovery, the
buffer estimators and the test harness. TLC checks them on small instances; TLAPS
proves the central results for every value of the constants. `PROJECT.json` lists
every run with its properties, a faulty variant of the code for each property, the
source lines behind every definition, the hazards and the findings.

Source paths below are relative to `src/src/` unless they start with `src/`.

## The system

A caller scans (`discovery.rs`), opens a device and starts a stream or a frame
session on it (`stream/mod.rs`, `presentation/session.rs`), and keeps a
`SessionControl` (`session.rs`). One driver thread per session runs `run_loop`
(`presentation/driver.rs`): it takes control messages, handles arm and disarm
transitions, asks the output-model adapter for one step, and reconnects when the
device is lost (`reconnect.rs`). The adapter paces, asks the content source for a
slice, and writes it to the backend. A backend speaks one protocol; some own a
thread of their own or share a driver of the operating system. What crosses from
one part to another is a word and a channel (control), a slice (content to adapter),
a write outcome (backend to adapter), datagrams and bytes (transport), and
capabilities (scan, connect and reconnect to session).

## Modules

### Session

| Module | Models |
|---|---|
| `SessionControl` | the state handles share with the driver; an edge of the desired-state word is one step, its notification another |
| `SessionControlCAS` | the load and compare-exchange loop of `set_desired_armed`; implements `SessionControl` |
| `SessionState` | the driver's state, the device behind the backend, the one-slice cache, closing the shutter |
| `OutputAdapters` | the four adapters: NetworkFifo, UdpTimed, UsbFrameSwap, BlockingFifo, with their waits and retries |
| `Reconnect` | `reconnect_backend_with_retry` and the driver's `reconnect` |
| `SessionDriver` | `run_loop`, `handle_shutter_transition`, the ends of a session; composes the above |
| `Lifecycle` | opening, validating, starting, running, losing and taking back a device: who owns the backend on every path |
| `PresentationEngine`, `ContentSources` | frames and seams; the colour delay line; `SlicePipeline` and `ChunkProducer` around them |

The driver thread is a program counter `pc`; a step ends where the code reads or
writes something another thread shares, or calls the device. A slice is a record of
what the lifecycle tells apart: parked, blank or lit, the word handled when it was
composed, the connection it was composed for. In the content modules a point is its
place in its frame or in its seam, so that "no jump" is a statement about neighbours.

### Backends

| Module | Models |
|---|---|
| `LaserCubeTransport` | send budget and wrapping numbers; handle, shared state, worker thread, UDP and device of the LaserCube network transport |
| `EtherDreamStream`, `EtherDreamBackend` | the firmware profiles of the simulator; commands and replies over TCP; the backend with its two-pass write and its estimate |
| `EtherDreamFraming` | every command and reply byte by byte; how both ends cut the stream of bytes, with cut, doubled, dropped and foreign frames |
| `IdnParser`, `IdnReceiver`, `IdnStream`, `IdnBackend` | the receiver of the crate; the sender's stream; the backend and its worker thread |
| `IdnWire` | channel messages and the request/answer pairs byte by byte, written by one end and read by the other |
| `IdnClock` | the timestamps of an IDN stream: anchor, accumulator, re-anchors |
| `AudioSink`, `AvbBackend`, `OscilloscopeBackend` | the resampler's positions and the ring; the one driver that threads share; both audio backends |
| `UsbEndpoints`, `HeliosBackend`, `LaserCubeUsb` | bulk endpoints whose answers come late or belong to an earlier request; both USB backends with the loop that drives them |
| `DeviceWire` | points as the LaserCubes and the Helios take them, to the last USB packet; the full-information datagram of a LaserCube, what is made of it (profile, capacities, threshold), the start-up commands and the handshake of `connect` |
| `WireFormat` | integers in bytes, fields of a structure, both byte orders; coordinates and colours in device units |

### Discovery, estimators, test harness

| Module | Models |
|---|---|
| `Discovery` | stable and legacy identifiers, `open_by_id`, `open_discovered`, the reconnect target, while units move; the IDN scan with its service-map queries; the LaserCube scan and the Ether Dream broadcasts |
| `BufferEstimators` | the three buffer estimators against a device that plays |
| `EtherDreamHarness` | the threads of the Ether Dream simulator (accept, serve, broadcast, shut down), and the interlock between a client and a real DAC in `src/examples/ether_dream_hwcheck.rs` |

`HostProofs`, `SessionDriverProofs`, `SessionFreshProofs`, `ContentProofs`,
`LaserCubeProofs`, `LaserCubeQueueProofs`, `EstimatorProofs` and `RateProofs` hold the
theorems. The `MC...` modules are the instances.

Devices, networks and the audio host are external: they are modelled from how the
code uses them and marked so in the map. The firmware profiles of the Ether Dream
and the IDN receiver are part of the crate and are modelled from its source.

Several modules take a set of records (`Setups`, `Scenarios`, `Plans`, `Links`, ...)
from which `Init` picks one: the adapter and policy of a session, the calls, sizes
and faults of a transport scenario, the script of a hardware check. One run so covers
every configuration without multiplying their environments. `MCHost` goes one step
further: its variable `part` picks one of fifteen parts, and the others stay idle.

## Runs

| Run | Question | Properties |
|---|---|---|
| `safety` | do the lifecycle invariants hold over all four adapters, with control calls at every step, failures and reconnects? | `SessionSound` types, rates the device takes, a session that returns leaves its device dark; `ShutterTruth` an enabled output is never believed closed; `FreshStart` the shutter opens only for a prepared arm, on nothing older, with a blank slice first; `RetainedIsCached`; `NoLostWake`; `TransitionsClean` the handled word moves only with the shutter shut, a blocked slice is written again verbatim |
| `live` | do arm, disarm and stop take effect? | `DisarmDarkens`, `StopReturns`, `ArmOpens` |
| `content` | what do frames, chunks, arms and reconnects in any order make of the points? | `ContentSound` clamping, the newest frame, what is repeated; `SeamContinuity` no jump; `DarkWhenDue`; `FrameChosen` |
| `lasercube` | purging, order, reservations, ACK filter, output state, shutdown | `QueueSound`, `OneLossTolerated`, `AcksSound`, `TransportSettles` |
| `ether_dream` | is the fullness bracketed, does every accepted chunk land, does the stream recover? | `StatusSound`, `WrittenLanded`, `StreamRecovers` |
| `idn` | does the link hold, is nothing misread, are dead receivers noticed and live ones not torn down? | `LinkSound`, `NeverMisread`, `ProbeTruth`, `LinkRecovers` |
| `audio` | one driver, several threads, hung calls, a ring with a concurrent consumer | `SharingSound`, `NothingStray`, `ReadsTrue`, `AudioRecovers` |
| `usb` | late answers, a status poll and answers that lag by no more than those, a backend's handle that must not be closed once its device is gone, outputs nobody owns | `UsbSound`, `UnownedDark`, `UsbRecovers` |
| `host` | the parts that need only themselves and a peer | see below |
| `wedge`, `cleared`, `asio_reconnect` | does the code do what its comments say? It does not: see Findings | `StopAlwaysReturns`, `EveryFrameChosen`, `Reconnects` |

The properties of `host`:

* `EdgesCounted`, `ImplementsControl`: racing compare-exchange loops count every edge
  once, and implement the one-step calls of `SessionControl`.
* `WireAgrees`: what one end writes the other reads as it was meant, or notices that
  it cannot; an `Ok` of `submit` means that this command was acknowledged; the points
  that reach a device are the ones that were drawn, within the rounding of its units,
  in transfers it can take; a cube is connected to only after a datagram that was
  understood, with commands it supports.
* `Owned`: on every path through open, start, run, loss, reconnect and stop a device
  within reach is lit only if somebody asked for it or until the close that follows, and
  one out of reach only if its close failed or it was lost while lit; a handle or a thread
  is left behind only by a Helios or an oscilloscope, and only of a lost link or of a `Dac`
  that was dropped with no session. A link that is lost may leave the device lit, and a
  connect may fail after it has lit the device.
* `FoundTrue`: what a scan reports is there, no unit is reported with the services or in
  place of another, an IDN unit is reported once however many addresses it has, and what
  is opened again is the unit that was asked for, as far as slugs tell names apart.
* `HarnessSound`: nothing but a ping, a clear or an e-stop of the client reaches a DAC
  that was stopped; the simulator's count is that of the connections served or being
  spawned, all are joined, and a close that ends the playback was the last one when it
  lowered the count. A playback that nobody ends was left by a spawn that failed.
* `EstimateExact`: the software estimate is less than a point off, however often it is
  rebased.
* `EstimatesSafe`: the status estimate is off by a point for each send since the last
  report. A sender that goes by the acknowledged one overruns the device only by what was
  under way when the acknowledgement that anchored the estimate was written. That is
  nothing while packets arrive in order, no two are sent at one `Instant`, and no number
  or reset comes back while packets are out. Packets and acknowledgements are lost,
  reordered and delayed, acknowledgements repeated, numbers used again.
* `StampsFollow`: an IDN chunk starts where the one before it ended, or at the clock after
  a long gap. Timestamps step back only in a stream that had run ahead of the clock by
  more than that gap, and between anchors they do not drift from the points sent. Chunks
  have any size at any time, short ones are padded, and sends fail.

A property that joins several statements names them one by one in its module, each
with its own comment.

### Bounds, and why they are enough

* Sessions: two handles, two arms and a disarm between them, one fault, one channel
  slot, one-slice rings, three ranges of rates: a second arm while the first is being
  prepared, a blocked write on a full ring, a reconnect to a device with another range.
  `OneQuestion` explores rates and arming in separate setups, which the driver treats
  independently, and lets both handles be in a call at once on one adapter only, up to a
  disarm; the proofs have neither restriction. `HandleSymmetry` permutes handles, which
  the model never tells apart.
* Content: frames of three, one and no points, chunks of up to two, delays of up to one,
  seams of up to two, a capacity of two: chunks end inside frames, seams and windows.
* LaserCube: sequence numbers wrap at 8 with an older ACK in flight, one loss while
  streaming or switching and two on a quiet link, a host queue of three points, polls and
  staleness in the proportions of the code. The proofs are for any of these numbers.
* Ether Dream: a ring of four points, ticks between any two steps, both known firmware
  profiles and one with every flag the other way, up to two incidents.
* IDN: ticks of 100 ms in the proportions of the code, chunks of one and two datagrams,
  three sockets (two hosts and a reconnect), two incidents per scenario; three misses
  in place of four and one connect retry in place of two.
* Audio: two streams, a ring of three points, rates of every order, one hang, one unplug.
* USB: two attempts per command, a limit of two status errors in place of fifty, a ring
  of one packet and writes of two, up to three late answers for the Helios and one for the
  cube; a hang and an unplugged cube in scenarios of their own. The lag of the answers is
  bounded by a count of the late ones, so that more of them would only repeat the case.
* Host: two handles and a channel of two messages, the proofs being for any number;
  eleven Ether Dream connections; every message type and format of IDN, names around
  the 20 bytes of a field, maps around the 62 entries of a datagram; three units of a
  family at two places, two names with one slug; a receiver with two addresses, and two
  receivers; two acknowledgement numbers with two letters under way, so that they are used
  again at once; IDN chunks below and above the padded length, a duration above its limit,
  gaps on both sides of the one that re-anchors; Helios frames of 44, 45, 46 and 109 points.

Deadlock is checked where nothing may stop (`content`, `idn`, `host`; in `host` a part
that has come to its end stays there by an explicit step). Elsewhere sessions return,
transports shut down and a blocking write can wedge the driver, which is what `wedge`
shows.

### Fairness

Every program thread goes on (weak fairness of its steps), a call that has recorded
its effect goes on to notify, waits end, and datagrams that are not lost arrive. A wait
or a blocked write that is offered again and again is eventually taken (strong
fairness), since each offer is a new deadline or a new try. Devices answer and play
what they hold while their output is on; the audio system reports a lost device; an
open interlock is closed again. Threads that wait for the shared audio host get it when
it is free again and again. Nothing is assumed of audio callbacks, hung calls, the user,
plugging, or losses, which are bounded in number and never excluded by fairness.
`host` assumes no fairness: its properties are safety.

## Findings

* **wedge**: a disarm is cleaned up, an arm lands before `presentation/driver.rs:249`
  reads the arm bit again, and the BlockingFifo adapter writes with the output disabled.
  On a full ring the write never returns and neither does `run()` after a stop
  (`presentation/output_model/blocking_fifo.rs:19`, `session.rs:258`). On the other
  adapters the same window lets the first slice of an arm out unprepared.
* **cleared**: after an empty frame, `fill_chunk` never looks at the pending frame
  again (`presentation/engine.rs:148`, `src/README.md:110`).
* **asio_reconnect**: on a host with one stream slot a stream that died still occupies
  it, so that reconnecting never succeeds (`protocols/avb/host.rs:130`).

## Proofs

All are for every value of the constants that satisfies the named assumptions of the
modules, and are checked to the last leaf. An invariant is seldom inductive: each proof
names the one that is, and TLC checked it before it was proved.

Sessions
* `HostProofs`: `EdgesAreCounted` (every change of the word is one counted edge and
  no word returns) and `CASRefinesControl` (initial states map to initial states, every
  step of the loops to a step or a stutter of the one-step calls). The invariant adds to
  the types that a call stands at its compare-exchange only for an edge it wants: without
  it an exchange could be a step that no call makes.
* `SessionDriverProofs`: `SessionTypes` (types, and that a retained slice is the cached
  one) and `ShutterSafety` (the driver never takes an enabled output for a closed one).
  Types are split into the parts each group of actions touches. `ShutterTruth` is not
  inductive alone: a reconnect replaces the device, so the invariant adds what holds of
  the candidate between its close command and its acceptance, and at which labels the
  shutter was just commanded closed.
* `SessionFreshProofs`, on top of it: `SessionSafety` (`SessionSound`), `WakeSafety`
  (`NoLostWake`), `FreshSafety` (`FreshStart`) and the action property
  `CleanTransitions` (`TransitionsClean`), for every set of handles, every adapter and
  any number of calls and failures. `RateInv` adds the copy of the rate a pass goes by,
  at the labels where it is in use; `WakeInv` that a driver on its way to a wait, with a
  word it has not handled, has a notification due; `FreshInv` what the handled word, an
  opening shutter, the cached slice and the blank slices owed say about one another.
* `HostProofs`: `BackendOwned` (`Owned`), for any devices, rates, losses and starts.
  `LifeInv` adds what was asked of the device and of the start when each owner holds the
  backend, that a session is started only on a backend that has been linked, so that a
  device to be connected but once is not lit again, what may be lit out of reach, and where
  the reconnect target and the gauge are. The assumption is that what lights at its connect
  can be connected but once (`KitAssumption`), as the LaserCube USB.

LaserCube USB
* `HostProofs`: `CubeDark` (`UnownedDark`), for any device, lengths of the calls and of the
  ring, and any faults. `OffInv` looks at the requests the device has not handled: once the
  stream is gone, or has asked for `off` on its way, the last of them that switches the
  output switches it off, or it is off and none does, unless the device did not take or
  refused that command.

Content, for any frames (empty ones included), seams, delays, startup windows, capacities
and chunk lengths, and any order of submissions, arms, disarms, losses and reconnects
* `ContentProofs`: `ColorsDark` (`DarkWhenDue`, an action property). A colour leaves the
  delay line calls after it was composed, so `DarkInv` says what is inside: a line that
  nothing lit was composed into is dark, and what an arm still owes is dark in the line as
  far as the present delay lets it out, or comes from the startup window.
* `ContentProofs`: `BeamContinuous` (`SeamContinuity`). `PathInv` says where the path goes
  on: from the last point drawn through what is left of the seam to the cursor. It needs
  that a drawable that is not stale is the current frame, and that a seam begun before a
  frame was submitted still leads to the frame that comes next.
* `ContentProofs`: `ContentSafety` (`ContentSound`). `SwapInv`: a composed hardware frame,
  fresh or shown again, is the end of a seam and a whole frame, or a frame cut to the
  capacity without a seam. `NewestInv`: the frame submitted last is pending or current, and
  nothing is pending before something is current. `RepeatInv`: a chunk, and what would be
  repeated, holds only what was written to this device or is new.

LaserCube network transport
* `LaserCubeProofs`: `LinkSafety` (`OneLossTolerated`). `LinkInv` bounds the silence of
  the device by the polls that are due, at every point of a pass and for every number of
  questions and answers under way. `StaleAfter > 2 * PollActive`, which the constants of
  the code satisfy, is what makes one loss harmless.
* `LaserCubeQueueProofs`: `QueueSafety` (`QueueSound`). `TypeInv` has the types, with
  channels, queue and packets of any length. `QueueInv` adds `GenInv`: a command to open
  the output starts no generation, and the last command posted brings the worker to the
  generation of the handle. Without it a purge could let an older chunk pass.
* `LaserCubeQueueProofs`: `AckSafety` (`AcksSound`), an action property. `AckInv` relates
  the 8-bit numbers to the unbounded count of packets they abbreviate: what is under way
  is at most `MaxDelay` packets old, at most `losses` packets between the last one
  acknowledged and the newest are neither under way nor acknowledged, so the difference
  of two numbers that meet is below half the modulus, and `seq_newer` orders them as they
  were sent. `MaxDelay + losses < SeqMod / 2` is an assumption about the network,
  which the 8-bit numbers need and the code does not enforce.

Rates
* `RateProofs`: `ResamplerSafety`, every output reads two inputs that are held and
  enclose its position, and a change of rates does not snap the position. The invariant
  relates what was pruned to the smallest position that can still be asked for; the
  lemmas are monotonicity facts about integer division.
* `RateProofs`: `StampsAlwaysFollow` (`StampsFollow`). `ClockInv` adds that, unless the
  next chunk is anchored to the clock anyway, the accumulator stands at the end of the last
  chunk and its anchors have cost no more than a unit each; a send that fails moves the
  anchor but not that end. Nothing is assumed of how far a stream runs ahead.
* `EstimatorProofs`: `DecayNeverDrifts` (`EstimateExact`), the estimate stays less than one
  point from the truth. The invariant compares the time left by the books (points at the
  anchor, less the time since) with the time the device still needs: never more, and less
  than a point behind while it plays. `EstimateExact` says nothing of the residue that makes
  the next estimate exact, so it is not inductive.
* `EstimatorProofs`: `EstimatorsSafe` (`EstimatesSafe`), for the other two estimators.
  `StatusInv` compares the time left by the books with what the device needs, from above and
  below, with one point of slack for each send since the last report. `AckedInv` follows
  every packet and acknowledgement under way. What the device will hold is in a report or
  was left out of it (`ReplyOK`); the packets from each one to the newest, and all of them
  with what the device holds, add up to no more than the sent track says and what it has not
  seen (`SumInv`); and while nothing has been out of order, only the newest packet can be of
  the newest message, so that nothing is unseen (`OrderInv`). The assumption is
  `MaxDelay <= LATENCY_POINT_ADJUSTMENT`, which is what the adjustment is for; numbers may be
  as few as one.

Sums. What waits in a channel and what is in flight are sums over sequences and
functions of any size (`SumFunction`). The induction theorems of the library take a
predicate, which the provers cannot instantiate; `LaserCubeProofs` takes the set of the
numbers with the property instead and the least element of its complement (`NatLeast`,
`SetInduction`), and proves from it that a sum exists, and what it becomes when an
element is added at one end or taken from the other.

Model-checked only:
* liveness (`live`, `FrameChosen`, and the settling and recovery properties of the
  transports), which is beyond the prover, as is ENABLED;
* the byte layouts (`WireAgrees`): they compute with folds over sequences, for which each
  fold would need an induction of its own;
* the invariants of the Ether Dream, IDN and audio backends, of the USB backends but for
  `UnownedDark`, of discovery and of the test harness: no proof was attempted.

## Observations

Behaviours met while modelling for which there is no run of their own. They are
in the models where they can be, and the properties are stated around them.

Sessions
* A notification during a blocked NetworkFifo write makes the adapter compose a new
  chunk in place of the blocked one, where `src/README.md:112` says that composed output
  is retried verbatim; `VerbatimRetry` is stated for the other three adapters.
* `FrameSession::run_loop` connects without closing the shutter first, and drops the
  backend on an error without teardown; this matters for a backend that lights on
  connect and can be reconnected. The target buffer is not updated by a reconnect, and
  an explicit request for the default of 20 ms cannot be told from no request.
* What is dropped without `disconnect` is not always released: `HeliosBackend::drop` leaks
  an open handle (`protocols/helios/backend.rs:352`) and `OscilloscopeBackend` has no `Drop`,
  so a dropped `Dac` that was connected keeps its audio thread. A lost oscilloscope keeps it
  too: `end_session` leaves a backend alone that is not connected, and a reconnect or
  `connect` puts a new one in its place (`protocols/oscilloscope/backend.rs:420`).
* `IdnBackend::connect` is content with a runtime that is dead
  (`protocols/idn/backend.rs:301`); the session starts and loses its device at once.
* The adapters disconnect a device that does not take what is written without closing its
  shutter; of the backends only some put the light out when they disconnect.

Ether Dream
* Without a broadcast `connect_to` assumes 100 000 points/s; an advertised maximum of 0
  disables the rate check. A device that refuses an over-maximum rate after one byte
  reads the rest of the command as commands; `UnsafeRate` keeps such rates off the wire.
* Commands of a link that was dropped on a timeout can still be executed after its
  successor has read its first status: the bounds on the fullness exclude that time.
* In the simulator a connection thread lowers the count of connections and only then
  ends the playback (`protocols/ether_dream/sim/server.rs:291`). The test at
  `protocols/ether_dream/backend.rs:1042` waits for a count of zero and asserts an idle
  playback at once, and a client accepted in between loses the playback it starts. The
  count is raised before a thread is spawned and lowered again if that fails
  (`server.rs:283`, `309`): the last connection, if it leaves in between, sees another one
  and does not end the playback, and nobody else does.
* In the hardware check, the stop commands that `refuse` sends bypass the e-stop gate;
  the number of a greeting is taken after the DAC sampled it; a command queued between
  the reader's drain and its exit is never settled.

IDN
* A re-anchor sets the timestamps to the wall clock even if the stream is ahead of it, and
  then they run backwards. Below 2000 points/s the padding of short chunks to 20 samples
  (`protocols/idn/dac/stream.rs:734`) takes a stream ahead without bound, and a chunk
  retained over a drop of the rate plays longer than it was paced for. A missed
  acknowledgement can make a gap long enough to re-anchor while chunks are still to be
  played, and a shorter stall leaves the stream behind the clock for good.
* The acknowledgement structure of the receiver is 12 bytes with a 32-bit latency, the
  sender reads 10 bytes with 16 bits (`receiver/packet_builder.rs:120`,
  `protocols/idn/protocol.rs:531`); no property compares those fields. A service map of more than 62 entries does not fit
  the scanner's buffer.
* The service-data match is one bit and sequel fragments carry none: two lost
  configurations across two changes of format can be misread.

LaserCube
* A cube that reports a buffer of 0 gets a profile with total and cutoff 0 from the scan
  and a total of 6000 from `SharedTransportState::new`. The handshake accepts any
  datagram that starts with the command byte, a refusal too.
* Old packets still go out until the worker takes a disarm; a purge zeroes the host's
  queue length while newer chunks are in the channel.
* USB: a chunk that failed part-way is sent again whole; a `set_rate` that fails after
  the device applied it leaves the cached rate stale.

Helios
* After one status read times out the polls stay one answer behind until something
  unexpected makes them drain. A fatal-class error on a device that is still there leaks
  a handle that claims the interface, and no reconnect of the process gets past it.
* The handles of `read_name` and of an `open` that fails are closed also if the device has
  gone, which `protocols/helios/native.rs:409` calls safe because the device is present
  during a scan; a backend's own handle is then leaked, and `NeverClosedDead` is about that.

Audio
* A chunk that is longer after resampling than the ring is refused for ever.

Discovery and estimators
* Backends connect to an address without asking who answers there. Identically named
  Helios and oscilloscope devices share an identifier, and so do names with one slug
  (`discovery.rs:316`): a reconnect may open the other. AVB identifiers are positions. A
  LaserCube with two addresses is reported twice
  (`protocols/lasercube_network/discovery.rs:372` tells cubes apart by address).
* `StatusDecayEstimator::record_send` says it rebases like `SoftwareDecayEstimator`
  (`buffer_estimate/status_decay.rs:48`) but moves its anchor to now and counts what is left
  of a point again: it is high by up to a point for each send until the next report. The software estimate is exact
  at one rate; a change of rate costs up to a ratio of the rates.
* `DualTrackAckEstimator` "prevents buffer overruns when ACKs are delayed or lost"
  (`buffer_estimate/dual_track_ack.rs:3`), but `send_time >= t` (`133`) lets the report on
  an older packet anchor the estimate if it shares its `Instant` with the newest one, has
  been overtaken by it, or if its number was used again: what was then under way is not
  counted. No backend uses the estimator yet.

## Not modelled

* Formatting, logging, metrics, diagnostics, benchmark support, error texts.
* Output filters (an identity), the callback plumbing of `stream/mod.rs`, the values of
  resampled audio and of the mute ramp, the eased path of the default transition.
* Enumerating network interfaces, USB descriptors, audio formats and channel choice;
  access errors of USB; COM apartments.
* The wrap of the 32-bit IDN timestamp, several channels of
  one source at the receiver, its simulated latency, descriptors the crate never sends.
* Helios frames above 4095 points, AVB scans of more than one unit, duplicated data packets
  in the estimators. NaN coordinates; a rate of zero in the estimators; `runtime_authority.rs`.
* The scenarios and reports of `ether_dream_hwcheck.rs`, capture and replay, the other
  examples, and the two simulator applications under `src/tools`: user interface around
  the receiver and the simulator that are modelled.
* Liveness of the parts of `host`, whose loops end by timeouts of their own.
