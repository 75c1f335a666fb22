-------------------------- MODULE LaserCubeTransport --------------------------
(***************************************************************************)
(* The LaserCube network transport (protocols/lasercube_network/transport):*)
(* its arithmetic, then its threads, the network and the device.           *)
(***************************************************************************)
EXTENDS Integers, FiniteSets, Sequences, Functions

-----------------------------------------------------------------------------
(***************************************************************************)
(* The arithmetic of the LaserCube network transport: the send budget      *)
(* (pacing.rs), the comparison of packet sequence numbers and the buffer   *)
(* estimate it corrects (transport/worker.rs, transport/state.rs).         *)
(* Machine integers are unsigned: a subtraction saturates at zero.         *)
(***************************************************************************)

CONSTANTS
    BufferTotal,  \* what the device ring holds, in points
    Cutoff,       \* profile.remote_buffer_cutoff: how far the host fills it
    FullPacket,   \* profile.max_udp_samples_per_packet
    SeqMod        \* packet sequence numbers wrap here (2^8 in the code)

ASSUME PacingAssumption ==
    /\ BufferTotal \in Nat /\ Cutoff \in Nat /\ FullPacket \in Nat \ {0}
    /\ FullPacket <= Cutoff /\ Cutoff <= BufferTotal
    /\ SeqMod \in Nat /\ SeqMod > 2 /\ SeqMod % 2 = 0

Least(a, b) == IF a <= b THEN a ELSE b
SaturatingSub(a, b) == IF b <= a THEN a - b ELSE 0

\* send_budget: how many points may go out before the device holds Cutoff.
SendBudget(queue_len, free_estimate) ==
    LET device_buffered == SaturatingSub(BufferTotal, free_estimate)
        remote_budget == SaturatingSub(Cutoff, device_buffered)
    IN  Least(Least(queue_len, remote_budget), FullPacket)

\* should_continue_topup
ShouldContinueTopup(free_before, sent) ==
    SaturatingSub(BufferTotal, free_before) + sent < Cutoff

\* Faulty variant: the numbers are compared as if they never wrapped.
SeqNewerNoWrap(last, candidate) == candidate > last

\* seq_newer: (candidate - last) as a signed byte is positive.
SeqNewer(last, candidate) ==
    LET d == (candidate - last + SeqMod) % SeqMod
    IN  0 < d /\ d < SeqMod \div 2

\* The slots strictly between two sequence numbers, going up and wrapping.
SlotsBetween(first, last) ==
    LET span == (last - first + SeqMod) % SeqMod
    IN  {(first + k) % SeqMod : k \in 0..(span - 1)}

\* decayed_free: the device is assumed to have played for that long.
DecayedFree(free_estimate, played) == Least(free_estimate + played, BufferTotal)

-----------------------------------------------------------------------------
(***************************************************************************)
(* The LaserCube network transport: the handle that the driver thread      *)
(* calls (transport/handle.rs), the state both sides share under a mutex   *)
(* (transport/state.rs) and the worker thread with its two UDP sockets     *)
(* (transport/worker.rs).  The device and the network are external.        *)
(*                                                                         *)
(* A point is [gen, n]: the generation its chunk was enqueued under and    *)
(* its number since the last purge, modulo NameMod, as the worker took     *)
(* points over.                                                            *)
(* One unit of time is one sleep of the worker; a pass before it takes no  *)
(* time, and the worker reads the clock once per pass, as in run().        *)
(***************************************************************************)

CONSTANTS
    Scenarios,      \* what the surroundings do in a run: records of Scenario
    HostCapacity,   \* host_queue_capacity
    TxCapacity,     \* POINT_QUEUE_CAPACITY, in chunks
    DrainLimit,     \* MAX_CONTROL_DRAIN_PER_LOOP
    PlayRate,       \* points the device plays in one unit of time
    PollActive,     \* FULL_INFO_POLL_ACTIVE
    PollInactive,   \* FULL_INFO_POLL_INACTIVE
    StaleAfter,     \* COMMS_STALE_TIMEOUT
    NameMod,        \* point numbers wrap here
    MaxGen,         \* bound: disarms, stops and shutdowns
    MaxPriority,    \* bound: priority commands queued
    MaxDelay        \* bound: how many later packets may overtake a packet or its ACK

\* calls     what the driver thread calls
\* sizes     the lengths of the chunks it writes
\* sends     bound: no chunk is written after that many packets
\* losses    bound: datagrams lost, duplicated or refused by a socket
\* packets   the data socket is connected to the device (otherwise no ACK comes)
\* commands  the command socket is (otherwise the run is shorter than a poll)
Scenario ==
    [calls : SUBSET {"write", "output", "stop", "shutdown"},
     sizes : SUBSET (Nat \ {0}), sends : Nat, losses : Nat,
     packets : BOOLEAN, commands : BOOLEAN]

ASSUME TransportAssumption ==
    /\ Scenarios # {} /\ Scenarios \subseteq Scenario
    /\ HostCapacity \in Nat /\ TxCapacity \in Nat /\ PlayRate \in Nat
    /\ DrainLimit \in Nat \ {0}
    /\ PollInactive \in Nat \ {0} /\ PollActive \in Nat /\ PollInactive <= PollActive
    /\ StaleAfter \in Nat /\ StaleAfter > 2 * PollActive
    /\ NameMod \in Nat \ {0}
    /\ MaxGen \in Nat /\ MaxPriority \in Nat /\ MaxDelay \in Nat \ {0}
    /\ \A s \in Scenarios : s.packets => MaxDelay + s.losses < SeqMod \div 2

VARIABLES
    scenario,
    \* the handle
    generation,   \* the AtomicU64 shared with the worker
    tx,           \* chunks in the bounded channel: [gen, len]
    priority_tx,  \* priority commands: [kind, gen]
    reserved,     \* points reserved by an enqueue() that has not sent yet
    joining,      \* shutdown() waits for the worker
    requested,    \* the output the driver asked for last
    \* TransportState
    host_queue_len,
    free_estimate,
    estimate_age, \* time since last_estimate
    last_seq,     \* last_data_ack_sequence, NoSeq for None
    comms_age,    \* time since last_comms
    connected,
    \* the worker
    pc,
    drained,      \* messages taken by the current drain
    queue,
    active_generation,
    counts,       \* packet_sample_counts
    output_enabled,
    send_due,     \* now >= next_send_due
    poll_due,     \* time until next_full_info_due
    \* network and device
    out_net,      \* copies of set_output(b) in flight
    data_net,     \* sample packets in flight: [num, len]
    acks,         \* buffer ACKs in flight: [num, seq, free], num NoSeq for a command ACK
    info,         \* the full-info exchange: [stage, on, free]
    responded,    \* responses to set_output in flight
    device_on,
    fill,         \* points in the device ring
    \* history
    num,          \* packets sent; its sequence number is num % SeqMod
    acked,        \* number of the packet whose ACK was applied last, or NoSeq
    arrived,      \* number of the point taken over last
    sent,         \* number of the point that left the queue last
    losses,       \* datagrams lost so far
    lost_streak   \* of those, command datagrams since the device was last heard

handleVars == <<generation, tx, priority_tx, reserved, joining, requested>>
estimateVars == <<free_estimate, estimate_age, last_seq>>
sharedVars == <<host_queue_len, comms_age, connected>>
workerVars == <<pc, drained, queue, active_generation, counts, output_enabled, send_due, poll_due>>
netVars == <<out_net, data_net, acks, info, responded>>
deviceVars == <<device_on, fill>>
histVars == <<num, acked, arrived, sent, losses, lost_streak>>
vars == <<scenario, handleVars, estimateVars, sharedVars, workerVars, netVars,
          deviceVars, histVars>>

NoSeq == -1
Point == [gen : Nat, n : 0..(NameMod - 1)]
Priority == [kind : {"on", "off", "stop", "shutdown"}, gen : Nat]
Info(stage, on, free) == [stage |-> stage, on |-> on, free |-> free]
NoInfo == Info("none", FALSE, 0)
Asked == Info("asked", FALSE, 0)
Slots == 0..(SeqMod - 1)
Can(c) == c \in scenario.calls

Lose(n) == losses + n <= scenario.losses /\ losses' = losses + n

-------------------------------------------------------------------------------
(* The handle, called by the driver thread. *)

\* is_usable
IsUsable == connected /\ comms_age <= StaleAfter

\* reserve_host_points, the first half of enqueue(). Without room the write
\* returns WouldBlock and changes nothing.
Reserve(len) ==
    /\ Can("write") /\ reserved = 0 /\ ~joining /\ IsUsable
    /\ num < scenario.sends
    /\ host_queue_len + len <= HostCapacity
    /\ host_queue_len' = host_queue_len + len
    /\ reserved' = len
    /\ UNCHANGED <<scenario, generation, tx, priority_tx, joining, requested, estimateVars, comms_age,
                   connected, workerVars, netVars, deviceVars, histVars>>

\* The rest of enqueue(): a full channel, or a worker that is gone, gives the
\* points back to the caller and the reservation is dropped.
Enqueue ==
    /\ reserved > 0
    /\ reserved' = 0
    /\ IF Len(tx) < TxCapacity /\ pc # "exited"
       THEN /\ tx' = Append(tx, [gen |-> generation, len |-> reserved])
            /\ UNCHANGED host_queue_len
       ELSE /\ host_queue_len' = SaturatingSub(host_queue_len, reserved)
            /\ UNCHANGED tx
    /\ UNCHANGED <<scenario, generation, priority_tx, joining, requested, estimateVars, comms_age,
                   connected, workerVars, netVars, deviceVars, histVars>>

\* set_output(true) keeps the generation, everything else starts a new one. The
\* driver opens only what it does not know to be open.
SendPriority(kind) ==
    /\ reserved = 0 /\ ~joining
    /\ Len(priority_tx) < MaxPriority
    /\ IF kind = "on" THEN ~requested ELSE generation < MaxGen
    /\ requested' = (kind = "on")
    /\ generation' = IF kind = "on" THEN generation ELSE generation + 1
    /\ priority_tx' = IF pc = "exited" THEN priority_tx
                      ELSE Append(priority_tx, [kind |-> kind, gen |-> generation'])
    /\ UNCHANGED <<scenario, tx, reserved, estimateVars, sharedVars, workerVars, netVars,
                   deviceVars, histVars>>

SetOutput(enabled) ==
    Can("output") /\ SendPriority(IF enabled THEN "on" ELSE "off") /\ UNCHANGED joining

StopOutput == Can("stop") /\ SendPriority("stop") /\ UNCHANGED joining

\* shutdown() posts the command and then joins the worker.
Shutdown == Can("shutdown") /\ SendPriority("shutdown") /\ joining' = TRUE

HandleStep ==
    \/ \E len \in scenario.sizes : Reserve(len)
    \/ Enqueue
    \/ \E enabled \in BOOLEAN : SetOutput(enabled)
    \/ StopOutput
    \/ Shutdown

-------------------------------------------------------------------------------
(* The worker thread. *)

Goto(l) == pc' = l

\* clear_pending_points
ClearPendingPoints ==
    /\ queue' = <<>>
    /\ host_queue_len' = 0
    /\ sent' = 0 /\ arrived' = 0

\* send_repeated(set_output(on)): both copies are on their way.
SendOutput(on) ==
    out_net' = IF scenario.commands THEN [out_net EXCEPT ![on] = 2] ELSE out_net

PollPeriod(on) == IF on THEN PollActive ELSE PollInactive

AfterPriority(kind) == IF kind = "shutdown" THEN "exit" ELSE pc

\* process_priority_commands, one command. The loop calls it before and after
\* process_commands and between the slices of its sleep.
ProcessPriority ==
    /\ pc \in {"prio", "prio2", "sleep"}
    /\ priority_tx # <<>> /\ drained < DrainLimit
    /\ drained' = IF pc = "sleep" THEN 0 ELSE drained + 1
    /\ LET cmd == Head(priority_tx)
           on == cmd.kind = "on"
       IN  /\ active_generation' = cmd.gen
           /\ IF on THEN UNCHANGED <<queue, host_queue_len, sent, arrived>> ELSE ClearPendingPoints
           /\ output_enabled' = on
           /\ poll_due' = IF cmd.kind \in {"on", "off"} THEN PollPeriod(on) ELSE poll_due
           /\ SendOutput(on)
           /\ Goto(AfterPriority(cmd.kind))
    /\ priority_tx' = Tail(priority_tx)
    /\ UNCHANGED <<scenario, generation, tx, reserved, joining, requested, estimateVars, comms_age,
                   connected, counts, send_due, data_net, acks, info, responded, deviceVars,
                   num, acked, losses, lost_streak>>

PriorityDrained ==
    /\ pc \in {"prio", "prio2"}
    /\ priority_tx = <<>> \/ drained = DrainLimit
    /\ drained' = 0
    /\ Goto(IF pc = "prio" THEN "cmds" ELSE "acks")
    /\ UNCHANGED <<scenario, handleVars, estimateVars, sharedVars, queue, active_generation,
                   counts, output_enabled, send_due, poll_due, netVars, deviceVars, histVars>>

\* The points of a chunk as the worker takes them over.
Numbered(chunk) ==
    [i \in 1..chunk.len |-> [gen |-> chunk.gen, n |-> (arrived + i) % NameMod]]

\* Faulty variant: a chunk is taken over whatever its generation.
TakesAny(chunk) == TRUE

\* A chunk is taken over only if no disarm came after it, told or not yet told.
TakesOver(chunk) == chunk.gen = active_generation /\ chunk.gen = generation

\* process_commands, one chunk. A chunk that is not taken over is dropped with
\* its reservation.
ProcessCommand ==
    /\ pc = "cmds"
    /\ tx # <<>> /\ drained < DrainLimit
    /\ drained' = drained + 1
    /\ LET chunk == Head(tx)
       IN  IF TakesOver(chunk)
           THEN /\ queue' = queue \o Numbered(chunk)
                /\ arrived' = (arrived + chunk.len) % NameMod
                /\ UNCHANGED host_queue_len
           ELSE /\ host_queue_len' = SaturatingSub(host_queue_len, chunk.len)
                /\ UNCHANGED <<queue, arrived>>
    /\ tx' = Tail(tx)
    /\ UNCHANGED <<scenario, generation, priority_tx, reserved, joining, requested, estimateVars,
                   comms_age, connected, pc, active_generation, counts, output_enabled,
                   send_due, poll_due, netVars, deviceVars, num, acked, sent, losses,
                   lost_streak>>

CommandsDrained ==
    /\ pc = "cmds"
    /\ tx = <<>> \/ drained = DrainLimit
    /\ drained' = 0
    /\ Goto("prio2")
    /\ UNCHANGED <<scenario, handleVars, estimateVars, sharedVars, queue, active_generation,
                   counts, output_enabled, send_due, poll_due, netVars, deviceVars, histVars>>

-------------------------------------------------------------------------------
(* drain_acks: the answers of the device. *)

Heard == comms_age' = 0 /\ lost_streak' = 0

InFlight(c) == SumFunction(c)

\* The estimate after an ACK: what the device reported, less what it had not
\* received when it did.
Estimate(free, c) ==
    /\ free_estimate' = Least(SaturatingSub(free, InFlight(c)), BufferTotal)
    /\ estimate_age' = 0

\* The slots an applied data ACK releases: those of the packets sent before it.
Released(seq) ==
    {seq} \cup SlotsBetween(IF last_seq = NoSeq THEN 0 ELSE (last_seq + 1) % SeqMod, seq)

\* An ACK that is taken from the socket; a duplicate stays in the network.
Take(a) ==
    \/ acks' = acks \ {a} /\ UNCHANGED losses
    \/ Lose(1) /\ UNCHANGED acks

\* apply_data_ack
ApplyDataAck(a) ==
    /\ pc = "acks" /\ a \in acks /\ a.num # NoSeq
    /\ Take(a)
    /\ IF last_seq = NoSeq \/ SeqNewer(last_seq, a.seq)
       THEN LET c == [s \in Slots |-> IF s \in Released(a.seq) THEN 0 ELSE counts[s]]
            IN  /\ counts' = c
                /\ Estimate(a.free, c)
                /\ last_seq' = a.seq
                /\ acked' = a.num
       ELSE /\ counts' = [counts EXCEPT ![a.seq] = 0]
            /\ UNCHANGED <<estimateVars, acked>>
    /\ Heard
    /\ UNCHANGED <<scenario, handleVars, host_queue_len, connected, pc, queue,
                   drained, active_generation, output_enabled, send_due, poll_due, out_net, data_net,
                   info, responded, deviceVars, num, arrived, sent>>

\* apply_command_ack
ApplyCommandAck(a) ==
    /\ pc = "acks" /\ a \in acks /\ a.num = NoSeq
    /\ Take(a)
    /\ Estimate(a.free, counts)
    /\ Heard
    /\ UNCHANGED <<scenario, handleVars, host_queue_len, connected, last_seq, workerVars,
                   out_net, data_net, info, responded, deviceVars, num, acked, arrived, sent>>

\* Faulty variant: only a lost enable is repaired.
ReconcileOnOnly(reported) ==
    IF output_enabled /\ ~reported THEN SendOutput(TRUE) ELSE UNCHANGED out_net

\* reconcile_output_enable
ReconcileOutputEnable(reported) ==
    IF reported = output_enabled THEN UNCHANGED out_net ELSE SendOutput(output_enabled)

\* Faulty variant: a full-info reply does not count as a sign of life.
ApplyStatusUnheard ==
    /\ pc = "acks" /\ info.stage = "reply"
    /\ free_estimate' = Least(info.free, BufferTotal)
    /\ estimate_age' = 0
    /\ ReconcileOutputEnable(info.on)
    /\ info' = NoInfo
    /\ UNCHANGED <<scenario, handleVars, sharedVars, last_seq, workerVars, data_net, acks,
                   responded, deviceVars, histVars>>

\* A full-info reply: apply_status, then the output state is reconciled.
ApplyStatus ==
    /\ pc = "acks" /\ info.stage = "reply"
    /\ free_estimate' = Least(info.free, BufferTotal)
    /\ estimate_age' = 0
    /\ ReconcileOutputEnable(info.on)
    /\ info' = NoInfo
    /\ Heard
    /\ UNCHANGED <<scenario, handleVars, host_queue_len, connected, last_seq, workerVars,
                   data_net, acks, responded, deviceVars, num, acked, arrived, sent, losses>>

\* record_command_response
RecordCommandResponse ==
    /\ pc = "acks" /\ responded > 0
    /\ responded' = responded - 1
    /\ Heard
    /\ UNCHANGED <<scenario, handleVars, estimateVars, host_queue_len, connected, workerVars,
                   out_net, data_net, acks, info, deviceVars, num, acked, arrived, sent,
                   losses>>

-------------------------------------------------------------------------------
(* The rest of a pass. *)

\* decay_free_estimate
DecayFreeEstimate ==
    /\ free_estimate' = DecayedFree(free_estimate, estimate_age * PlayRate)
    /\ estimate_age' = 0

\* poll_full_info_if_due. A request that the socket refuses is as good as lost.
PollFullInfoIfDue ==
    IF poll_due > 0 THEN UNCHANGED <<poll_due, info>>
    ELSE poll_due' = PollPeriod(output_enabled) /\ info' = Asked

\* The sockets have nothing more (command answers take less than one sleep). The
\* estimate decays, a poll goes out if it is due, and try_send_due_packet looks
\* at the generation, once, before its loop.
AcksDrained ==
    /\ pc = "acks"
    /\ info.stage # "reply" /\ responded = 0
    /\ DecayFreeEstimate
    /\ PollFullInfoIfDue
    /\ Goto(IF active_generation = generation THEN "sending" ELSE "sleep")
    /\ UNCHANGED <<scenario, handleVars, last_seq, sharedVars, queue, drained,
                   active_generation, counts, output_enabled, send_due, out_net, data_net,
                   acks, responded, deviceVars, histVars>>

Intended == Least(FullPacket, Len(queue))
CanSend == send_due /\ queue # <<>> /\ SendBudget(Len(queue), free_estimate) >= Intended

\* An assumption on the network, not a condition of the code: what is in flight
\* arrives or is lost before MaxDelay later packets have been sent.
Timely == \A d \in data_net \cup acks : d.num # NoSeq => num - d.num < MaxDelay

\* send_one_packet, a packet that goes out. With room left below the cutoff the
\* loop goes on, otherwise the next packet is paced.
SendOnePacket ==
    /\ pc = "sending" /\ CanSend
    /\ Timely
    /\ queue' = SubSeq(queue, Intended + 1, Len(queue))
    /\ sent' = queue[Intended].n
    /\ counts' = [counts EXCEPT ![num % SeqMod] = Intended]
    /\ free_estimate' = SaturatingSub(free_estimate, Intended)
    /\ estimate_age' = 0
    /\ host_queue_len' = SaturatingSub(host_queue_len, Intended)
    /\ data_net' = IF scenario.packets THEN data_net \cup {[num |-> num, len |-> Intended]}
                   ELSE data_net
    /\ num' = num + 1
    /\ IF ShouldContinueTopup(free_estimate, Intended)
       THEN UNCHANGED <<send_due, pc>>
       ELSE send_due' = FALSE /\ Goto("sleep")
    /\ UNCHANGED <<scenario, handleVars, last_seq, comms_age, connected, drained, active_generation,
                   output_enabled, poll_due, out_net, acks, info, responded, deviceVars, acked,
                   arrived, losses, lost_streak>>

\* The points of a packet that could not be sent go back to the front, the last
\* one first.
PutBack(packet, rest) == packet \o rest

\* send_one_packet when the socket refuses the packet.
SendFails ==
    /\ pc = "sending" /\ CanSend
    /\ Lose(1)
    /\ queue' = PutBack(SubSeq(queue, 1, Intended), SubSeq(queue, Intended + 1, Len(queue)))
    /\ send_due' = FALSE
    /\ Goto("sleep")
    /\ UNCHANGED <<scenario, handleVars, estimateVars, sharedVars, drained, active_generation, counts,
                   output_enabled, poll_due, netVars, deviceVars, num, acked, arrived, sent,
                   lost_streak>>

\* Nothing to send, not due, or the device holds too much: wait_buffer_sleep.
SendNothing ==
    /\ pc = "sending" /\ ~CanSend
    /\ send_due' = IF queue = <<>> THEN send_due ELSE FALSE
    /\ Goto("sleep")
    /\ UNCHANGED <<scenario, handleVars, estimateVars, sharedVars, queue, drained, active_generation,
                   counts, output_enabled, poll_due, netVars, deviceVars, histVars>>

\* sleep_until_precise returns and the next pass begins: one unit of time later.
\* What the device was sent on the command socket has been answered or is lost.
Wake ==
    /\ pc = "sleep"
    /\ out_net = [on \in BOOLEAN |-> 0] /\ info # Asked
    /\ Goto("prio")
    /\ send_due' = TRUE
    /\ estimate_age' = IF estimate_age * PlayRate < BufferTotal THEN estimate_age + 1
                       ELSE estimate_age
    /\ fill' = SaturatingSub(fill, PlayRate)
    /\ IF scenario.commands
       THEN /\ poll_due' = SaturatingSub(poll_due, 1)
            /\ comms_age' = IF comms_age <= StaleAfter THEN comms_age + 1 ELSE comms_age
       ELSE UNCHANGED <<poll_due, comms_age>>
    /\ UNCHANGED <<scenario, handleVars, free_estimate, last_seq, host_queue_len, connected,
                   queue, drained, active_generation, counts, output_enabled, netVars, device_on,
                   histVars>>

\* The points of the chunks in a channel
Pending(q) == SumFunction([i \in DOMAIN q |-> q[i].len])

\* The end of run(): the output is switched off once more, and the channels are
\* dropped with what they hold.
Exit ==
    /\ pc = "exit"
    /\ SendOutput(FALSE)
    /\ connected' = FALSE
    /\ host_queue_len' = SaturatingSub(host_queue_len, Pending(tx))
    /\ tx' = <<>>
    /\ priority_tx' = <<>>
    /\ Goto("exited")
    /\ UNCHANGED <<scenario, generation, reserved, joining, requested, estimateVars, comms_age, queue,
                   drained, active_generation, counts, output_enabled, send_due, poll_due, data_net,
                   acks, info, responded, deviceVars, histVars>>

WorkerStep ==
    \/ ProcessPriority \/ PriorityDrained
    \/ ProcessCommand \/ CommandsDrained
    \/ \E a \in acks : ApplyDataAck(a) \/ ApplyCommandAck(a)
    \/ ApplyStatus \/ RecordCommandResponse \/ AcksDrained
    \/ SendOnePacket \/ SendFails \/ SendNothing
    \/ Wake \/ Exit

-------------------------------------------------------------------------------
(* Network and device, external. *)

\* The device answers a set_output; it reports the output in full-info replies.
DeviceSetOutput(on) ==
    /\ out_net[on] > 0
    /\ out_net' = [out_net EXCEPT ![on] = @ - 1]
    /\ device_on' = on
    /\ responded' = Least(responded + 1, 2)
    /\ UNCHANGED <<scenario, handleVars, estimateVars, sharedVars, workerVars, data_net, acks,
                   info, fill, histVars>>

DeviceReports ==
    /\ info = Asked
    /\ info' = Info("reply", device_on, BufferTotal - fill)
    /\ UNCHANGED <<scenario, handleVars, estimateVars, sharedVars, workerVars, out_net,
                   data_net, acks, responded, deviceVars, histVars>>

\* The device stores a packet and acknowledges it on the data socket with its
\* sequence number; it may also report on the command socket, without one.
DeviceStores(p) ==
    /\ p \in data_net
    /\ data_net' = data_net \ {p}
    /\ fill' = Least(fill + p.len, BufferTotal)
    /\ LET Ack(k, seq) == [num |-> k, seq |-> seq, free |-> BufferTotal - fill']
       IN  \/ acks' = acks \cup {Ack(p.num, p.num % SeqMod)}
           \/ /\ \A a \in acks : a.num # NoSeq
              /\ acks' = acks \cup {Ack(p.num, p.num % SeqMod), Ack(NoSeq, NoSeq)}
    /\ UNCHANGED <<scenario, handleVars, estimateVars, sharedVars, workerVars, out_net, info,
                   responded, device_on, histVars>>

LoseCommand ==
    /\ Lose(1)
    /\ lost_streak' = lost_streak + 1
    /\ \/ /\ \E on \in BOOLEAN : out_net[on] > 0 /\ out_net' = [out_net EXCEPT ![on] = @ - 1]
          /\ UNCHANGED <<info, responded>>
       \/ info # NoInfo /\ info' = NoInfo /\ UNCHANGED <<out_net, responded>>
       \/ responded > 0 /\ responded' = responded - 1 /\ UNCHANGED <<out_net, info>>
    /\ UNCHANGED <<scenario, handleVars, estimateVars, sharedVars, workerVars, data_net, acks,
                   deviceVars, num, acked, arrived, sent>>

LosePacket ==
    /\ Lose(1)
    /\ \/ \E p \in data_net : data_net' = data_net \ {p} /\ UNCHANGED acks
       \/ \E a \in acks : acks' = acks \ {a} /\ UNCHANGED data_net
    /\ UNCHANGED <<scenario, handleVars, estimateVars, sharedVars, workerVars, out_net, info,
                   responded, deviceVars, num, acked, arrived, sent, lost_streak>>

NetStep ==
    \/ \E on \in BOOLEAN : DeviceSetOutput(on)
    \/ DeviceReports
    \/ \E p \in data_net : DeviceStores(p)
    \/ LoseCommand \/ LosePacket

-------------------------------------------------------------------------------
(* A new connection: connect() has forced the output off. *)

Init ==
    /\ scenario \in Scenarios
    /\ generation = 0 /\ tx = <<>> /\ priority_tx = <<>> /\ reserved = 0 /\ joining = FALSE
    /\ requested = FALSE
    /\ host_queue_len = 0 /\ comms_age = 0 /\ connected = TRUE
    /\ free_estimate = BufferTotal /\ estimate_age = 0 /\ last_seq = NoSeq
    /\ pc = "prio" /\ drained = 0 /\ queue = <<>> /\ active_generation = 0
    /\ counts = [s \in Slots |-> 0]
    /\ output_enabled = FALSE /\ send_due = TRUE /\ poll_due = PollInactive
    /\ out_net = [on \in BOOLEAN |-> 0] /\ data_net = {} /\ acks = {} /\ info = NoInfo
    /\ responded = 0 /\ device_on = FALSE /\ fill = 0
    /\ num = 0 /\ acked = NoSeq /\ arrived = 0 /\ sent = 0 /\ losses = 0 /\ lost_streak = 0

Next == HandleStep \/ WorkerStep \/ NetStep

Spec == Init /\ [][Next]_vars

\* The worker thread runs, and what is not lost in the network arrives.  Nothing has to happen in a
\* scenario without a shutdown, which is about packets only, so no fairness is asked of it.
Fairness ==
    /\ WF_vars("shutdown" \in scenario.calls /\ WorkerStep)
    /\ WF_vars(DeviceReports)
    /\ \A on \in BOOLEAN : WF_vars(DeviceSetOutput(on))

FairSpec == Spec /\ Fairness

-------------------------------------------------------------------------------
(* Properties *)

\* The types of the transport's state (TransportHandle, TransportState,
\* TransportWorker).
TypeOK ==
    /\ scenario \in Scenarios
    /\ generation \in 0..MaxGen
    /\ tx \in Seq([gen : Nat, len : scenario.sizes])
    /\ priority_tx \in Seq(Priority)
    /\ reserved \in scenario.sizes \cup {0}
    /\ host_queue_len \in 0..HostCapacity
    /\ free_estimate \in 0..BufferTotal
    /\ estimate_age \in Nat /\ comms_age \in 0..(StaleAfter + 1)
    /\ last_seq \in Slots \cup {NoSeq}
    /\ {joining, requested, connected, output_enabled, send_due, device_on} \subseteq BOOLEAN
    /\ pc \in {"prio", "cmds", "prio2", "acks", "sending", "sleep", "exit",
               "exited"}
    /\ drained \in 0..DrainLimit
    /\ queue \in Seq(Point)
    /\ active_generation \in 0..MaxGen
    /\ counts \in [Slots -> 0..FullPacket]
    /\ poll_due \in 0..PollActive
    /\ out_net \in [BOOLEAN -> 0..2]
    /\ info \in [stage : {"none", "asked", "reply"}, on : BOOLEAN, free : 0..BufferTotal]
    /\ fill \in 0..BufferTotal /\ responded \in 0..2
    /\ num \in Nat /\ acked \in Nat \cup {NoSeq}
    /\ {arrived, sent} \subseteq 0..(NameMod - 1)
    /\ {losses, lost_streak} \subseteq 0..scenario.losses

\* Disarm, stop and shutdown purge: once the worker has taken such a command,
\* every point it still holds, and so every point it will send, was written
\* after that call. The generation tells, whatever order the two channels are
\* read in.
QueueIsCurrent == \A i \in DOMAIN queue : queue[i].gen = active_generation

\* No point is skipped, repeated or reordered between the chunk the worker took
\* over and the wire, the packets that send_one_packet puts back included.
QueueInOrder ==
    /\ \A i \in DOMAIN queue : queue[i].n = (sent + i) % NameMod
    /\ arrived = (sent + Len(queue)) % NameMod

\* host_queue_len never counts points that are on no queue. A reservation that
\* leaked would make every later write return WouldBlock.
NoLeakedReservation == host_queue_len <= Len(queue) + Pending(tx) + reserved

\* The filter of apply_data_ack over wrapping sequence numbers applies exactly
\* the ACKs of packets sent after the last one applied: a reordered or repeated
\* ACK never rewinds the estimate and a fresh one is never ignored.
AppliesNewest ==
    \A a \in acks : ApplyDataAck(a) => acked' = IF a.num > acked THEN a.num ELSE acked

\* A slot that still counts as in flight is that of a packet sent after the one
\* acknowledged last: what the device must have received before it is released.
NoPhantomFlight ==
    \A s \in Slots : counts[s] # 0 =>
        \E k \in 0..(num - 1) : k % SeqMod = s /\ k > acked /\ num - k <= SeqMod

\* One lost exchange never makes the connection look dead: is_usable stays true
\* unless two command datagrams in a row were lost (COMMS_STALE_TIMEOUT).
OneLossTolerated == comms_age > StaleAfter => lost_streak >= 2

\* Whatever is lost or overtaken on the command socket, the device's output ends
\* up as the worker last intended it, as long as the worker runs: the full-info
\* polls find and repair a difference (reconcile_output_enable).
OutputSettles ==
    scenario.commands => <>[](pc = "exited" \/ device_on = output_enabled)

\* shutdown() returns: the worker it joins gets to the command and exits.
ShutdownReturns == joining ~> pc = "exited"

\* The worker's queue is what was written since the last purge, in order, and the
\* count the driver sees covers nothing that is on no queue.
QueueSound == TypeOK /\ QueueIsCurrent /\ QueueInOrder /\ NoLeakedReservation

\* Whatever happens to the ACKs, each one is applied exactly if it is news and the
\* slots in flight are those of packets nobody has acknowledged yet.
AcksSound == [][NoPhantomFlight' /\ AppliesNewest]_vars

\* The output follows the intent over a lossy socket, and shutdown() returns.
TransportSettles == OutputSettles /\ ShutdownReturns

===============================================================================
