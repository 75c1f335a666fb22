------------------------------ MODULE IdnBackend ------------------------------
(***************************************************************************)
(* The IDN backend (idn/backend.rs): the driver's calls, the worker thread *)
(* they hand chunks to, the stream the worker owns, the network and the    *)
(* receiver.  A second kind of user drives a stream directly, the only way *)
(* to change point format or frame mode while streaming.                   *)
(*                                                                         *)
(* Time is a tick.  The threads and the network take their steps within a  *)
(* tick, so that a tick passes only when everyone waits; a datagram that   *)
(* is late is a fault like one that is lost.                               *)
(***************************************************************************)
EXTENDS IdnStream, Folds, SequencesExt

CONSTANTS
    Scenarios,     \* the environments of the run
    QueueCapacity, \* IDN_WORKER_QUEUE_CAPACITY
    AckCheck,      \* ticks: ACK_CHECK_INTERVAL
    AckTimeout,    \* ticks: ACK_TIMEOUT
    MaxMisses,     \* MAX_CONSECUTIVE_ACK_MISSES
    ConnectTimeout,\* ticks: CONNECT_PING_TIMEOUT
    ConnectRetries,\* CONNECT_PING_RETRIES
    Lengths,       \* the chunk lengths, after padding
    BlankLength,   \* that of blank_chunk, after padding
    WritesPerTick  \* bound: chunks the driver hands over in a tick

VARIABLES
    scenario,
    budget,     \* faults, events and calls left of those the scenario allows
    driver,     \* where the driver's call is
    runtime,    \* self.runtime is Some
    connected,  \* the flag the worker clears when it ends
    tx,         \* commands in the channel
    wrote,      \* chunks written since the last tick
    attempts,   \* pings left to connect()
    epoch,      \* calls of stop() so far
    pc,         \* where the worker is
    queue,      \* its chunks
    wait,       \* ticks left of the receive that the worker, or connect(), is in
    misses,
    check_age,  \* ticks since last_ack_check, at most AckCheck; -1 for None
    tail,       \* datagrams of the chunk in hand that wait for its acknowledgment
    last,       \* the epoch of the last chunk it took to send
    probed,     \* the receiver answered the request being waited on
    gave_up     \* a worker ended on MaxMisses misses

workerVars == <<pc, queue, wait, misses, check_age, tail, last, probed, gave_up>>
driverVars == <<driver, runtime, connected, tx, wrote, attempts, epoch>>
vars == <<scenario, budget, driverVars, workerVars, streamVars, receiverVars>>

ASSUME BackendAssumption ==
    {QueueCapacity, AckCheck, AckTimeout, MaxMisses, ConnectTimeout, WritesPerTick} \subseteq Nat \ {0}

Chunk == [kind : {"Chunk"}, n : Lengths \cup {BlankLength}, epoch : Nat, blank : BOOLEAN]
Stop == [kind |-> "Stop", epoch |-> epoch]
Shutdown == [kind |-> "Shutdown"]

TypeOK ==
    /\ ReceiverTypeOK
    /\ StreamTypeOK
    /\ driver \in {"idle", "dial", "dialing", "stop", "shut", "join"}
    /\ {runtime, connected, probed, gave_up} \subseteq BOOLEAN
    /\ connected => runtime
    /\ Len(tx) <= QueueCapacity
    /\ queue \in Seq(Chunk)
    /\ wrote \in 0..WritesPerTick
    /\ attempts \in 0..ConnectRetries
    /\ pc \in {"none", "loop", "ack", "idle", "probe", "ping", "exit"}
    /\ wait \in 0..KeepaliveInterval + ConnectTimeout
    /\ misses \in 0..MaxMisses
    /\ check_age \in -1..AckCheck
    /\ {epoch, last, budget} \subseteq Nat

Init ==
    /\ scenario \in Scenarios
    /\ budget = scenario.budget
    /\ ReceiverInit(scenario.exclusive)
    /\ StreamInit
    /\ driver = "idle" /\ runtime = FALSE /\ connected = FALSE /\ tx = <<>>
    /\ wrote = 0 /\ attempts = 0 /\ epoch = 0
    /\ pc = "none" /\ queue = <<>> /\ wait = 0 /\ misses = 0 /\ check_age = -1
    /\ tail = <<>> /\ last = 0 /\ probed = FALSE /\ gave_up = FALSE

\* An event of the environment that the scenario still has room for.
Spend(event) ==
    /\ event \in scenario.events
    /\ budget > 0
    /\ budget' = budget - 1
    /\ UNCHANGED scenario

Free == UNCHANGED <<scenario, budget>>

\* The outcome of a send: the socket takes the datagram, or reports an error.
SendOutcome(sent) == IF sent THEN Free ELSE Spend("senderr")

-------------------------------------------------------------------------------
(* The driver's calls *)

NextSocket == socket + 1

\* connect(), when there is no runtime: a new stream, and the first ping.
Connect ==
    /\ ~scenario.direct
    /\ driver = "idle" /\ ~runtime
    /\ NextSocket \in Sockets
    /\ Fresh(NextSocket, point_format)
    /\ driver' = "dial" /\ attempts' = ConnectRetries
    /\ UNCHANGED <<runtime, connected, tx, wrote, epoch, net>>
    /\ UNCHANGED <<workerVars, receiverVars>> /\ Free

DialPing ==
    /\ driver = "dial"
    /\ \E sent \in BOOLEAN :
        /\ SendPing(sent) /\ SendOutcome(sent)
        /\ wait' = IF sent THEN ConnectTimeout ELSE 0
    /\ driver' = "dialing" /\ probed' = FALSE
    /\ UNCHANGED <<runtime, connected, tx, wrote, attempts, epoch>>
    /\ UNCHANGED <<pc, queue, misses, check_age, tail, last, gave_up, receiverVars>>

\* The server answers: the worker is spawned.
DialAnswered ==
    /\ driver = "dialing" /\ inbox # <<>> /\ Answers(Head(inbox), "pong")
    /\ inbox' = Tail(inbox)
    /\ driver' = "idle" /\ runtime' = TRUE /\ connected' = TRUE /\ tx' = <<>>
    /\ pc' = "loop" /\ queue' = <<>> /\ wait' = 0 /\ misses' = 0 /\ check_age' = -1
    /\ tail' = <<>> /\ last' = epoch
    /\ UNCHANGED <<wrote, attempts, epoch, probed, gave_up, receiverVars>>
    /\ UNCHANGED <<socket, opened, point_format, frame_mode, previous_format, sdm, framed,
                   config_age, send_age, net>> /\ Free

\* A ping went unanswered: the next one, or the stream is dropped, which closes it.
DialTimeout ==
    /\ driver = "dialing" /\ wait = 0
    /\ IF attempts > 0
       THEN driver' = "dial" /\ attempts' = attempts - 1 /\ UNCHANGED <<opened, net>>
       ELSE driver' = "idle" /\ UNCHANGED attempts /\ opened' = FALSE /\ net' = net \o CloseMessages
    /\ UNCHANGED <<runtime, connected, tx, wrote, epoch, workerVars, receiverVars>>
    /\ UNCHANGED <<socket, point_format, frame_mode, previous_format, sdm, framed, config_age,
                   send_age, inbox>> /\ Free

\* try_write_points, when the channel has room. Without room it changes nothing.
TryWritePoints(n) ==
    /\ driver = "idle" /\ runtime /\ connected
    /\ Len(tx) < QueueCapacity /\ wrote < WritesPerTick
    /\ tx' = Append(tx, [kind |-> "Chunk", n |-> n, epoch |-> epoch, blank |-> FALSE])
    /\ wrote' = wrote + 1
    /\ UNCHANGED <<driver, runtime, connected, attempts, epoch>>
    /\ UNCHANGED <<workerVars, streamVars, receiverVars>> /\ Free

\* A blocking send: it waits for room, and fails at once if the worker is gone.
BlockingSend(command) ==
    \/ pc = "none" /\ UNCHANGED tx
    \/ pc # "none" /\ Len(tx) < QueueCapacity /\ tx' = Append(tx, command)

CallStop ==
    /\ driver = "idle" /\ runtime
    /\ driver' = "stop" /\ epoch' = epoch + 1
    /\ UNCHANGED <<runtime, connected, tx, wrote, attempts>>
    /\ UNCHANGED <<workerVars, streamVars, receiverVars>> /\ Spend("stop")

SendStop ==
    /\ driver = "stop"
    /\ BlockingSend(Stop)
    /\ driver' = "idle"
    /\ UNCHANGED <<runtime, connected, wrote, attempts, epoch>>
    /\ UNCHANGED <<workerVars, streamVars, receiverVars>> /\ Free

\* disconnect(): after an error, or because the session ends.
CallDisconnect ==
    /\ driver = "idle" /\ runtime
    /\ IF connected THEN Spend("disconnect") ELSE Free
    /\ driver' = "shut"
    /\ UNCHANGED <<runtime, connected, tx, wrote, attempts, epoch>>
    /\ UNCHANGED <<workerVars, streamVars, receiverVars>>

SendShutdown ==
    /\ driver = "shut"
    /\ BlockingSend(Shutdown)
    /\ driver' = "join"
    /\ UNCHANGED <<runtime, connected, wrote, attempts, epoch>>
    /\ UNCHANGED <<workerVars, streamVars, receiverVars>> /\ Free

Join ==
    /\ driver = "join" /\ pc = "none"
    /\ driver' = "idle" /\ runtime' = FALSE /\ connected' = FALSE
    /\ UNCHANGED <<tx, wrote, attempts, epoch>>
    /\ UNCHANGED <<workerVars, streamVars, receiverVars>> /\ Free

-------------------------------------------------------------------------------
(* The worker *)

BlankChunk(e) == [kind |-> "Chunk", n |-> BlankLength, epoch |-> e, blank |-> TRUE]

\* handle_worker_command. Nothing is read after a Shutdown.
HandleCommand(w, command) ==
    IF w.ends THEN w
    ELSE CASE command.kind = "Chunk" -> [w EXCEPT !.queue = Append(@, command)]
           [] command.kind = "Stop" -> [w EXCEPT !.queue = <<BlankChunk(command.epoch)>>]
           [] command.kind = "Shutdown" -> [w EXCEPT !.ends = TRUE]

\* The channel, drained into the queue.
Drained == FoldLeft(HandleCommand, [queue |-> queue, ends |-> FALSE], tx)

CheckDue == misses > 0 \/ check_age \notin 0..(AckCheck - 1)

\* A liveness check failed.
Miss ==
    /\ misses' = misses + 1
    /\ IF misses + 1 >= MaxMisses
       THEN pc' = "exit" /\ gave_up' = TRUE
       ELSE pc' = "loop" /\ UNCHANGED gave_up

\* The head of the queue is sent, as a liveness check if one is due.
SendChunk(chunk) ==
    \E sent \in BOOLEAN :
        /\ SendOutcome(sent)
        /\ last' = chunk.epoch
        /\ IF CheckDue
           THEN /\ WriteFrameAckreq(chunk.n, sent)
                /\ check_age' = 0
                /\ IF sent
                   THEN /\ pc' = "ack" /\ wait' = AckTimeout /\ probed' = FALSE
                        /\ tail' = IF frame_mode = "Wave" THEN Rest(chunk.n) ELSE <<>>
                        /\ UNCHANGED <<misses, gave_up>>
                   ELSE Miss /\ UNCHANGED <<wait, probed, tail>>
           ELSE /\ WriteFrame(chunk.n, sent)
                /\ pc' = IF sent THEN "loop" ELSE "exit"
                /\ UNCHANGED <<wait, probed, tail, misses, gave_up, check_age>>

\* One pass of the loop: the commands, then a chunk, or the wait for a command.
WorkerLoop ==
    /\ pc = "loop"
    /\ tx' = <<>>
    /\ IF Drained.ends
       THEN /\ pc' = "exit"
            /\ UNCHANGED <<queue, wait, misses, check_age, tail, last, probed, gave_up, streamVars>>
            /\ Free
       ELSE IF Drained.queue = <<>>
       THEN /\ pc' = "idle" /\ wait' = KeepaliveInterval
            /\ UNCHANGED <<queue, misses, check_age, tail, last, probed, gave_up, streamVars>>
            /\ Free
       ELSE /\ queue' = Tail(Drained.queue)
            /\ SendChunk(Head(Drained.queue))
    /\ UNCHANGED <<driver, runtime, connected, wrote, attempts, epoch, receiverVars>>

\* A command ends the wait of an idle worker.
IdleCommand ==
    /\ pc = "idle" /\ tx # <<>>
    /\ pc' = "loop" /\ wait' = 0
    /\ UNCHANGED <<queue, misses, check_age, tail, last, probed, gave_up>>
    /\ UNCHANGED <<driverVars, streamVars, receiverVars>> /\ Free

\* Faulty variant: an idle worker lets a ping pass for a keepalive.
IdleTimeoutPingOnly ==
    /\ pc = "idle" /\ tx = <<>> /\ wait = 0
    /\ IF NeedsKeepalive /\ ~CheckDue THEN SendKeepalive ELSE UNCHANGED <<net, send_age>>
    /\ pc' = "probe"
    /\ UNCHANGED <<socket, opened, point_format, frame_mode, previous_format, sdm, framed,
                   config_age, inbox>>
    /\ UNCHANGED <<queue, wait, misses, check_age, tail, last, probed, gave_up, driverVars,
                   receiverVars>> /\ Free

\* The wait of an idle worker ends without a command: a keepalive, if one is due.
IdleTimeout ==
    /\ pc = "idle" /\ tx = <<>> /\ wait = 0
    /\ \/ NeedsKeepalive /\ SendKeepalive /\ pc' = "probe" /\ Free
       \/ NeedsKeepalive /\ UNCHANGED <<net, send_age>> /\ pc' = "exit" /\ Spend("senderr")
       \/ ~NeedsKeepalive /\ UNCHANGED <<net, send_age>> /\ pc' = "probe" /\ Free
    /\ UNCHANGED <<socket, opened, point_format, frame_mode, previous_format, sdm, framed,
                   config_age, inbox>>
    /\ UNCHANGED <<queue, wait, misses, check_age, tail, last, probed, gave_up, driverVars,
                   receiverVars>>

\* Then a ping, if a check is due.
IdleProbe ==
    /\ pc = "probe"
    /\ \/ /\ ~CheckDue
          /\ pc' = "loop"
          /\ UNCHANGED <<wait, misses, check_age, probed, gave_up, streamVars>> /\ Free
       \/ \E sent \in BOOLEAN :
            /\ CheckDue
            /\ SendPing(sent) /\ SendOutcome(sent)
            /\ check_age' = 0
            /\ IF sent
               THEN /\ pc' = "ping" /\ wait' = AckTimeout /\ probed' = FALSE
                    /\ UNCHANGED <<misses, gave_up>>
               ELSE Miss /\ UNCHANGED <<wait, probed>>
    /\ UNCHANGED <<queue, tail, last, driverVars, receiverVars>>

Waiting == pc \in {"ack", "ping"}
AwaitedReply == IF pc = "ack" THEN "ack" ELSE "pong"

\* The reply the worker waits for: a success if its code says so. The rest of the
\* chunk follows an acknowledgment, and is dropped without one.
TakeReply ==
    /\ Waiting /\ wait > 0 /\ inbox # <<>> /\ Answers(Head(inbox), AwaitedReply)
    /\ inbox' = Tail(inbox)
    /\ IF Head(inbox).ok
       THEN /\ misses' = 0 /\ pc' = "loop" /\ AfterAck(tail)
            /\ UNCHANGED gave_up
       ELSE Miss /\ UNCHANGED <<net, send_age>>
    /\ tail' = <<>> /\ wait' = 0
    /\ UNCHANGED <<socket, opened, point_format, frame_mode, previous_format, sdm, framed, config_age>>
    /\ UNCHANGED <<queue, check_age, last, probed, driverVars, receiverVars>> /\ Free

\* Any other reply is dropped, by the worker or by connect().
DiscardReply ==
    /\ inbox # <<>>
    /\ \/ Waiting /\ wait > 0 /\ ~Answers(Head(inbox), AwaitedReply)
       \/ driver = "dialing" /\ wait > 0 /\ ~Answers(Head(inbox), "pong")
    /\ inbox' = Tail(inbox)
    /\ UNCHANGED <<socket, opened, point_format, frame_mode, previous_format, sdm, framed,
                   config_age, send_age, net>>
    /\ UNCHANGED <<driverVars, workerVars, receiverVars>> /\ Free

ReplyTimeout ==
    /\ Waiting /\ wait = 0
    /\ Miss /\ tail' = <<>>
    /\ UNCHANGED <<queue, wait, check_age, last, probed>>
    /\ UNCHANGED <<driverVars, streamVars, receiverVars>> /\ Free

\* The end of worker_loop: the flag is cleared, the stream closed, the channel gone.
WorkerExit ==
    /\ pc = "exit"
    /\ pc' = "none" /\ connected' = FALSE
    /\ tx' = <<>> /\ queue' = <<>> /\ tail' = <<>>
    /\ opened' = FALSE /\ net' = net \o CloseMessages
    /\ UNCHANGED <<driver, runtime, wrote, attempts, epoch>>
    /\ UNCHANGED <<wait, misses, check_age, last, probed, gave_up, receiverVars>>
    /\ UNCHANGED <<socket, point_format, frame_mode, previous_format, sdm, framed, config_age,
                   send_age, inbox>> /\ Free

-------------------------------------------------------------------------------
(* A user of the stream itself *)

UserOpen ==
    /\ scenario.direct /\ ~opened /\ NextSocket \in Sockets
    /\ \E f \in Formats : Fresh(NextSocket, f)
    /\ UNCHANGED <<net, driverVars, workerVars, receiverVars>> /\ Free

UserWrites ==
    /\ scenario.direct /\ opened /\ wrote < WritesPerTick
    /\ \E n \in scenario.lengths : WriteFrame(n, TRUE)
    /\ wrote' = wrote + 1
    /\ UNCHANGED <<driver, runtime, connected, tx, attempts, epoch, workerVars, receiverVars>> /\ Free

UserConfigures ==
    /\ scenario.direct /\ opened
    /\ \/ \E f \in Formats \ {point_format} : SetPointFormat(f) /\ UNCHANGED frame_mode
       \/ \E m \in {"Wave", "Frame"} \ {frame_mode} : SetFrameMode(m) /\ UNCHANGED point_format
    /\ UNCHANGED <<socket, opened, previous_format, sdm, framed, config_age, send_age, net, inbox>>
    /\ "configure" \in scenario.events
    /\ UNCHANGED <<driverVars, workerVars, receiverVars>> /\ Free

UserCloses ==
    /\ scenario.direct /\ opened
    /\ opened' = FALSE /\ net' = net \o CloseMessages
    /\ UNCHANGED <<socket, point_format, frame_mode, previous_format, sdm, framed, config_age,
                   send_age, inbox>>
    /\ UNCHANGED <<driverVars, workerVars, receiverVars>> /\ Spend("disconnect")
-------------------------------------------------------------------------------
(* The network, the receiver and time *)

InUse == IF opened THEN socket ELSE -1

Deliver ==
    /\ net # <<>>
    /\ LET d == Head(net)
       IN  \E reply \in {NoReply} \cup {Reply(d, c, ok) : c \in {"ack", "pong"}, ok \in BOOLEAN} :
            /\ HandleDatagram(d, InUse, reply)
            /\ inbox' = IF d.src = InUse THEN inbox \o reply ELSE inbox
            /\ probed' = (probed \/ (d.fresh /\ reply # NoReply))
    /\ net' = Tail(net)
    /\ UNCHANGED <<socket, opened, point_format, frame_mode, previous_format, sdm, framed,
                   config_age, send_age>>
    /\ UNCHANGED <<pc, queue, wait, misses, check_age, tail, last, gave_up, driverVars>> /\ Free

OnNetwork == UNCHANGED <<socket, opened, point_format, frame_mode, previous_format, sdm, framed,
                         config_age, send_age, driverVars, workerVars, receiverVars>>

Lose ==
    /\ \/ \E i \in DOMAIN net : net' = RemoveAt(net, i) /\ UNCHANGED inbox
       \/ \E i \in DOMAIN inbox : inbox' = RemoveAt(inbox, i) /\ UNCHANGED net
    /\ OnNetwork /\ Spend("lose")

Duplicate ==
    /\ \/ \E i \in DOMAIN net : net' = Append(net, net[i]) /\ UNCHANGED inbox
       \/ \E i \in DOMAIN inbox : inbox' = Append(inbox, inbox[i]) /\ UNCHANGED net
    /\ OnNetwork /\ Spend("duplicate")

Reorder ==
    /\ Len(net) > 1 /\ net' = Append(Tail(net), Head(net)) /\ UNCHANGED inbox
    /\ OnNetwork /\ Spend("reorder")

\* What another host streams to the same receiver.
StrangerSends ==
    /\ \E cmd \in {"cnlmsg", "close"}, f \in Formats :
        net' = Append(net, [src |-> Stranger, cmd |-> cmd, fresh |-> FALSE, type |-> "Wave",
                            config |-> [routing |-> TRUE, close |-> FALSE, format |-> f, sdm |-> 1,
                                        mode |-> "Continuous"],
                            format |-> f, sdm |-> 1, n |-> BlankLength])
    /\ UNCHANGED inbox /\ OnNetwork /\ Spend("stranger")

ReceiverEvent ==
    /\ \/ SetPower(~up) /\ Spend("power")
       \/ SetExcluded(~excluded) /\ Spend("exclude")
       \/ ForceDisconnect /\ Spend("kick")
    /\ UNCHANGED <<driverVars, workerVars, streamVars>>

\* Nobody has anything left to do but wait.
AllWait ==
    /\ pc \in {"none", "idle", "ack", "ping"}
    /\ pc = "idle" => tx = <<>>
    /\ pc # "none" \/ driver = "dialing" => wait > 0
    /\ driver # "dial" /\ (driver = "join" => pc # "none")
    /\ driver \in {"stop", "shut"} => pc # "none" /\ Len(tx) = QueueCapacity

\* A driver that streams writes in every tick, unless the channel is full.
Paced ==
    scenario.streaming =>
        /\ driver = "idle" /\ connected => wrote > 0 \/ Len(tx) = QueueCapacity
        /\ scenario.direct /\ opened => wrote > 0

Prompt == net = <<>> /\ (inbox = <<>> \/ ~(Waiting \/ driver = "dialing"))

Tick ==
    /\ AllWait /\ Paced
    /\ IF Prompt THEN Free ELSE Spend("delay")
    /\ wait' = IF wait > 0 THEN wait - 1 ELSE 0
    /\ check_age' = IF check_age \in 0..(AckCheck - 1) THEN check_age + 1 ELSE check_age
    /\ wrote' = 0
    /\ StreamTick /\ ReceiverTick
    /\ UNCHANGED <<driver, runtime, connected, tx, attempts, epoch>>
    /\ UNCHANGED <<pc, queue, misses, tail, last, probed, gave_up>>

-------------------------------------------------------------------------------

Writes == \E n \in scenario.lengths : TryWritePoints(n)

WorkerStep ==
    \/ WorkerLoop \/ IdleCommand \/ IdleTimeout \/ IdleProbe
    \/ TakeReply \/ DiscardReply \/ ReplyTimeout \/ WorkerExit

DriverStep ==
    \/ DialPing \/ DialAnswered \/ DialTimeout
    \/ SendStop \/ SendShutdown \/ Join
    \/ ~connected /\ CallDisconnect

Environment ==
    \/ CallStop \/ (connected /\ CallDisconnect)
    \/ UserConfigures \/ UserCloses
    \/ Lose \/ Duplicate \/ Reorder \/ StrangerSends \/ ReceiverEvent

Next ==
    \/ WorkerStep \/ DriverStep \/ Connect \/ Writes
    \/ UserOpen \/ UserWrites
    \/ Deliver \/ Tick \/ Environment

Spec == Init /\ [][Next]_vars

\* The threads run, the network delivers and time passes; a driver that streams
\* connects again, and keeps writing: Paced holds time back until it has.
Fairness ==
    /\ WF_vars(WorkerStep) /\ WF_vars(DriverStep)
    /\ WF_vars(Deliver) /\ WF_vars(Tick)
    /\ WF_vars(scenario.streaming /\ (Connect \/ Writes \/ UserWrites))

FairSpec == Spec /\ Fairness

-------------------------------------------------------------------------------
(* Properties *)

\* Keepalives hold the link: as long as the network does its part, the receiver never
\* times out a client whose worker is running (server.rs:118), however the worker's
\* pings, which are no activity to the receiver, interleave with its keepalives.
LinkHeld ==
    (budget = scenario.budget /\ connected /\ client = "host") => quiet < LinkTimeout

\* With one datagram lost, late, doubled or out of order, no chunk with a header is
\* decoded in a format other than its own (parser.rs:407): the service data match
\* tells a chunk of the new format from a configuration of the old one.
NeverMisread == scenario.budget <= 1 => "headed" \notin misread

\* A network that loses fewer replies than the worker tolerates in a row never makes
\* it give up (backend.rs:474), whatever stale replies it still delivers.
Glitches == {"lose", "delay", "duplicate", "reorder", "stop", "disconnect"}
NotTornDown ==
    (scenario.events \subseteq Glitches /\ scenario.budget < MaxMisses) => ~gave_up

\* The misses are forgotten only when the receiver answered the very request the
\* worker waits on (stream.rs:1228), never for a late answer to an earlier one.
ProbeTruth == [][Waiting /\ pc' = "loop" /\ misses' = 0 => probed]_vars

\* stop() is heeded: an idle worker with nothing to read has taken nothing to send
\* after the last stop but its blank and what was written later (backend.rs:551), and a blank
\* never waits behind older chunks.
StopHeeded ==
    /\ (pc = "idle" /\ tx = <<>> /\ driver # "stop") => last = epoch
    /\ \A i \in DOMAIN queue : queue[i].blank => i = 1

\* A receiver that is gone for good is noticed, by a streaming and by an idle worker.
DeadNoticed == <>[](~up) => <>[](~connected)

\* A driver that streams to a receiver that is there gets chunks decoded again and
\* again: no lost configuration, timeout of the link, forced disconnect or late close
\* of an earlier connection leaves the output dark (stream.rs:86).
Streams == scenario.streaming /\ (connected \/ (scenario.direct /\ opened)) /\ up /\ ~excluded
RendersAgain == <>[]Streams => []<>rendered

\* The receiver lets go of a client that is gone, even if its close was lost.
ClientFreed == <>[](~opened) => <>[](client # "host")

\* stop() and disconnect(), which block on the channel and on the worker, return.
CallsReturn == (driver \in {"stop", "shut", "join"}) ~> (driver = "idle")

\* A link that works is kept and a stop is obeyed: keepalives reach the receiver in
\* time, lost replies below the limit tear nothing down, and nothing older than a stop
\* is sent after its blank.
LinkSound == TypeOK /\ LinkHeld /\ NotTornDown /\ StopHeeded

\* After every fault both sides find out and go on: dead receivers and gone clients
\* are noticed, the output is rendered again, and no call blocks for ever.
LinkRecovers == DeadNoticed /\ RendersAgain /\ ClientFreed /\ CallsReturn
===============================================================================
