--------------------------- MODULE EtherDreamHarness --------------------------
(***************************************************************************)
(* The two programs that stand between a test client and an Ether Dream:   *)
(* the server around the simulated device, and the recording proxy.        *)
(***************************************************************************)
EXTENDS Integers, FiniteSets, Sequences

-----------------------------------------------------------------------------
(***************************************************************************)
(* The server around the simulated Ether Dream (ether_dream/sim/server.rs): *)
(* the accept thread, a thread per connection, the broadcaster, and the    *)
(* drop that stops and joins them all.  The model of the DAC is behind one *)
(* lock; of it only the playback matters here.  The bytes of a connection  *)
(* are the subject of EtherDreamFraming.                                   *)
(***************************************************************************)

CONSTANTS MaxAccepts   \* clients that ever connect

VARIABLES
    config,   \* [enforce_single_client, close_stops_playback, broadcast]
    stop,
    active,
    accepted, \* connections accepted since start
    threads,  \* the handles in the list
    stage,    \* per thread, where it is
    spawned,  \* the connection that was counted up last, 0 before the first
    batch,    \* the handles that drop is joining
    holder,   \* "serves", "joins" or "gone": the thread that owns the SimServer
    playback, \* the connection that plays, 0 for idle
    peers,    \* history: per connection, the others that were served when it lowered the count
    zeroed    \* history: the thread that last took the count to zero, 0 before the first

countVars == <<peers, zeroed>>
simVars == <<config, stop, active, accepted, threads, stage, spawned, batch, holder, playback, countVars>>

SimConns == 1..MaxAccepts
Acceptor == MaxAccepts + 1
Broadcaster == MaxAccepts + 2

Ended(t) == stage[t] \in {"none", "gone", "queued", "refused"}
\* Served, in the count since before their thread was spawned
Counted == {c \in SimConns : stage[c] \in {"serves", "hung", "leaves"}}

NoSim == [enforce_single_client |-> FALSE, close_stops_playback |-> FALSE, broadcast |-> FALSE]

\* SimServer::start
SimInit(simulating) ==
    /\ config \in IF simulating
                  THEN [enforce_single_client : BOOLEAN, close_stops_playback : BOOLEAN, broadcast : BOOLEAN]
                  ELSE {NoSim}
    /\ stop = FALSE /\ active = 0 /\ accepted = 0
    /\ threads = {Acceptor} \cup (IF config.broadcast THEN {Broadcaster} ELSE {})
    /\ stage = [t \in SimConns \cup {Acceptor, Broadcaster} |->
                    CASE t = Acceptor -> "top"
                      [] t = Broadcaster /\ config.broadcast -> "top"
                      [] OTHER -> "none"]
    /\ spawned = 0 /\ batch = {} /\ holder = "serves" /\ playback = 0
    /\ peers = [c \in SimConns |-> {}] /\ zeroed = 0

Goes(t, where) == stage' = [stage EXCEPT ![t] = where]

-------------------------------------------------------------------------------
(* accept_loop *)

\* The backlog of the listener
ClientConnects(c) ==
    /\ stage[c] = "none" /\ stage[Acceptor] # "gone"
    /\ \A d \in SimConns : d < c => stage[d] # "none"
    /\ Goes(c, "queued")
    /\ UNCHANGED <<config, stop, active, accepted, threads, spawned, batch, holder, playback, countVars>>

LoopHead(t) ==
    /\ t \in {Acceptor, Broadcaster} /\ stage[t] = "top"
    /\ Goes(t, IF stop THEN "gone" ELSE "round")
    /\ UNCHANGED <<config, stop, active, accepted, threads, spawned, batch, holder, playback, countVars>>

\* The oldest of the backlog
NextClient(c) ==
    /\ stage[Acceptor] = "round" /\ stage[c] = "queued"
    /\ \A d \in SimConns : stage[d] = "queued" => c <= d

\* Only this thread counts up, so between its load and its fetch_add `active` can only fall.
AcceptRefuses(c) ==
    /\ NextClient(c)
    /\ config.enforce_single_client /\ active > 0
    /\ stage' = [stage EXCEPT ![c] = "refused", ![Acceptor] = "top"]
    /\ UNCHANGED <<config, stop, active, accepted, threads, spawned, batch, holder, playback, countVars>>

AcceptCounts(c) ==
    /\ NextClient(c)
    /\ ~(config.enforce_single_client /\ active > 0)
    /\ active' = active + 1
    /\ stage' = [stage EXCEPT ![c] = "counted", ![Acceptor] = "spawns"]
    /\ spawned' = c
    /\ UNCHANGED <<config, stop, accepted, threads, batch, holder, playback, countVars>>

Spawns(c) ==
    /\ stage[Acceptor] = "spawns" /\ spawned = c
    /\ stage' = [stage EXCEPT ![c] = "serves", ![Acceptor] = "list"]
    /\ UNCHANGED <<config, stop, active, accepted, threads, spawned, batch, holder, playback, countVars>>

\* The socket is dropped with the closure, and the count undone: the model is told nothing, whatever
\* the count was.
SpawnFails(c) ==
    /\ stage[Acceptor] = "spawns" /\ spawned = c
    /\ active' = active - 1
    /\ zeroed' = IF active = 1 THEN Acceptor ELSE zeroed
    /\ stage' = [stage EXCEPT ![c] = "refused", ![Acceptor] = "top"]
    /\ UNCHANGED <<config, stop, accepted, threads, spawned, batch, holder, playback, peers>>

\* The handle goes into the list; those of finished connections are reaped.
AcceptLists(c) ==
    /\ stage[Acceptor] = "list" /\ spawned = c
    /\ accepted' = accepted + 1
    /\ threads' = {t \in threads : ~Ended(t)} \cup {c}
    /\ Goes(Acceptor, "top")
    /\ UNCHANGED <<config, stop, active, spawned, batch, holder, playback, countVars>>

\* WouldBlock or an error, and a broadcast that is sent or fails: the loop sleeps and goes round.
NothingToDo(t) ==
    /\ t \in {Acceptor, Broadcaster} /\ stage[t] = "round"
    /\ Goes(t, "top")
    /\ UNCHANGED <<config, stop, active, accepted, threads, spawned, batch, holder, playback, countVars>>

-------------------------------------------------------------------------------
(* A connection *)

\* handle_connection: a command, under the lock of the model
Plays(c, plays) ==
    /\ stage[c] = "serves"
    /\ playback' = IF plays THEN c ELSE 0
    /\ playback' # playback
    /\ UNCHANGED <<config, stop, active, accepted, threads, stage, spawned, batch, holder, countVars>>

\* A command the firmware hangs on: what is read from now on is ignored.
Hangs(c) ==
    /\ stage[c] = "serves"
    /\ Goes(c, "hung")
    /\ UNCHANGED <<config, stop, active, accepted, threads, spawned, batch, holder, playback, countVars>>

\* The client closes, a fault or an error ends the connection, or the stop flag is seen.
Leaves(c) ==
    /\ stage[c] \in {"serves", "hung"}
    /\ Goes(c, "leaves")
    /\ UNCHANGED <<config, stop, active, accepted, threads, spawned, batch, holder, playback, countVars>>

CountsDown(c) ==
    /\ stage[c] = "leaves"
    /\ active' = active - 1
    /\ Goes(c, IF active = 1 THEN "closes" ELSE "gone")
    /\ peers' = [peers EXCEPT ![c] = Counted \ {c}]
    /\ zeroed' = IF active = 1 THEN c ELSE zeroed
    /\ UNCHANGED <<config, stop, accepted, threads, spawned, batch, holder, playback>>

ConnectionClosed(c) ==
    /\ stage[c] = "closes"
    /\ playback' = IF config.close_stops_playback THEN 0 ELSE playback
    /\ Goes(c, "gone")
    /\ UNCHANGED <<config, stop, active, accepted, threads, spawned, batch, holder, countVars>>

-------------------------------------------------------------------------------
(* Drop *)

DropServer ==
    /\ holder = "serves" /\ holder' = "joins"
    /\ stop' = TRUE
    /\ UNCHANGED <<config, spawned, active, accepted, threads, stage, batch, playback, countVars>>

Join(t) ==
    /\ t \in batch /\ Ended(t)
    /\ batch' = batch \ {t}
    /\ UNCHANGED <<config, spawned, stop, active, accepted, threads, stage, holder, playback, countVars>>

\* Connection threads are listed by the accept thread, so until the list stays empty.
TakeThreads ==
    /\ holder = "joins" /\ batch = {}
    /\ batch' = threads /\ threads' = {}
    /\ holder' = IF threads = {} THEN "gone" ELSE "joins"
    /\ UNCHANGED <<config, spawned, stop, active, accepted, stage, playback, countVars>>

SimNext ==
    \/ \E c \in SimConns :
          \/ ClientConnects(c) \/ AcceptRefuses(c) \/ AcceptCounts(c) \/ Spawns(c) \/ SpawnFails(c) \/ AcceptLists(c)
          \/ Hangs(c) \/ Leaves(c) \/ CountsDown(c) \/ ConnectionClosed(c)
          \/ \E plays \in BOOLEAN : Plays(c, plays)
    \/ \E t \in {Acceptor, Broadcaster} : LoopHead(t) \/ NothingToDo(t)
    \/ \E t \in SimConns \cup {Acceptor, Broadcaster} : Join(t)
    \/ DropServer \/ TakeThreads

SimOver == holder = "gone"

-------------------------------------------------------------------------------
\* Drop for SimServer: when the server is dropped no thread of it is left, whatever was being
\* accepted meanwhile.
DropJoinsAll ==
    holder = "gone" => (\A t \in DOMAIN stage : Ended(t)) /\ threads = {}

\* accept_loop: the count is of the connections that are served, and of the one whose thread is being
\* spawned, and of a single-client DAC that is never more than one.
CountTrue ==
    /\ active = Cardinality(Counted) + (IF stage[Acceptor] = "spawns" THEN 1 ELSE 0)
    /\ config.enforce_single_client => active <= 1

\* accept_loop, "only the last connection closing counts as a disconnect": a connection that goes on to
\* end the playback was the only one when it lowered the count, so whom it cuts off can only have come
\* since; and a playback that nobody is left to end was left by a thread that failed to start, which
\* held the count up for the last connection and then told nobody.
LastCloseEnds ==
    config.close_stops_playback =>
        /\ \A c \in SimConns : stage[c] = "closes" => peers[c] = {}
        /\ playback # 0 => \/ zeroed = Acceptor
                          \/ active > 0 \/ \E c \in SimConns : stage[c] = "closes"

Served == DropJoinsAll /\ CountTrue /\ LastCloseEnds

-----------------------------------------------------------------------------
(***************************************************************************)
(* The interlock of examples/ether_dream_hwcheck.rs: a proxy between the   *)
(* Ether Dream backend and a real DAC that forwards only blanked data,     *)
(* withholds commands from a DAC it knows to be in emergency stop, and     *)
(* leaves the DAC idle after every scenario.  Its threads are the          *)
(* listener, a writer and a reader for each connection, and the scenario,  *)
(* which also injects commands.  The lock of `conn` makes the gate and the *)
(* sending one step; the reader updates the state outside that lock.       *)
(*                                                                         *)
(* A command is its opcode, "unsafe" being any that cmd_len or             *)
(* unsafe_reason refuses.  A status is the playback state and whether the  *)
(* light engine is ready.  A DAC that neither answers nor closes is left   *)
(* out, so that wait_quiet's three seconds are enough for the threads.     *)
(***************************************************************************)

CONSTANTS
    Plans,     \* what the scenarios of a behaviour do
    MaxConns   \* connections in a behaviour

VARIABLES
    plan,      \* [sends, injects: one sequence a scenario; window, reestops, buttons, drops, others]
    laser,     \* the DAC: playback, and who stopped it: "no", "button", or "ours", a command
    proxy,     \* ProxyState
    nextSeq,   \* seq
    held,      \* the id of the connection in `conn`, 0 for None
    lines,     \* the connections by id: sockets, queue and the two threads
    scenario   \* the scenario and main's loop around it

hwVars == <<plan, laser, proxy, nextSeq, held, lines, scenario>>

Ids == 1..MaxConns

\* The reply of DAC d to a command; the greeting answers none.
Reported(d, cmd) == [playback |-> d.playback, ready |-> d.stopped = "no", cmd |-> cmd]

NoLine ==
    [sent |-> <<>>,     \* by the client, not yet read by the writer
     asked |-> <<>>,    \* by the client, not yet answered
     left |-> FALSE,    \* the client has closed its socket
     pend |-> <<>>,     \* the channel from the writer to the reader
     up |-> <<>>,       \* on the wire to the DAC
     down |-> <<>>,     \* on the wire from the DAC
     dropped |-> FALSE, \* the DAC closed the connection
     writer |-> "none", reader |-> "none",
     stops |-> <<>>,    \* refuse's commands
     refused |-> FALSE]

\* blocked stands for the Blocked events in `events`.
DefaultState ==
    [last |-> Reported([playback |-> "unknown", stopped |-> "no"], "none"), estopped |-> FALSE, estop_seq |-> 0,
     reestop_after_clear |-> 0, aborted |-> FALSE, allow_busy_hello |-> FALSE, conns |-> 0,
     outstanding |-> 0, blocked |-> FALSE]

NoPlan == [sends |-> <<>>, injects |-> <<>>, window |-> 1, reestops |-> 0, buttons |-> 0, drops |-> 0,
           others |-> FALSE]

HwInit(taking_part) ==
    /\ plan \in IF taking_part THEN Plans ELSE {NoPlan}
    /\ laser = [playback |-> "idle", stopped |-> "no"]
    /\ proxy = DefaultState
    /\ nextSeq = 1
    /\ held = 0
    /\ lines = [c \in Ids |-> NoLine]
    /\ scenario = [at |-> IF taking_part THEN "begin" ELSE "over", raw |-> FALSE, todo |-> <<>>,
                   passed |-> TRUE]

-------------------------------------------------------------------------------
(* The proxy's state *)

StopCmds(status) ==
    CASE status.playback = "playing" -> <<"stop">>
      [] status.playback = "prepared" -> <<"begin", "stop">>
      [] OTHER -> <<>>

\* A reply to a command sent before the last emergency stop knows nothing of it.
RecordAny(st, p, status) == [st EXCEPT !.last = status, !.estopped = ~status.ready]

Record(st, p, status) ==
    [st EXCEPT !.last = status, !.estopped = IF p.seq > st.estop_seq THEN ~status.ready ELSE @]

Settle(st) == [st EXCEPT !.outstanding = IF @ = 0 THEN 0 ELSE @ - 1]

Abort(st) == [st EXCEPT !.aborted = TRUE]

EstopGated(cmd) == proxy.estopped /\ cmd \notin {"ping", "clear", "estop"}

\* Send a command on connection c. The emergency stop is known before it is on the wire.
Sending(st, cmd, n) ==
    IF cmd = "estop"
    THEN [st EXCEPT !.estopped = TRUE, !.estop_seq = n, !.outstanding = @ + 1]
    ELSE [st EXCEPT !.outstanding = @ + 1]

Queued(line, p) ==
    IF line.reader = "gone" THEN line
    ELSE [line EXCEPT !.pend = Append(@, p),
                      !.up = IF p.kind = "synth" \/ line.dropped THEN @ ELSE Append(@, p)]

\* line is connection c as the caller leaves it.
SendLocked(c, line, cmd, kind) ==
    LET sending == Sending(proxy, cmd, nextSeq) IN
    /\ nextSeq' = nextSeq + 1
    /\ proxy' = IF line.reader = "gone" THEN Settle(sending) ELSE sending
    /\ lines' = [lines EXCEPT ![c] = Queued(line, [seq |-> nextSeq, cmd |-> cmd, kind |-> kind])]

CannotSend(line, kind) == line.reader = "gone" \/ (line.dropped /\ kind # "synth")

-------------------------------------------------------------------------------
(* The writer of connection c *)

\* A command read in full and found safe
WriterForwards(c) ==
    /\ lines[c].writer = "run" /\ lines[c].sent # <<>> /\ Head(lines[c].sent) # "unsafe"
    /\ LET cmd == Head(lines[c].sent)
           kind == IF EstopGated(cmd) THEN "synth" ELSE "forward"
       IN IF held = c
          THEN SendLocked(c, [lines[c] EXCEPT !.sent = Tail(@),
                                 !.writer = IF CannotSend(lines[c], kind) THEN "leaving" ELSE @], cmd, kind)
          ELSE /\ lines' = [lines EXCEPT ![c].writer = "leaving"]
               /\ UNCHANGED <<proxy, nextSeq>>
    /\ UNCHANGED <<plan, laser, held, scenario>>

\* refuse: the record and the look at the last status, then the stop on the same connection
WriterRefuses(c) ==
    /\ lines[c].writer = "run" /\ lines[c].sent # <<>> /\ Head(lines[c].sent) = "unsafe"
    /\ nextSeq' = nextSeq + 1
    /\ proxy' = [proxy EXCEPT !.blocked = TRUE]
    /\ lines' = [lines EXCEPT ![c].sent = Tail(@), ![c].writer = "refusing", ![c].refused = TRUE,
                              ![c].stops = StopCmds(proxy.last)]
    /\ UNCHANGED <<plan, laser, held, scenario>>

RefuseStops(c) ==
    /\ lines[c].writer = "refusing"
    /\ IF held = c /\ lines[c].stops # <<>>
       THEN SendLocked(c, [lines[c] EXCEPT !.stops = Tail(@)], Head(lines[c].stops), "interlock")
       ELSE /\ lines' = [lines EXCEPT ![c].writer = "leaving", ![c].stops = <<>>]
            /\ UNCHANGED <<proxy, nextSeq>>
    /\ UNCHANGED <<plan, laser, held, scenario>>

\* The client is gone, or the reader has shut its socket; a partial command is dropped.
WriterEof(c) ==
    /\ lines[c].writer = "run"
    /\ (lines[c].sent = <<>> /\ lines[c].left) \/ lines[c].reader = "gone"
    /\ lines' = [lines EXCEPT ![c].writer = "leaving"]
    /\ UNCHANGED <<plan, laser, proxy, nextSeq, held, scenario>>

WriterLeaves(c) ==
    /\ lines[c].writer = "leaving"
    /\ held' = IF held = c THEN 0 ELSE held
    /\ lines' = [lines EXCEPT ![c].writer = "gone", ![c].sent = <<>>]
    /\ UNCHANGED <<plan, laser, proxy, nextSeq, scenario>>

-------------------------------------------------------------------------------
(* The reader of connection c *)

Waiting(c) == lines[c].reader = "recv" /\ lines[c].pend # <<>>

\* A withheld command is answered with the last real status, in its turn.
ReaderSynthesizes(c) ==
    /\ Waiting(c) /\ Head(lines[c].pend).kind = "synth"
    /\ proxy' = Settle(proxy)
    /\ lines' = [lines EXCEPT ![c].pend = Tail(@), ![c].asked = Tail(@)]
    /\ UNCHANGED <<plan, laser, nextSeq, held, scenario>>

ReaderReads(c) ==
    /\ Waiting(c) /\ Head(lines[c].pend).kind # "synth" /\ lines[c].down # <<>>
    /\ LET p == Head(lines[c].pend)
           again == p.cmd = "clear" /\ p.kind = "forward" /\ proxy.reestop_after_clear > 0
       IN /\ proxy' = Record(proxy, p, Head(lines[c].down))
          /\ lines' = [lines EXCEPT ![c].down = Tail(@),
                                    ![c].reader = IF again THEN "again" ELSE "settle"]
    /\ UNCHANGED <<plan, laser, nextSeq, held, scenario>>

\* The emergency stop engaged again before the client can know of the clear
ReaderReestops(c) ==
    /\ lines[c].reader = "again"
    /\ LET st == [proxy EXCEPT !.reestop_after_clear = @ - 1]
           line == [lines[c] EXCEPT !.reader = "settle"]
       IN IF held = c
          THEN /\ proxy' = Sending(st, "estop", nextSeq)
               /\ nextSeq' = nextSeq + 1
               /\ lines' = [lines EXCEPT ![c] =
                               Queued(line, [seq |-> nextSeq, cmd |-> "estop", kind |-> "swallow"])]
          ELSE /\ proxy' = st
               /\ lines' = [lines EXCEPT ![c] = line]
               /\ UNCHANGED nextSeq
    /\ UNCHANGED <<plan, laser, held, scenario>>

ReaderSettles(c) ==
    /\ lines[c].reader = "settle"
    /\ proxy' = Settle(proxy)
    /\ lines' = [lines EXCEPT ![c].reader = "recv", ![c].pend = Tail(@),
                              ![c].asked = IF Head(lines[c].pend).kind = "forward" THEN Tail(@) ELSE @]
    /\ UNCHANGED <<plan, laser, nextSeq, held, scenario>>

\* No reply comes any more, or every sender of the channel is gone.
ReaderEnds(c) ==
    /\ lines[c].reader = "recv"
    /\ \/ /\ Waiting(c) /\ Head(lines[c].pend).kind # "synth"
          /\ lines[c].dropped /\ lines[c].down = <<>>
       \/ /\ lines[c].pend = <<>> /\ lines[c].writer = "gone" /\ held # c
    /\ lines' = [lines EXCEPT ![c].reader = "drain"]
    /\ UNCHANGED <<plan, laser, proxy, nextSeq, held, scenario>>

ReaderDrains(c) ==
    /\ lines[c].reader = "drain"
    /\ IF lines[c].pend # <<>>
       THEN /\ proxy' = Settle(proxy)
            /\ lines' = [lines EXCEPT ![c].pend = Tail(@)]
       ELSE /\ lines' = [lines EXCEPT ![c].reader = "closing"]
            /\ UNCHANGED proxy
    /\ UNCHANGED <<plan, laser, nextSeq, held, scenario>>

\* What was queued after the drain is lost with the channel.
ReaderCloses(c) ==
    /\ lines[c].reader = "closing"
    /\ lines' = [lines EXCEPT ![c].reader = "gone", ![c].pend = <<>>, ![c].down = <<>>]
    /\ UNCHANGED <<plan, laser, proxy, nextSeq, held, scenario>>

-------------------------------------------------------------------------------
(* The DAC *)

DacHandles(c) ==
    /\ lines[c].up # <<>>
    /\ LET cmd == Head(lines[c].up).cmd IN
          laser' = CASE cmd = "estop" -> [playback |-> "idle", stopped |-> "ours"]
                     [] cmd = "clear" -> [laser EXCEPT !.stopped = "no"]
                     [] cmd = "prepare" /\ laser = [playback |-> "idle", stopped |-> "no"] ->
                            [laser EXCEPT !.playback = "prepared"]
                     [] cmd = "begin" /\ laser.playback = "prepared" -> [laser EXCEPT !.playback = "playing"]
                     [] cmd = "stop" -> [laser EXCEPT !.playback = "idle"]
                     [] OTHER -> laser
    /\ lines' = [lines EXCEPT ![c].up = Tail(@),
                              ![c].down = IF lines[c].reader = "gone" THEN @ ELSE Append(@, Reported(laser', Head(lines[c].up).cmd))]
    /\ UNCHANGED <<plan, proxy, nextSeq, held, scenario>>

PlaysOut ==
    /\ laser.playback = "playing"
    /\ laser' = [laser EXCEPT !.playback = "idle"]
    /\ UNCHANGED <<plan, proxy, nextSeq, held, lines, scenario>>

Button ==
    /\ plan.buttons > 0 /\ laser.stopped = "no" /\ scenario.at # "over"
    /\ plan' = [plan EXCEPT !.buttons = @ - 1]
    /\ laser' = [playback |-> "idle", stopped |-> "button"]
    /\ UNCHANGED <<proxy, nextSeq, held, lines, scenario>>

DacDrops(c) ==
    /\ plan.drops > 0 /\ lines[c].reader \notin {"none", "gone"} /\ ~lines[c].dropped
    /\ plan' = [plan EXCEPT !.drops = @ - 1]
    /\ lines' = [lines EXCEPT ![c].dropped = TRUE, ![c].up = <<>>]
    /\ UNCHANGED <<laser, proxy, nextSeq, held, scenario>>

-------------------------------------------------------------------------------
(* The scenario and main's loop *)

Client == proxy.conns
Shut(c) == lines[c].reader = "gone"

Begin ==
    /\ scenario.at = "begin"
    /\ IF proxy.aborted \/ plan.sends = <<>>
       THEN scenario' = [scenario EXCEPT !.at = "over"] /\ UNCHANGED proxy
       ELSE /\ proxy' = [proxy EXCEPT !.blocked = FALSE, !.reestop_after_clear = 0,
                                      !.estopped = FALSE, !.outstanding = 0]
            /\ scenario' = [at |-> "dial", raw |-> FALSE, todo |-> Head(plan.sends), passed |-> TRUE]
    /\ UNCHANGED <<plan, laser, nextSeq, held, lines>>

\* A scenario that gets no connection ends without leave_idle.
NoConnection == [scenario EXCEPT !.at = IF scenario.raw THEN "left" ELSE "verdict", !.passed = FALSE]

\* open, before and after the DAC accepts; lsof, or the connect, may say no.
OpenRefuses ==
    /\ scenario.at = "dial"
    /\ proxy.aborted \/ plan.others
    /\ proxy' = Abort(proxy)
    /\ scenario' = NoConnection
    /\ UNCHANGED <<plan, laser, nextSeq, held, lines>>

DacAccepts ==
    /\ scenario.at = "dial" /\ ~proxy.aborted /\ proxy.conns < MaxConns
    /\ proxy' = [proxy EXCEPT !.conns = @ + 1]
    /\ lines' = [lines EXCEPT ![proxy.conns + 1].down = <<Reported(laser, "hello")>>]
    /\ scenario' = [scenario EXCEPT !.at = "hello"]
    /\ UNCHANGED <<plan, laser, nextSeq, held>>

OpenGreets ==
    /\ scenario.at = "hello"
    /\ LET hello == lines[Client].down[1]
           busy == hello.playback # "idle"
           st == [Record(proxy, [seq |-> nextSeq], hello) EXCEPT !.allow_busy_hello = FALSE]
       IN /\ nextSeq' = nextSeq + 1
          /\ IF busy /\ ~proxy.allow_busy_hello
             THEN /\ proxy' = Abort(st)
                  /\ lines' = [lines EXCEPT ![Client] = [NoLine EXCEPT !.writer = "gone", !.reader = "gone"]]
                  /\ scenario' = NoConnection
                  /\ UNCHANGED held
             ELSE /\ proxy' = st
                  /\ held' = Client
                  /\ lines' = [lines EXCEPT ![Client] = [NoLine EXCEPT !.writer = "run", !.reader = "recv"]]
                  /\ scenario' = [scenario EXCEPT !.at = "session",
                                       !.todo = IF scenario.raw THEN StopCmds(hello) ELSE @]
    /\ UNCHANGED <<plan, laser>>

\* The backend or the raw client: at most `window` commands ahead of their replies
ClientSends ==
    /\ scenario.at = "session" /\ scenario.todo # <<>> /\ ~Shut(Client)
    /\ Len(lines[Client].asked) < IF scenario.raw THEN 1 ELSE plan.window
    /\ LET cmd == Head(scenario.todo) IN
          lines' = [lines EXCEPT ![Client].sent = Append(@, cmd), ![Client].asked = Append(@, cmd)]
    /\ scenario' = [scenario EXCEPT !.todo = Tail(@)]
    /\ UNCHANGED <<plan, laser, proxy, nextSeq, held>>

\* A command that the gate holds back is blocked: there is no client to answer.
Inject ==
    /\ scenario.at = "session" /\ ~scenario.raw /\ Head(plan.injects) # <<>>
    /\ plan' = [plan EXCEPT !.injects[1] = Tail(@)]
    /\ LET cmd == Head(Head(plan.injects)) IN
          IF held = 0 THEN UNCHANGED <<proxy, nextSeq, lines>>
          ELSE IF EstopGated(cmd)
          THEN /\ proxy' = [proxy EXCEPT !.blocked = TRUE]
               /\ nextSeq' = nextSeq + 1
               /\ UNCHANGED lines
          ELSE SendLocked(held, lines[held], cmd, "swallow")
    /\ UNCHANGED <<laser, held, scenario>>

\* The scenario asks for the stop to be engaged again after the client's clear.
AskReestop ==
    /\ scenario.at = "session" /\ ~scenario.raw /\ plan.reestops > 0
    /\ plan' = [plan EXCEPT !.reestops = 0]
    /\ proxy' = [proxy EXCEPT !.reestop_after_clear = plan.reestops]
    /\ UNCHANGED <<laser, nextSeq, held, lines, scenario>>

\* The client has its answers or has lost the connection; leave_idle judges by the last status.
ClientLeaves ==
    /\ scenario.at = "session"
    /\ \/ Shut(Client)
       \/ /\ scenario.todo = <<>> /\ lines[Client].asked = <<>>
          /\ scenario.raw \/ Head(plan.injects) = <<>>
    /\ lines' = [lines EXCEPT ![Client].left = TRUE, ![Client].asked = <<>>]
    /\ scenario' = [scenario EXCEPT !.at = IF scenario.raw THEN "left" ELSE "quiet", !.todo = <<>>,
                        !.passed = @ /\ (scenario.raw => proxy.last.playback = "idle")]
    /\ UNCHANGED <<plan, laser, proxy, nextSeq, held>>

\* wait_quiet, which gives up on a reply that nobody is left to read
Quiet == held = 0 /\ (proxy.outstanding = 0 \/ \A c \in 1..proxy.conns : Shut(c))

LeaveIdle ==
    /\ scenario.at = "quiet" /\ Quiet
    /\ proxy' = [proxy EXCEPT !.allow_busy_hello = @ \/ proxy.last.playback # "idle"]
    /\ scenario' = [scenario EXCEPT !.at = "dial", !.raw = TRUE]
    /\ UNCHANGED <<plan, laser, nextSeq, held, lines>>

LeftIdle ==
    /\ scenario.at = "left" /\ Quiet
    /\ proxy' = [proxy EXCEPT !.allow_busy_hello = FALSE]
    /\ scenario' = [scenario EXCEPT !.at = "verdict"]
    /\ UNCHANGED <<plan, laser, nextSeq, held, lines>>

Verdict ==
    /\ scenario.at = "verdict"
    /\ scenario' = [scenario EXCEPT !.at = "begin",
                        !.passed = @ /\ ~proxy.aborted /\ ~proxy.blocked]
    /\ plan' = [plan EXCEPT !.sends = Tail(@), !.injects = Tail(@)]
    /\ UNCHANGED <<laser, proxy, nextSeq, held, lines>>

HwOver == scenario.at = "over"

HwNext ==
    \/ Begin \/ OpenRefuses \/ DacAccepts \/ OpenGreets \/ ClientSends \/ Inject \/ AskReestop
    \/ ClientLeaves \/ LeaveIdle \/ LeftIdle \/ Verdict \/ PlaysOut \/ Button
    \/ \E c \in Ids :
          \/ WriterForwards(c) \/ WriterRefuses(c) \/ RefuseStops(c) \/ WriterEof(c) \/ WriterLeaves(c)
          \/ ReaderSynthesizes(c) \/ ReaderReads(c) \/ ReaderReestops(c) \/ ReaderSettles(c)
          \/ ReaderEnds(c) \/ ReaderDrains(c) \/ ReaderCloses(c)
          \/ DacHandles(c) \/ DacDrops(c)

-------------------------------------------------------------------------------
(* Properties *)

\* estop_gated and estop_seq: nothing but ping, clear and another emergency stop is forwarded to,
\* or injected into, a DAC that a command through the proxy has stopped; refuse's stop is not gated.
GateHeld ==
    \A c \in Ids : \A i \in 1..Len(lines[c].up) :
        LET p == lines[c].up[i] IN
        i = 1 /\ laser.stopped = "ours" /\ p.kind \in {"forward", "swallow"} =>
            p.cmd \in {"ping", "clear", "estop"}

\* reader: a reply read belongs to the command it is recorded under, and one handed to the client,
\* forwarded or synthesized, answers the client's oldest open command.
RepliesInTurn ==
    \A c \in Ids : lines[c].reader \in {"recv", "again", "settle"} /\ lines[c].pend # <<>> =>
        LET p == Head(lines[c].pend) IN
        /\ (lines[c].reader = "recv" /\ p.kind # "synth" /\ lines[c].down # <<>>)
              => Head(lines[c].down).cmd = p.cmd
        /\ (p.kind \in {"forward", "synth"} /\ lines[c].asked # <<>>) => p.cmd = Head(lines[c].asked)

\* leave_idle: a scenario that passes has left the DAC idle.
IdleTruth ==
    (scenario.passed /\ scenario.raw /\ scenario.at \in {"left", "verdict", "begin"})
        => laser.playback = "idle"

\* refuse: with at most one command open, a refused command has the DAC stopped by the time its
\* connection is closed.
RefusalStops ==
    \A c \in Ids :
        (/\ lines[c].refused /\ plan.window = 1 /\ Shut(c) /\ lines[c].writer = "gone"
         /\ ~lines[c].dropped /\ c = proxy.conns)
            => laser.playback = "idle"

Interlocked == GateHeld /\ RepliesInTurn /\ IdleTruth /\ RefusalStops

===============================================================================
