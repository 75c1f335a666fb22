------------------------------ MODULE IdnReceiver ------------------------------
(***************************************************************************)
(* The IDN receiver of the crate (receiver/server.rs and parser.rs): one   *)
(* logical client at a time, told apart by IP address, and a parser that   *)
(* keeps the channel configuration of every source address.                *)
(*                                                                         *)
(* A datagram is a record: the socket it comes from, its command, whether  *)
(* its sequence number is that of the request its sender is waiting on     *)
(* (fresh), and, for a channel message, the chunk type, the configuration  *)
(* it carries, the point format and service data match of its samples and  *)
(* how many there are.                                                     *)
(***************************************************************************)
EXTENDS IdnParser, Sequences

CONSTANTS
    Sockets,      \* the sockets of the modelled host, one per connection
    LinkTimeout,  \* ticks: ServerConfig::link_timeout
    BanWindow     \* ticks: ServerConfig::force_disconnect_window

ASSUME ReceiverAssumption ==
    /\ 0 \notin Sockets
    /\ {LinkTimeout, BanWindow} \subseteq Nat \ {0}

\* Another host, which streams from a single socket.
Stranger == 0
Sources == Sockets \cup {Stranger}

VARIABLES
    up,        \* the server runs
    excluded,  \* behavior.is_excluded()
    occupied,  \* behavior.is_occupied(): a second client is turned away
    client,    \* last_client_ip: "none", "host" or "stranger"
    quiet,     \* ticks since last_activity
    banned,    \* ticks left in which the host's packets are ignored
    channels,  \* parser.channels: source -> ChannelState
    rendered,  \* a chunk from the host's socket in use was decoded since the last tick
    misread    \* a chunk was decoded in a format that is not its own

receiverVars == <<up, excluded, occupied, client, quiet, banned, channels, rendered, misread>>

IpOf(src) == IF src = Stranger THEN "stranger" ELSE "host"

ReceiverTypeOK ==
    /\ {up, excluded, occupied, rendered} \subseteq BOOLEAN
    /\ misread \in SUBSET {"headed", "sequel"}
    /\ client \in {"none", "host", "stranger"}
    /\ quiet \in 0..LinkTimeout
    /\ banned \in 0..BanWindow
    /\ channels \in [Sources -> ChannelState]

NoChannels == [s \in Sources |-> NoState]

ReceiverInit(exclusive) ==
    /\ up = TRUE /\ excluded = FALSE /\ occupied = exclusive
    /\ client = "none" /\ quiet = 0 /\ banned = 0
    /\ channels = NoChannels
    /\ rendered = FALSE /\ misread = {}

-------------------------------------------------------------------------------
(* The server.  Each handler says how it leaves the state and which reply, *)
(* if any, it sends; `inUse` is the socket whose output is watched.        *)

NoReply == <<>>
Reply(d, cmd, ok) == <<[cmd |-> cmd, fresh |-> d.fresh, ok |-> ok]>>

\* The client is gone: the server forgets it and every channel.
Forget ==
    /\ client' = "none" /\ quiet' = 0 /\ channels' = NoChannels

HandleChannelMessage(d, inUse, reply) ==
    LET ackreq == d.cmd = "cnlmsg_ackreq"
        refused == excluded \/ (occupied /\ client # "none" /\ client # IpOf(d.src))
        parsed == Parse(d, channels[d.src])
    IN  IF refused
        THEN /\ reply = IF ackreq THEN Reply(d, "ack", FALSE) ELSE NoReply
             /\ UNCHANGED <<client, quiet, channels, rendered, misread>>
        ELSE /\ client' = IpOf(d.src)
             /\ quiet' = 0
             /\ channels' = [channels EXCEPT ![d.src] = parsed.state]
             /\ rendered' = (rendered \/ (parsed.chunk /\ d.src = inUse))
             /\ misread' = IF parsed.chunk /\ parsed.as # d.format
                           THEN misread \cup {IF d.type = "FrameSequel" THEN "sequel" ELSE "headed"}
                           ELSE misread
             /\ reply = IF ackreq THEN Reply(d, "ack", TRUE) ELSE NoReply

\* RT_CNLMSG_CLOSE and its acknowledged form: only the client's own address counts.
HandleClose(d, reply) ==
    /\ IF client = IpOf(d.src) THEN Forget ELSE UNCHANGED <<client, quiet, channels>>
    /\ reply = IF d.cmd = "close_ackreq" THEN Reply(d, "ack", TRUE) ELSE NoReply
    /\ UNCHANGED <<rendered, misread>>

\* A ping is answered whoever sends it, and is no activity of the client.
HandlePing(d, reply) ==
    /\ reply = Reply(d, "pong", TRUE)
    /\ UNCHANGED <<client, quiet, channels, rendered, misread>>

\* run(), from a datagram in hand.
HandleDatagram(d, inUse, reply) ==
    /\ IF ~up \/ (banned > 0 /\ IpOf(d.src) = "host")
       THEN reply = NoReply /\ UNCHANGED <<client, quiet, channels, rendered, misread>>
       ELSE CASE d.cmd = "ping" -> HandlePing(d, reply)
              [] d.cmd \in {"cnlmsg", "cnlmsg_ackreq"} -> HandleChannelMessage(d, inUse, reply)
              [] d.cmd \in {"close", "close_ackreq"} -> HandleClose(d, reply)
    /\ UNCHANGED <<up, excluded, occupied, banned>>

\* should_force_disconnect
ForceDisconnect ==
    /\ up /\ client # "none"
    /\ Forget
    /\ banned' = IF client = "host" THEN BanWindow ELSE banned
    /\ UNCHANGED <<up, excluded, occupied, rendered, misread>>

\* The checks run() makes before each receive, as time passes.
ReceiverTick ==
    /\ banned' = IF banned > 0 THEN banned - 1 ELSE 0
    /\ rendered' = FALSE
    /\ IF up /\ client # "none" /\ quiet = LinkTimeout
       THEN Forget
       ELSE /\ quiet' = IF client = "none" THEN 0 ELSE quiet + 1
            /\ UNCHANGED <<client, channels>>
    /\ UNCHANGED <<up, excluded, occupied, misread>>

\* The server stops, or a new one starts in its place.
SetPower(on) ==
    /\ up' = on
    /\ Forget
    /\ banned' = 0
    /\ UNCHANGED <<excluded, occupied, rendered, misread>>

SetExcluded(on) ==
    /\ excluded' = on
    /\ UNCHANGED <<up, occupied, client, quiet, banned, channels, rendered, misread>>
===============================================================================
