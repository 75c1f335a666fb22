------------------------------- MODULE IdnStream -------------------------------
(***************************************************************************)
(* A streaming connection of the host (idn/dac/stream.rs) and the network  *)
(* that carries its datagrams.  Every operation is given in two outcomes,  *)
(* the datagrams are handed to the network or the socket reports an error, *)
(* since the code updates part of its state before the send.               *)
(*                                                                         *)
(* Sequence numbers are kept as what recv_matching uses them for: whether  *)
(* a datagram belongs to the request being waited on.  The timestamps of   *)
(* the same functions are the subject of IdnClock.                         *)
(***************************************************************************)
EXTENDS IdnReceiver

CONSTANTS
    ConfigRefresh,     \* ticks: CONFIG_REFRESH_INTERVAL
    KeepaliveInterval, \* ticks: KEEPALIVE_INTERVAL
    MaxWithConfig,     \* points that fit a datagram with a configuration
    MaxPlain           \* points that fit one without

ASSUME StreamAssumption ==
    /\ {ConfigRefresh, KeepaliveInterval, MaxWithConfig, MaxPlain} \subseteq Nat \ {0}
    /\ MaxWithConfig <= MaxPlain

VARIABLES
    socket,           \* the socket of the stream
    opened,           \* a stream exists and is not closed
    point_format,
    frame_mode,
    previous_format,  \* "none" until a configuration is written
    sdm,              \* service_data_match & 1
    framed,           \* frame_count > 0
    config_age,       \* ticks since last_config_time, at most ConfigRefresh
    send_age,         \* ticks since last_send_time, at most KeepaliveInterval; -1 for None
    net,              \* datagrams on their way to the receiver
    inbox             \* replies on their way to the stream's socket

streamVars == <<socket, opened, point_format, frame_mode, previous_format, sdm, framed,
                config_age, send_age, net, inbox>>

Datagram ==
    [src : Sources, cmd : {"ping", "cnlmsg", "cnlmsg_ackreq", "close", "close_ackreq"},
     fresh : BOOLEAN, type : {"Void", "Wave", "Frame", "FrameFirst", "FrameSequel"},
     config : [routing : BOOLEAN, close : BOOLEAN, format : Formats \cup {"none"},
               sdm : {0, 1}, mode : {"none", "Continuous", "Discrete"}],
     format : Formats, sdm : {0, 1}, n : 0..MaxPlain]

StreamTypeOK ==
    /\ socket \in Sockets
    /\ {opened, framed} \subseteq BOOLEAN
    /\ point_format \in Formats /\ previous_format \in Formats \cup {"none"}
    /\ frame_mode \in {"Wave", "Frame"}
    /\ sdm \in {0, 1}
    /\ config_age \in 0..ConfigRefresh
    /\ send_age \in -1..KeepaliveInterval
    /\ net \in Seq(Datagram)
    /\ inbox \in Seq([cmd : {"ack", "pong"}, fresh : BOOLEAN, ok : BOOLEAN])

\* connect_with_group: a new socket and a stream that has sent nothing. What the
\* network still holds of an earlier stream stays on its way.
Fresh(s, f) ==
    /\ socket' = s /\ opened' = TRUE
    /\ point_format' = f /\ frame_mode' = "Wave" /\ previous_format' = "none"
    /\ sdm' = 0 /\ framed' = FALSE /\ config_age' = 0 /\ send_age' = -1
    /\ inbox' = <<>>

StreamInit ==
    /\ socket = CHOOSE s \in Sockets : \A t \in Sockets : s <= t
    /\ opened = FALSE
    /\ point_format = (CHOOSE f \in Formats : \A g \in Formats : SampleSize[f] <= SampleSize[g])
    /\ frame_mode = "Wave" /\ previous_format = "none"
    /\ sdm = 0 /\ framed = FALSE /\ config_age = 0 /\ send_age = -1
    /\ net = <<>> /\ inbox = <<>>

-------------------------------------------------------------------------------
(* Datagrams *)

ServiceMode == IF frame_mode = "Wave" THEN "Continuous" ELSE "Discrete"

Message(cmd, fresh, type, config, match, n) ==
    [src |-> socket, cmd |-> cmd, fresh |-> fresh, type |-> type, config |-> config,
     format |-> point_format, sdm |-> match, n |-> n]

\* write_config
ConfigWith(match) ==
    [routing |-> TRUE, close |-> FALSE, format |-> point_format, sdm |-> match,
     mode |-> ServiceMode]

\* Faulty variant: the match stays as it is when the format changes.
MatchNowKept == sdm

\* prepare_points: a change of format changes the service data match.
MatchNow == IF previous_format # point_format THEN 1 - sdm ELSE sdm

\* Faulty variant: the configuration is sent once.
NeedsConfigOnce == ~framed \/ previous_format # point_format

NeedsConfig ==
    \/ ~framed
    \/ previous_format # point_format
    \/ config_age >= ConfigRefresh

CeilDiv(a, b) == (a + b - 1) \div b

\* write_frame_continuation: the rest of a Wave chunk, as evenly as the floor allows.
Continuation[n \in Nat] ==
    IF n = 0 THEN <<>>
    ELSE LET k == n \div CeilDiv(n, MaxPlain) IN <<k>> \o Continuation[n - k]

\* Points in the first datagram, and in those that follow it.
FirstPart(n) == n \div CeilDiv(n, IF NeedsConfig THEN MaxWithConfig ELSE MaxPlain)

\* write_frame_fragmented: `rem` fragments take one more.
Fragments(n) ==
    LET k == CeilDiv(n, IF NeedsConfig THEN MaxWithConfig ELSE MaxPlain)
    IN  [i \in 1..k |-> (n \div k) + IF i <= n % k THEN 1 ELSE 0]

FragmentType(i, k) ==
    IF k = 1 THEN "Frame" ELSE IF i = 1 THEN "FrameFirst" ELSE "FrameSequel"

\* The first datagram of a frame, with the configuration if it is due.
FirstMessage(cmd, fresh, type, n) ==
    Message(cmd, fresh, type, IF NeedsConfig THEN ConfigWith(MatchNow) ELSE NoConfig, MatchNow, n)

\* The datagrams that follow the first. Those of a Wave chunk are chunks of their
\* own; sequel fragments have no header, and their match is never read.
Rest(n) ==
    IF frame_mode = "Wave"
    THEN LET counts == Continuation[n - FirstPart(n)]
         IN  [i \in 1..Len(counts) |->
                Message("cnlmsg", FALSE, "Wave", NoConfig, MatchNow, counts[i])]
    ELSE LET counts == Fragments(n)
         IN  [i \in 1..(Len(counts) - 1) |->
                Message("cnlmsg", FALSE, "FrameSequel", NoConfig, MatchNow, counts[i + 1])]

First(cmd, fresh, n) ==
    IF frame_mode = "Wave"
    THEN FirstMessage(cmd, fresh, "Wave", FirstPart(n))
    ELSE LET counts == Fragments(n)
         IN  FirstMessage(cmd, fresh, FragmentType(1, Len(counts)), counts[1])

-------------------------------------------------------------------------------
(* Operations *)

\* No reply still on its way is to the next request.
Stale(s) == [i \in DOMAIN s |-> [s[i] EXCEPT !.fresh = FALSE]]

\* What the stream records of a frame: the configuration counts as sent once it is
\* in the packet buffer, the frame only once the socket took it.
Framing(sent) ==
    /\ sdm' = MatchNow
    /\ IF NeedsConfig
       THEN previous_format' = point_format /\ config_age' = 0
       ELSE UNCHANGED <<previous_format, config_age>>
    /\ framed' = (framed \/ sent)
    /\ send_age' = IF sent THEN 0 ELSE send_age
    /\ UNCHANGED <<socket, opened, point_format, frame_mode>>

\* write_frame
WriteFrame(n, sent) ==
    /\ Framing(sent)
    /\ net' = IF sent THEN net \o <<First("cnlmsg", FALSE, n)>> \o Rest(n) ELSE net
    /\ UNCHANGED inbox

\* write_frame_with_ack up to the wait for the acknowledgment. Only in Frame mode is
\* the whole frame sent before it.
WriteFrameAckreq(n, sent) ==
    /\ Framing(sent)
    /\ net' = IF sent
              THEN Stale(net) \o <<First("cnlmsg_ackreq", TRUE, n)>>
                   \o (IF frame_mode = "Frame" THEN Rest(n) ELSE <<>>)
              ELSE net
    /\ inbox' = Stale(inbox)

\* The datagrams that write_frame_with_ack sends once the acknowledgment is there.
AfterAck(rest) ==
    /\ net' = net \o rest
    /\ send_age' = IF rest # <<>> THEN 0 ELSE send_age

SendPing(sent) ==
    /\ net' = IF sent THEN Append(Stale(net), Message("ping", TRUE, "Void", NoConfig, sdm, 0))
                      ELSE net
    /\ inbox' = Stale(inbox)
    /\ send_age' = IF sent THEN 0 ELSE send_age
    /\ UNCHANGED <<socket, opened, point_format, frame_mode, previous_format, sdm, framed, config_age>>

NeedsKeepalive == send_age >= KeepaliveInterval

VoidMessage == Message("cnlmsg", FALSE, "Void", NoConfig, sdm, 0)

SendKeepalive ==
    /\ net' = Append(net, VoidMessage)
    /\ send_age' = 0

\* close, and the close of a stream that is dropped: the channel, then the session.
CloseMessages ==
    << Message("cnlmsg", FALSE, "Void", [NoConfig EXCEPT !.close = TRUE], sdm, 0),
       Message("close", FALSE, "Void", NoConfig, sdm, 0) >>

SetPointFormat(f) == point_format' = f
SetFrameMode(m) == frame_mode' = m

\* Faulty variant: any reply of the right kind will do.
AnswersAnyhow(r, cmd) == r.cmd = cmd

\* recv_matching takes the head of the inbox: the reply waited for, or one to discard.
Answers(r, cmd) == r.fresh /\ r.cmd = cmd

StreamTick ==
    /\ config_age' = IF config_age < ConfigRefresh THEN config_age + 1 ELSE config_age
    /\ send_age' = IF send_age \in 0..(KeepaliveInterval - 1) THEN send_age + 1 ELSE send_age
    /\ UNCHANGED <<socket, opened, point_format, frame_mode, previous_format, sdm, framed, net, inbox>>
===============================================================================
