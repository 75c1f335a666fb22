-------------------------- MODULE OscilloscopeBackend --------------------------
(***************************************************************************)
(* An oscilloscope on a stereo sound card                                  *)
(* (protocols/oscilloscope/backend.rs): the pipeline thread, the audio     *)
(* thread of each connection, and the callbacks of its stream.  They share *)
(* the ring and plain flags; there is no session around the audio system   *)
(* and nothing happens to the thread of a backend that is dropped.         *)
(***************************************************************************)
EXTENDS AudioSink

VARIABLES
    scope,      \* the pipeline thread: mode, where it is in a call, its connections
    th,         \* [Conns -> where the audio thread is]
    connected, muted, stop_flag,    \* [Conns -> BOOLEAN]
    gone,       \* [Conns -> BOOLEAN]: the stream's device was unplugged
    reported,   \* [Conns -> BOOLEAN]: and the error callback has run
    present, losses                 \* the device is plugged in; times it was unplugged

flagVars == <<connected, muted, stop_flag>>
streamVars == <<th, gone, reported>>
scopeVars == <<scope, flagVars, streamVars, present, losses>>

NoScope == 0

ScopeTypeOK ==
    /\ SinkTypeOK
    /\ scope \in [mode : {"lost", "run", "ending", "ended"},
                  at : {"idle", "wait", "give_up", "push", "join"},
                  cur : Conns \cup {NoScope}, cand : Conns \cup {NoScope}]
    /\ th \in [Conns -> {"none", "opening", "mark", "run"}]
    /\ {connected, muted, stop_flag, gone, reported} \subseteq [Conns -> BOOLEAN]
    /\ present \in BOOLEAN /\ losses \in Nat

\* A session that looks for its device, or that there is none of.
ScopeInit(mode) ==
    /\ scope = [mode |-> mode, at |-> "idle", cur |-> NoScope, cand |-> NoScope]
    /\ th = [c \in Conns |-> "none"]
    /\ connected = [c \in Conns |-> FALSE] /\ muted = [c \in Conns |-> TRUE]
    /\ stop_flag = [c \in Conns |-> FALSE]
    /\ gone = [c \in Conns |-> FALSE] /\ reported = [c \in Conns |-> FALSE]
    /\ present = TRUE /\ losses = 0

Idle(mode) == scope.mode = mode /\ scope.at = "idle"
ScopeConnected == scope.cur # NoScope /\ connected[scope.cur]
HasStream(c) == th[c] \in {"mark", "run"}

-------------------------------------------------------------------------------
(* connect() *)

\* The device was found again. The connection is a new backend, runtime and thread
\* (bound: one of Conns is free).
ScopeSpawn(rate) ==
    LET free == {c \in Conns \ {scope.cur} : th[c] = "none"}
    IN  /\ Idle("lost") /\ present
        /\ \E c \in free :
              /\ \A d \in free : c <= d
              /\ scope' = [scope EXCEPT !.at = "wait", !.cand = c]
              /\ th' = [th EXCEPT ![c] = "opening"]
              /\ connected' = [connected EXCEPT ![c] = FALSE]
              /\ muted' = [muted EXCEPT ![c] = TRUE]
              /\ stop_flag' = [stop_flag EXCEPT ![c] = FALSE]
              /\ gone' = [gone EXCEPT ![c] = FALSE]
              /\ reported' = [reported EXCEPT ![c] = FALSE]
              /\ NewRing(c, rate)
        /\ Reset /\ UNCHANGED <<pushing, present, losses>>

\* The driver takes the connection; the backend it had is dropped.
ScopeAccept ==
    /\ scope.at = "wait" /\ connected[scope.cand]
    /\ scope' = [mode |-> "run", at |-> "idle", cur |-> scope.cand, cand |-> NoScope]
    /\ muted' = [muted EXCEPT ![scope.cand] = TRUE]
    /\ UNCHANGED <<connected, stop_flag, streamVars, present, losses, sinkVars>>

\* Five seconds have passed; a thread that failed says no more than one that is slow.
ScopeTimeout ==
    /\ scope.at = "wait" /\ ~connected[scope.cand]
    /\ stop_flag' = [stop_flag EXCEPT ![scope.cand] = TRUE]
    /\ scope' = [scope EXCEPT !.at = "give_up"]
    /\ UNCHANGED <<connected, muted, streamVars, present, losses, sinkVars>>

ScopeGiveUp ==
    /\ scope.at = "give_up" /\ th[scope.cand] = "none"
    /\ scope' = [scope EXCEPT !.at = "idle", !.cand = NoScope]
    /\ UNCHANGED <<flagVars, streamVars, present, losses, sinkVars>>

-------------------------------------------------------------------------------
(* The driver with a connection *)

ScopeNoticeLoss ==
    /\ Idle("run") /\ ~ScopeConnected
    /\ scope' = [scope EXCEPT !.mode = "lost"]
    /\ UNCHANGED <<flagVars, streamVars, present, losses, sinkVars>>

ScopeShutter(open) ==
    /\ Idle("run") /\ muted[scope.cur] = open
    /\ muted' = [muted EXCEPT ![scope.cur] = ~open]
    /\ UNCHANGED <<scope, connected, stop_flag, streamVars, present, losses, sinkVars>>

ScopeWrite(pps, len, max_in) ==
    /\ Idle("run") /\ ScopeConnected /\ n_in + len <= max_in
    /\ \/ Reserve(scope.cur, pps, len)
          /\ scope' = [scope EXCEPT !.at = IF pushing' > 0 THEN "push" ELSE "idle"]
       \/ Block(scope.cur, pps, len) /\ UNCHANGED scope
    /\ UNCHANGED <<flagVars, streamVars, present, losses>>

ScopePush ==
    /\ scope.at = "push" /\ PushPoint(scope.cur)
    /\ scope' = [scope EXCEPT !.at = IF pushing = 1 THEN "idle" ELSE "push"]
    /\ UNCHANGED <<flagVars, streamVars, present, losses>>

\* disconnect(), as far as the join.
ScopeAsk(mode) ==
    /\ stop_flag' = [stop_flag EXCEPT ![scope.cur] = TRUE]
    /\ scope' = [scope EXCEPT !.mode = mode, !.at = "join"]

\* The adapter gives up a backend that takes no points.
ScopeStalled(pps, len) ==
    /\ Idle("run") /\ ScopeConnected /\ ~Fits(scope.cur, pps, len)
    /\ gone[scope.cur] \/ PendingOutputCount(pps, sample_rate[scope.cur], len) > Capacity
    /\ ScopeAsk("run")
    /\ UNCHANGED <<connected, muted, streamVars, present, losses, sinkVars>>

\* end_session: stop() and disconnect(), or a drop. stop() keeps what is queued.
ScopeEnd ==
    /\ Idle("run") \/ Idle("lost")
    /\ IF ScopeConnected
       THEN /\ ScopeAsk("ending") /\ muted' = [muted EXCEPT ![scope.cur] = TRUE]
            /\ Reset /\ UNCHANGED <<queue, sample_rate, pushing>>
       ELSE /\ scope' = [scope EXCEPT !.mode = "ended", !.cur = NoScope]
            /\ UNCHANGED <<stop_flag, muted, sinkVars>>
    /\ UNCHANGED <<connected, streamVars, present, losses>>

ScopeJoined ==
    /\ scope.at = "join" /\ th[scope.cur] = "none"
    /\ scope' = [mode |-> IF scope.mode = "ending" THEN "ended" ELSE "lost",
                 at |-> "idle", cur |-> NoScope, cand |-> NoScope]
    /\ ClearQueue(scope.cur) /\ Reset
    /\ UNCHANGED <<sample_rate, pushing, flagVars, streamVars, present, losses>>

-------------------------------------------------------------------------------
(* run_audio_thread and the callbacks *)

OpenStream(c) ==
    /\ th[c] = "opening"
    /\ th' = [th EXCEPT ![c] = IF present THEN "mark" ELSE "none"]
    /\ UNCHANGED <<scope, flagVars, gone, reported, present, losses, sinkVars>>

\* A loss that was reported before this is forgotten.
MarkConnected(c) ==
    /\ th[c] = "mark"
    /\ th' = [th EXCEPT ![c] = "run"]
    /\ connected' = [connected EXCEPT ![c] = TRUE]
    /\ UNCHANGED <<scope, muted, stop_flag, gone, reported, present, losses, sinkVars>>

AudioThreadEnds(c) ==
    /\ th[c] = "run" /\ stop_flag[c]
    /\ th' = [th EXCEPT ![c] = "none"]
    /\ connected' = [connected EXCEPT ![c] = FALSE]
    /\ UNCHANGED <<scope, muted, stop_flag, gone, reported, present, losses, sinkVars>>

AudioThread(c) == OpenStream(c) \/ MarkConnected(c) \/ AudioThreadEnds(c)

\* next_output takes a sample whether it is muted or not.
NextOutput(c) ==
    /\ HasStream(c) /\ ~gone[c] /\ queue[c] > 0
    /\ Pop(c)
    /\ UNCHANGED scopeVars

ErrCallback(c) ==
    /\ HasStream(c) /\ gone[c] /\ ~reported[c]
    /\ connected' = [connected EXCEPT ![c] = FALSE]
    /\ reported' = [reported EXCEPT ![c] = TRUE]
    /\ UNCHANGED <<scope, muted, stop_flag, th, gone, present, losses, sinkVars>>

ScopeUnplug(max) ==
    /\ present /\ losses < max
    /\ present' = FALSE /\ losses' = losses + 1
    /\ gone' = [c \in Conns |-> gone[c] \/ HasStream(c)]
    /\ UNCHANGED <<scope, flagVars, th, reported, sinkVars>>

ScopePlug ==
    /\ ~present /\ present' = TRUE
    /\ UNCHANGED <<scope, flagVars, streamVars, losses, sinkVars>>

\* The environment: rates written, rates of the device, how many points and losses.
ScopeNext(env) ==
    \/ ScopeAccept \/ ScopeTimeout \/ ScopeGiveUp \/ ScopeNoticeLoss \/ ScopePush
    \/ ScopeEnd \/ ScopeJoined \/ ScopeUnplug(env.unplugs) \/ ScopePlug
    \/ \E rate \in env.outs : ScopeSpawn(rate)
    \/ \E open \in BOOLEAN : ScopeShutter(open)
    \/ \E pps \in env.pps, len \in ChunkLens :
          ScopeWrite(pps, len, env.max_in) \/ ScopeStalled(pps, len)
    \/ \E c \in Conns : AudioThread(c) \/ NextOutput(c) \/ ErrCallback(c)

\* Both threads go on, and a call that waits for the other waits no longer than that.
ScopeFairness ==
    /\ WF_<<scopeVars, sinkVars>>(ScopeAccept \/ ScopeTimeout \/ ScopeGiveUp \/ ScopePush \/ ScopeJoined)
    /\ \A c \in Conns : WF_<<scopeVars, sinkVars>>(AudioThread(c))

-------------------------------------------------------------------------------
\* A stream no backend owns any more has lost its device: nothing goes on drawing
\* that the driver cannot reach (the backend has no Drop, so a thread it forgets
\* plays on for ever).
AbandonedSilent ==
    \A c \in Conns : (HasStream(c) /\ c \notin {scope.cur, scope.cand}) => gone[c]
===============================================================================
