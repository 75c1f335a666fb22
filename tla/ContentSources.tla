----------------------------- MODULE ContentSources -----------------------------
(***************************************************************************)
(* The two content sources between an application and an output adapter:   *)
(* SlicePipeline (frames, presentation/slice_pipeline.rs) on FIFO and on   *)
(* frame-swap backends, and ChunkProducer (a callback,                     *)
(* stream/chunk_producer.rs).  The driver's calls come in any order here:  *)
(* which orders it really makes is module SessionDriver.                   *)
(*                                                                         *)
(* A composed slice is the sequence of its points (buffer) and the         *)
(* sequence of their colours after blanking and colour delay (colors).     *)
(* Everything an application draws is lit; Lit and Dark are the colours.   *)
(* A raw point of a callback chunk is <<"idle">> or <<"user", k>> with a    *)
(* name k of the chunk that tells it from the chunk written last.          *)
(***************************************************************************)
EXTENDS PresentationEngine

CONSTANTS
    Lit,
    Kinds,        \* the sources in use: a subset of SourceKinds
    BlankPoints,  \* the startup-blank window, in points
    MaxDelay,     \* bound: points of colour delay
    MaxChunk,     \* bound: points asked for at once
    Names         \* the names of callback chunks

SourceKinds == {"fifo", "swap", "stream"}

ASSUME SourceAssumption ==
    /\ Lit # Dark
    /\ Kinds # {} /\ Kinds \subseteq SourceKinds
    /\ BlankPoints \in Nat /\ MaxDelay \in Nat
    /\ MaxChunk \in Nat \ {0}
    /\ Names # {}

VARIABLES
    kind,        \* which source this is
    repeat,      \* its idle policy is RepeatLast
    delay,       \* the colour delay asked for, in points
    carry,       \* ColorDelayLine::carry
    blank_left,  \* startup_blank_remaining
    colors,      \* the colours of the cached slice, which waits to be written
    last_frame,  \* last_pending_frame
    raw,         \* pending_raw
    last_chunk,  \* last_chunk, for RepeatLast
    ended,       \* ended
    \* history
    fresh,       \* the name of the chunk produced last
    clean,       \* nothing lit was composed since the last reset of the carry
    owed,        \* points that have still to be dark after an arm
    for_armed,   \* the armed flag the slice was composed for
    written      \* names of chunks written while armed, on this connection

delayVars == <<delay, carry, blank_left, colors, clean, owed, for_armed>>
chunkVars == <<raw, last_chunk, ended, fresh, written>>
vars == <<engineVars, kind, repeat, delayVars, chunkVars, last_frame>>

IsStream == kind = "stream"

-------------------------------------------------------------------------------
(* What the application does *)

SubmitFrame(f) ==
    /\ pc = "idle"
    /\ ~IsStream
    /\ SetPending(f)
    /\ last_frame' = f
    /\ UNCHANGED <<fillVars, kind, repeat, delayVars, chunkVars>>

\* Less delay takes away from the darkness that the delay itself provides.
SetColorDelay(d) ==
    /\ pc = "idle"
    /\ delay' = d
    /\ owed' = IF d < delay THEN owed - Lesser(owed, delay - d) ELSE owed
    /\ UNCHANGED <<engineVars, kind, repeat, carry, blank_left, colors, clean, for_armed,
                   chunkVars, last_frame>>

-------------------------------------------------------------------------------
(* What the driver does *)

\* Faulty variant: the falling cleanup leaves the colour delay line alone.
OnDisarmKeepsCarry ==
    /\ pc = "idle"
    /\ colors' = <<>>
    /\ clean' = TRUE
    /\ UNCHANGED <<engineVars, kind, repeat, delay, carry, blank_left, owed, for_armed,
                   chunkVars, last_frame>>

\* The falling cleanup: discard_cached and on_disarm.
OnDisarm ==
    /\ pc = "idle"
    /\ colors' = <<>>
    /\ carry' = Fill(Len(carry), Dark)
    /\ clean' = TRUE
    /\ UNCHANGED <<engineVars, kind, repeat, delay, blank_left, owed, for_armed,
                   chunkVars, last_frame>>

\* The rising preparation: discard_cached and arm_startup_blank.
ArmStartupBlank ==
    /\ pc = "idle"
    /\ colors' = <<>>
    /\ blank_left' = BlankPoints
    /\ owed' = IF clean THEN BlankPoints + delay ELSE 0
    /\ UNCHANGED <<engineVars, kind, repeat, delay, carry, clean, for_armed,
                   chunkVars, last_frame>>

\* Faulty variant: a replaced backend starts without the frame shown before.
ReplayNothing == None

Replay == last_frame

\* on_reconnect
OnReconnect ==
    /\ pc = "idle"
    /\ colors' = <<>>
    /\ carry' = Fill(Len(carry), Dark)
    /\ clean' = TRUE
    /\ IF IsStream
       THEN /\ raw' = <<>> /\ last_chunk' = <<>> /\ written' = {}
            /\ blank_left' = 0 /\ owed' = 0
            /\ UNCHANGED engineVars
       ELSE /\ ResetAndReplay(Replay)
            /\ UNCHANGED <<pc, want, buffer, raw, last_chunk, written, blank_left, owed>>
    /\ UNCHANGED <<kind, repeat, delay, for_armed, ended, fresh, last_frame>>

\* The adapter has written the slice: commit_written.
CommitWritten(armed) ==
    /\ pc = "idle"
    /\ colors # <<>>
    /\ colors' = <<>>
    /\ IF IsStream /\ armed
       THEN last_chunk' = raw /\ written' = written \cup {fresh}
       ELSE UNCHANGED <<last_chunk, written>>
    /\ UNCHANGED <<engineVars, kind, repeat, delay, carry, blank_left, clean, owed, for_armed,
                   raw, ended, fresh, last_frame>>

-------------------------------------------------------------------------------
(* Producing a slice *)

ProduceFifoChunk(n) ==
    /\ kind = "fifo"
    /\ BeginFill(n)
    /\ UNCHANGED chunkVars

ProduceFrameSwap ==
    /\ kind = "swap"
    /\ ComposeHardwareFrame
    /\ UNCHANGED chunkVars

\* fill_idle_range: the points with which a starved chunk is filled up.
IdleRange(n) ==
    IF repeat /\ last_chunk # <<>>
    THEN [i \in 1..n |-> last_chunk[((i - 1) % Len(last_chunk)) + 1]]
    ELSE Fill(n, Idle)

RawChunk(n, filled, armed, k) ==
    Fill(filled, <<"user", k>>)
        \o (IF armed THEN IdleRange(n - filled) ELSE Fill(n - filled, Idle))

IsFresh(k) == \A i \in 1..Len(last_chunk) : last_chunk[i] # <<"user", k>>

\* The callback fills `filled` of n points and the idle policy the rest; Starved
\* is a fill of none.
ProduceChunk(n, filled, armed, k) ==
    /\ IsStream
    /\ pc = "idle"
    /\ ~ended
    /\ IsFresh(k)
    /\ raw' = RawChunk(n, filled, armed, k)
    /\ fresh' = k
    /\ written' = written \ {k}
    /\ buffer' = raw'
    /\ want' = n
    /\ pc' = "filled"
    /\ UNCHANGED <<frameVars, seamVars, trail, last_chunk, ended>>

\* Under IdlePolicy::Stop a partly filled chunk is the last one, and is cut short.
ProduceLast(filled, k) ==
    /\ IsStream /\ ~repeat
    /\ pc = "idle"
    /\ ~ended
    /\ IsFresh(k)
    /\ raw' = Fill(filled, <<"user", k>>)
    /\ fresh' = k
    /\ written' = written \ {k}
    /\ ended' = TRUE
    /\ buffer' = raw'
    /\ want' = filled
    /\ pc' = "filled"
    /\ UNCHANGED <<frameVars, seamVars, trail, last_chunk>>

\* The callback returns End, or starves under IdlePolicy::Stop.
ProduceEnd ==
    /\ IsStream
    /\ pc = "idle"
    /\ ~ended
    /\ ended' = TRUE
    /\ colors' = <<>>
    /\ UNCHANGED <<engineVars, kind, repeat, delay, carry, blank_left, clean, owed, for_armed,
                   raw, last_chunk, fresh, written, last_frame>>

Produce(armed) ==
    /\ \/ \E n \in 1..MaxChunk : ProduceFifoChunk(n)
       \/ ProduceFrameSwap
       \/ \E n \in 1..MaxChunk : \E filled \in 0..n, k \in Names : ProduceChunk(n, filled, armed, k)
       \/ armed /\ \E filled \in 1..(MaxChunk - 1), k \in Names : ProduceLast(filled, k)
    /\ colors' = <<>>
    /\ for_armed' = armed
    /\ UNCHANGED <<kind, repeat, delay, carry, blank_left, clean, owed, last_frame>>

FillStep ==
    /\ DropSelfLoop \/ DrainSeam \/ CopyPoint
    /\ UNCHANGED <<kind, repeat, delayVars, chunkVars, last_frame>>

ColorOf(p) == IF p = Idle THEN Dark ELSE Lit

\* apply_blanking: a disarmed slice is parked, an armed one begins with what is
\* left of the startup-blank window.
Blanked(armed) ==
    [i \in 1..Len(buffer) |->
        IF ~armed \/ i <= blank_left THEN Dark ELSE ColorOf(buffer[i])]

\* Blanking, then the colour delay, then the cache. Nothing composed: no slice.
Present ==
    /\ pc = "filled"
    /\ pc' = "idle"
    /\ buffer' = <<>>
    /\ want' = 0
    /\ IF buffer = <<>>
       THEN UNCHANGED <<trail, blank_left, carry, colors, clean, owed>>
       ELSE LET n == Len(buffer)
                line == Resize(carry, delay)
                input == Blanked(for_armed)
            IN /\ trail' = IF kind = "fifo" THEN buffer[n] ELSE trail
               /\ blank_left' = IF for_armed THEN blank_left - Lesser(blank_left, n) ELSE blank_left
               /\ colors' = Delayed(line, input)
               /\ carry' = CarryAfter(line, input)
               /\ clean' = (clean /\ ~for_armed)
               /\ owed' = owed - Lesser(owed, n)
    /\ UNCHANGED <<frameVars, seamVars, kind, repeat, delay, for_armed, chunkVars, last_frame>>

-------------------------------------------------------------------------------
Init ==
    /\ EngineInit
    /\ kind \in Kinds /\ repeat \in {FALSE, IsStream}
    /\ delay \in 0..MaxDelay /\ carry = <<>> /\ blank_left = 0 /\ colors = <<>>
    /\ last_frame = None
    /\ raw = <<>> /\ last_chunk = <<>> /\ ended = FALSE /\ fresh = CHOOSE k \in Names : TRUE
    /\ clean = TRUE /\ owed = 0 /\ for_armed = FALSE /\ written = {}

Driver ==
    \/ OnDisarm \/ ArmStartupBlank \/ OnReconnect
    \/ \E armed \in BOOLEAN : CommitWritten(armed) \/ Produce(armed)
    \/ ProduceEnd

Application ==
    \/ \E f \in Frames : SubmitFrame(f)
    \/ \E d \in 0..MaxDelay : SetColorDelay(d)

Next == Application \/ Driver \/ FillStep \/ Present

Spec == Init /\ [][Next]_vars

\* The adapter keeps asking a frame source for slices, and composing one comes to an end:
\* at each pc there is one of these steps to take. Nothing is assumed of a callback.
Compose == FillStep \/ Present \/ \E armed \in BOOLEAN : Produce(armed)

Fairness == WF_vars(~IsStream /\ Compose)

LiveSpec == Spec /\ Fairness

-------------------------------------------------------------------------------
(* Properties *)

Point ==
    {Idle}
    \cup {<<"frame", f, i>> : f \in Frames, i \in Nat \ {0}}
    \cup {<<"seam", f, g, k, n>> : f, g \in Frames, k \in Nat, n \in Nat}
    \cup {<<"user", k>> : k \in Names}

\* The types of the state of a content source.
TypeOK ==
    /\ current \in Frames \cup {None} /\ pending \in Frames \cup {None}
    /\ last_frame \in Frames \cup {None}
    /\ dirty \in BOOLEAN /\ tself \in BOOLEAN /\ ended \in BOOLEAN
    /\ clean \in BOOLEAN /\ for_armed \in BOOLEAN /\ repeat \in BOOLEAN
    /\ cursor \in 0..Len(drawable) /\ tcursor \in 0..Len(tbuf)
    /\ pc \in {"idle", "fill", "filled"} /\ want \in 0..MaxChunk
    /\ kind \in Kinds /\ delay \in 0..MaxDelay
    /\ fresh \in Names /\ written \subseteq Names
    /\ Len(carry) <= MaxDelay /\ blank_left \in 0..BlankPoints
    /\ owed \in 0..(BlankPoints + MaxDelay)
    /\ \A i \in 1..Len(carry) : carry[i] \in {Lit, Dark}
    /\ \A i \in 1..Len(colors) : colors[i] \in {Lit, Dark}

\* Where the path of the beam may go from point p: on within the frame; from its
\* last point into a seam, or straight into a frame; along the seam; and from the
\* end of the seam to the first point of the frame it leads to.
Follows(p, q) ==
    \/ p \in {<<>>, Idle} /\ (q = Idle \/ (q[1] = "frame" /\ q[3] = 1))
    \/ p # <<>> /\ p[1] = "frame" /\ p[3] < FrameLen[p[2]] /\ q = <<"frame", p[2], p[3] + 1>>
    \/ /\ p # <<>> /\ p[1] = "frame" /\ p[3] = FrameLen[p[2]]
       /\ \/ q = Idle
          \/ q[1] = "seam" /\ q[2] = p[2] /\ q[4] = 1
          \/ q[1] = "frame" /\ (q[3] = 1 \/ q[3] = 1 + Skip(q[2]))
    \/ p # <<>> /\ p[1] = "seam" /\ p[4] < p[5] /\ q = <<"seam", p[2], p[3], p[4] + 1, p[5]>>
    \/ p # <<>> /\ p[1] = "seam" /\ p[4] = p[5] /\ q = <<"frame", p[3], 1>>

\* fill_chunk never makes the beam jump: wherever chunks are cut and whenever a
\* frame is submitted, every frame is finished before the next one is chosen and
\* every seam that was begun is drawn to its end, from the point where the beam
\* is to the point where the next frame begins.
SeamContinuity ==
    kind = "fifo" =>
        \A i \in 1..Len(buffer) : Follows(IF i = 1 THEN trail ELSE buffer[i - 1], buffer[i])

\* A hardware frame (compose_hardware_frame, clamp_to_capacity) fits the device.
\* It shows one frame, without a gap, after the end of a seam that leads to it;
\* points of the frame are given up only when no point of the seam is left.
SwapComposed ==
    kind = "swap" /\ pc = "filled" /\ buffer # <<>> =>
        /\ Len(buffer) <= Capacity
        /\ buffer = <<Idle>> \/ (buffer[Len(buffer)][1] = "frame" /\ buffer[Len(buffer)][2] = current)
        /\ \A i \in 2..Len(buffer) :
              /\ buffer[i][1] = "frame" /\ buffer[i][3] > 1 => buffer[i - 1] = <<"frame", current, buffer[i][3] - 1>>
              /\ IsSeam(buffer[i - 1]) => Follows(buffer[i - 1], buffer[i])
        /\ IsSeam(buffer[1]) => buffer[Len(buffer)] = <<"frame", current, FrameLen[current]>>

\* The frame submitted last is never lost, across seams and reconnects: it is
\* shown, or it is the one that comes next (set_pending, replay_after_reconnect).
NewestKept ==
    last_frame # None =>
        IF pending = None THEN current = last_frame ELSE pending = last_frame

\* A slice that is composed disarmed after the falling cleanup is dark, whatever
\* the colour delay line held before it and however it is resized (on_disarm).
DisarmedDark ==
    ~for_armed /\ clean => \A i \in 1..Len(colors) : colors[i] = Dark

\* After an arm the startup-blank window is dark, and the colour delay comes on
\* top of it, as StreamConfig::startup_blank says, across slices of any length.
StartupDark ==
    pc = "filled" => \A i \in 1..Len(colors') : i <= owed => colors'[i] = Dark

\* RepeatLast fills a starved chunk only with points of a chunk that was written
\* while armed to the device in use (commit_written, on_reconnect).
RepeatsWritten ==
    IsStream =>
        \A i \in 1..Len(raw), k \in Names :
            raw[i] = <<"user", k>> => k = fresh \/ k \in written

\* A frame that waits behind a frame with points is chosen in the end.
FrameChosen ==
    (pending # None /\ current # None /\ FrameLen[current] > 0) ~> pending = None

\* The same of every frame, as README.md puts it: "switching happens only at frame
\* boundaries: the current frame is always finished before the next frame is chosen".
EveryFrameChosen == pending # None ~> pending = None

\* What is shown is what was meant: a hardware frame is clamped in the documented
\* order, the newest frame survives, a starved chunk repeats only what was written,
\* and the cursors stay inside what they point into.
ContentSound == TypeOK /\ SwapComposed /\ NewestKept /\ RepeatsWritten

\* Colours are dark when they have to be, whatever the delay line still carries: in
\* slices composed disarmed, and for the whole startup window of an arm.
DarkWhenDue == [][DisarmedDark' /\ StartupDark]_vars
=================================================================================
