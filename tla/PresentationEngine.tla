-------------------------- MODULE PresentationEngine --------------------------
(***************************************************************************)
(* presentation/engine.rs: the colour delay line and the presentation      *)
(* engine.                                                                 *)
(***************************************************************************)
EXTENDS Sequences, Integers

-----------------------------------------------------------------------------
(***************************************************************************)
(* ColorDelayLine of presentation/engine.rs: colours lag positions by the  *)
(* length of the carry, across chunk boundaries.  A colour is any value,   *)
(* Dark the blanked one; the delay is the length of the carry.             *)
(***************************************************************************)

CONSTANT Dark

Fill(n, v) == [i \in 1..n |-> v]
LastOf(s, k) == [i \in 1..k |-> s[Len(s) - k + i]]
Lesser(a, b) == IF a <= b THEN a ELSE b

\* resize: growing pads the oldest slots with black, shrinking drops the oldest.
Resize(carry, delay) ==
    IF delay >= Len(carry) THEN Fill(delay - Len(carry), Dark) \o carry
    ELSE LastOf(carry, delay)

\* apply, on the colours of one chunk: the head of the chunk takes the carry, the
\* rest takes the colours delay points earlier.
Delayed(carry, colors) ==
    [i \in 1..Len(colors) |->
        IF i <= Len(carry) THEN carry[i] ELSE colors[i - Len(carry)]]

\* The tail of the chunk, behind what a chunk shorter than the delay leaves.
CarryAfter(carry, colors) ==
    LET keep == Lesser(Len(carry), Len(colors))
    IN IF keep = Len(carry) THEN LastOf(colors, keep)
       ELSE LastOf(carry, Len(carry) - keep) \o LastOf(colors, keep)

-----------------------------------------------------------------------------
(***************************************************************************)
(* PresentationEngine of presentation/engine.rs: the frame being shown,    *)
(* the frame that follows it, and the seams between frames.  A point is a  *)
(* tuple that says where it comes from:                                    *)
(*   <<"frame", f, i>>       point i of frame f                            *)
(*   <<"seam", f, g, k, n>>  point k of the n that lead from f to g        *)
(*   <<"idle">>              idle_blank, when there is nothing to draw     *)
(* The transition function belongs to the caller, so every call of it may  *)
(* return any plan.  One turn of fill_chunk's loop is one action here, and *)
(* a point at a time; nothing else happens before the chunk is full.       *)
(***************************************************************************)

CONSTANTS
    Frames,    \* the frames a caller may submit
    FrameLen,  \* their lengths: zero for an empty, "clear the display" frame
    MaxSeam,   \* bound: points of a transition
    Capacity   \* frame_capacity of a frame-swap backend

None == "none"
Coalesce == -1

ASSUME EngineAssumption ==
    /\ None \notin Frames
    /\ FrameLen \in [Frames -> Nat]
    /\ MaxSeam \in Nat
    /\ Capacity \in Nat \ {0}

VARIABLES
    current,     \* current_base
    pending,     \* pending_base
    drawable,    \* the points being traversed, or the composed hardware frame
    dirty,       \* drawable_dirty
    cursor,      \* points of drawable already emitted
    tbuf,        \* transition_buf
    tcursor,     \* transition_cursor
    tself,       \* transition_is_self_loop
    pc,          \* "idle", "fill" or "filled": where production stands
    want,        \* points asked for
    buffer,      \* the points composed so far, until they are presented
    trail        \* history: the last point presented before them, or <<>>

frameVars == <<current, pending, drawable, dirty>>
seamVars == <<cursor, tbuf, tcursor, tself>>
fillVars == <<pc, want, buffer, trail>>
engineVars == <<frameVars, seamVars, fillVars>>

Idle == <<"idle">>
Points(f) == [i \in 1..FrameLen[f] |-> <<"frame", f, i>>]
SeamPoints(f, g, n) == [k \in 1..n |-> <<"seam", f, g, k, n>>]
IsSeam(p) == p[1] = "seam"

\* What the transition function may answer: Coalesce, or a number of points. It
\* is not asked when one side has no point.
Plans(f, g) ==
    IF f # None /\ FrameLen[f] > 0 /\ FrameLen[g] > 0 THEN Coalesce..MaxSeam ELSE {0}

\* Coalescing skips the point both sides share, unless it is the only one.
Skip(f) == IF FrameLen[f] > 1 THEN 1 ELSE 0

-------------------------------------------------------------------------------
EngineInit ==
    /\ current = None /\ pending = None /\ drawable = <<>> /\ dirty = TRUE
    /\ cursor = 0 /\ tbuf = <<>> /\ tcursor = 0 /\ tself = FALSE
    /\ pc = "idle" /\ want = 0 /\ buffer = <<>> /\ trail = <<>>

\* set_pending
SetPending(f) ==
    IF current = None
    THEN /\ current' = f
         /\ dirty' = TRUE
         /\ cursor' = 0
         /\ UNCHANGED <<pending, drawable, tbuf, tcursor, tself>>
    ELSE /\ pending' = f
         /\ UNCHANGED <<current, drawable, dirty, seamVars>>

\* reset, and a set_pending of the frame submitted last (replay_after_reconnect).
ResetAndReplay(f) ==
    /\ current' = f
    /\ pending' = None
    /\ drawable' = <<>>
    /\ dirty' = TRUE
    /\ cursor' = 0 /\ tbuf' = <<>> /\ tcursor' = 0 /\ tself' = FALSE
    /\ trail' = <<>>

-------------------------------------------------------------------------------
(* fill_chunk *)

BeginFill(n) ==
    /\ pc = "idle"
    /\ drawable' = IF dirty THEN (IF current = None THEN <<>> ELSE Points(current)) ELSE drawable
    /\ dirty' = FALSE
    /\ want' = n
    /\ IF current = None \/ drawable' = <<>>
       THEN buffer' = Fill(n, Idle) /\ pc' = "filled"
       ELSE buffer' = <<>> /\ pc' = "fill"
    /\ UNCHANGED <<current, pending, seamVars, trail>>

Filling == pc = "fill" /\ Len(buffer) < want
Draining == tcursor < Len(tbuf)

\* The chunk with `filled` points; an empty frame pads the rest.
PadOrGoOn(filled, now) ==
    IF now = <<>>
    THEN buffer' = filled \o Fill(want - Len(filled), Idle) /\ pc' = "filled"
    ELSE buffer' = filled /\ pc' = IF Len(filled) = want THEN "filled" ELSE "fill"

\* promote_pending; old_tbuf and old_tself are what a coalesced seam leaves.
PromotePending(plan, old_tbuf, old_tcursor, old_tself) ==
    /\ current' = pending
    /\ pending' = None
    /\ drawable' = Points(pending)
    /\ dirty' = FALSE
    /\ IF plan = Coalesce
       THEN /\ cursor' = Skip(pending)
            /\ tbuf' = old_tbuf /\ tcursor' = old_tcursor /\ tself' = old_tself
       ELSE /\ cursor' = 0
            /\ tbuf' = SeamPoints(current, pending, plan) /\ tcursor' = 0 /\ tself' = FALSE

\* Faulty variant: the stale self-loop seam is dropped although part of it is out.
SelfLoopIsStaleAnyway == Draining /\ tself /\ pending # None

SelfLoopIsStale == Draining /\ tself /\ pending # None /\ tcursor = 0

\* A self-loop seam of which nothing is out yet gives way to a new frame.
DropSelfLoop ==
    /\ Filling
    /\ SelfLoopIsStale
    /\ \E plan \in Plans(current, pending) : PromotePending(plan, <<>>, 0, FALSE)
    /\ PadOrGoOn(buffer, drawable')
    /\ UNCHANGED <<want, trail>>

DrainSeam ==
    /\ Filling
    /\ Draining
    /\ ~SelfLoopIsStale
    /\ tcursor' = tcursor + 1
    /\ PadOrGoOn(Append(buffer, tbuf[tcursor + 1]), drawable)
    /\ UNCHANGED <<frameVars, cursor, tbuf, tself, want, trail>>

\* The seam after the last point: to the pending frame, or around to the first.
SeamToPending ==
    /\ pending # None
    /\ \E plan \in Plans(current, pending) : PromotePending(plan, tbuf, tcursor, tself)

\* Faulty variant: the frame may loop although another one waits.
SeamToSelfAnyway ==
    /\ \E plan \in Plans(current, current) :
          IF plan = Coalesce
          THEN cursor' = Skip(current) /\ UNCHANGED <<tbuf, tcursor, tself>>
          ELSE /\ cursor' = 0
               /\ tbuf' = SeamPoints(current, current, plan) /\ tcursor' = 0 /\ tself' = TRUE
    /\ UNCHANGED frameVars

SeamToSelf ==
    /\ pending = None
    /\ \E plan \in Plans(current, current) :
          IF plan = Coalesce
          THEN cursor' = Skip(current) /\ UNCHANGED <<tbuf, tcursor, tself>>
          ELSE /\ cursor' = 0
               /\ tbuf' = SeamPoints(current, current, plan) /\ tcursor' = 0 /\ tself' = TRUE
    /\ UNCHANGED frameVars

CopyPoint ==
    /\ Filling
    /\ ~Draining
    /\ \/ /\ cursor + 1 < Len(drawable)
          /\ cursor' = cursor + 1
          /\ UNCHANGED <<frameVars, tbuf, tcursor, tself>>
       \/ /\ cursor + 1 >= Len(drawable)
          /\ SeamToPending \/ SeamToSelf
    /\ PadOrGoOn(Append(buffer, drawable[cursor + 1]), drawable')
    /\ UNCHANGED <<want, trail>>

-------------------------------------------------------------------------------
(* compose_hardware_frame *)

\* clamp_to_capacity: the head of the seam goes first, then the tail of the frame.
Clamp(seam, pts) ==
    LET excess == IF Len(seam) + Len(pts) > Capacity THEN Len(seam) + Len(pts) - Capacity ELSE 0
        trim == Lesser(excess, Len(seam))
        kept == SubSeq(seam, trim + 1, Len(seam)) \o pts
    IN SubSeq(kept, 1, Lesser(Len(kept), Capacity))

OrIdle(s) == IF s = <<>> THEN <<Idle>> ELSE s

\* From the old frame to the new one, which becomes current. The self-loop of the
\* new one is composed by the next call.
ComposeChange(plan) ==
    /\ pending # None
    /\ plan \in Plans(current, pending)
    /\ drawable' = IF plan = Coalesce
                   THEN Clamp(<<>>, SubSeq(Points(pending), 1 + Skip(pending), FrameLen[pending]))
                   ELSE OrIdle(Clamp(SeamPoints(current, pending, plan), Points(pending)))
    /\ current' = pending
    /\ pending' = None
    /\ dirty' = TRUE

\* The self-loop, also composed again when the rate has changed.
ComposeSelfLoop(plan) ==
    /\ pending = None
    /\ drawable' =
         CASE current = None -> <<>>
           [] current # None /\ FrameLen[current] = 0 -> <<Idle>>
           [] current # None /\ FrameLen[current] > 0 ->
                IF plan = Coalesce
                THEN Clamp(<<>>, SubSeq(Points(current), 1, FrameLen[current] - Skip(current)))
                ELSE Clamp(SeamPoints(current, current, plan), Points(current))
    /\ dirty' = FALSE
    /\ UNCHANGED <<current, pending>>

ComposeCached ==
    /\ pending = None
    /\ ~dirty
    /\ UNCHANGED frameVars

ComposeHardwareFrame ==
    /\ pc = "idle"
    /\ \/ \E plan \in Coalesce..MaxSeam : ComposeChange(plan) \/ ComposeSelfLoop(plan)
       \/ ComposeCached
    /\ buffer' = drawable'
    /\ pc' = "filled"
    /\ UNCHANGED <<seamVars, want, trail>>

===============================================================================
