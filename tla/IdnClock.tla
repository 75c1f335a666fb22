------------------------------- MODULE IdnClock -------------------------------
(***************************************************************************)
(* The timestamps of an IDN stream (idn/dac/stream.rs): the exact          *)
(* accumulator, the lead of the first chunk, and the two occasions on      *)
(* which prepare_points anchors it anew.  The worker writes a chunk of any *)
(* size at any time and any speed, as backlogs, retained chunks, waits for *)
(* acknowledgements and changes of rate make it; a chunk is one packet,    *)
(* which the socket may refuse.                                            *)
(***************************************************************************)
EXTENDS Integers

CONSTANTS
    Second,         \* units of time in a second
    StartupLead,    \* STARTUP_LEAD_US
    ReanchorMinGap, \* REANCHOR_MIN_GAP_US
    MinSamples,     \* MIN_SAMPLES_PER_FRAME
    DurationLimit,  \* the longest duration that a chunk can tell, 0x00FF_FFFF
    Speeds,         \* scan speeds, in points per second
    Grain,          \* a common multiple of the speeds: fractions of a unit in which `ideal` is exact
    ChunkPoints,    \* the sizes of a chunk
    LastInstant,    \* the clock stops here
    MostWrites      \* chunks that are ever written

ASSUME ClockAssumption ==
    /\ Second \in Nat \ {0} /\ Grain \in Nat \ {0}
    /\ StartupLead \in Nat /\ ReanchorMinGap \in Nat /\ MinSamples \in Nat /\ DurationLimit \in Nat
    /\ Speeds \subseteq Nat \ {0} /\ ChunkPoints \subseteq Nat \ {0}
    /\ \A pps \in Speeds : (Grain \div pps) * pps = Grain
    /\ LastInstant \in Nat /\ MostWrites \in Nat

VARIABLES
    elapsed,              \* connect_time.elapsed()
    scan_speed,
    timestamp_anchor,
    points_since_anchor,
    anchor_pps,
    last_data_send,       \* last_data_send_time, -1 for None
    last_chunk_duration,
    chunkStart,           \* history: the timestamp of the last chunk
    chunkEnd,             \* history: the end of the last chunk
    prior,                \* history: the chunk before, end -1 if there was none
    origin,               \* history: the timestamp last taken from the clock
    ideal,                \* history: what was sent since then takes this long to play, in 1/Grain units
    changes,              \* history: the changes of speed since then
    writes                \* history: chunks written

stampVars == <<timestamp_anchor, points_since_anchor, anchor_pps>>
sentVars == <<last_data_send, last_chunk_duration, chunkStart, chunkEnd, prior>>
exactVars == <<origin, ideal, changes>>
clockVars == <<elapsed, scan_speed, stampVars, sentVars, exactVars, writes>>

Streamed == last_data_send # -1   \* frame_count > 0

ClockInit ==
    /\ elapsed = 0 /\ scan_speed \in Speeds /\ anchor_pps = scan_speed
    /\ timestamp_anchor = 0 /\ points_since_anchor = 0
    /\ last_data_send = -1 /\ last_chunk_duration = 0
    /\ chunkStart = -1 /\ chunkEnd = -1 /\ prior = [end |-> -1, sent |-> 0, duration |-> 0]
    /\ origin = 0 /\ ideal = 0 /\ changes = 0 /\ writes = 0

\* Points at a speed, in units of time and exactly
Span(points, pps) == (points * Second) \div pps
Exactly(points, pps) == points * Second * (Grain \div pps)

CurrentTimestamp == timestamp_anchor + Span(points_since_anchor, anchor_pps)

Lead == IF elapsed < StartupLead THEN 0 ELSE elapsed - StartupLead

IdleAfter(duration) == IF 2 * duration > ReanchorMinGap THEN 2 * duration ELSE ReanchorMinGap

LongIdle == Streamed /\ elapsed - last_data_send > IdleAfter(last_chunk_duration)

\* The anchor is taken from the clock, or moved along for a new speed
FromClock == ~Streamed \/ LongIdle
NewSpeed == ~FromClock /\ anchor_pps # scan_speed

\* Faulty variant: a new speed takes the accumulator back to the wall clock.
AnchorAfresh ==
    IF ~Streamed THEN Lead
    ELSE IF LongIdle \/ NewSpeed THEN elapsed
    ELSE timestamp_anchor

\* prepare_points: the anchor that the next chunk counts from
Anchor ==
    IF ~Streamed THEN Lead
    ELSE IF LongIdle THEN elapsed
    ELSE IF NewSpeed THEN CurrentTimestamp
    ELSE timestamp_anchor

PointsSince == IF FromClock \/ NewSpeed THEN 0 ELSE points_since_anchor

\* pad_points
PaddedCount(n) == IF n < MinSamples THEN MinSamples ELSE n

\* build_and_send_first_packet
WriteChunk(n) ==
    LET points == PaddedCount(n)
        start == Anchor + Span(PointsSince, scan_speed)
        end == Anchor + Span(PointsSince + points, scan_speed)
    IN /\ writes < MostWrites /\ writes' = writes + 1
       /\ timestamp_anchor' = Anchor
       /\ points_since_anchor' = PointsSince + points
       /\ anchor_pps' = scan_speed
       /\ last_data_send' = elapsed
       /\ last_chunk_duration' = IF end - start > DurationLimit THEN DurationLimit ELSE end - start
       /\ chunkStart' = start /\ chunkEnd' = end
       /\ prior' = [end |-> chunkEnd, sent |-> last_data_send, duration |-> last_chunk_duration]
       /\ origin' = IF FromClock THEN Anchor ELSE origin
       /\ ideal' = (IF FromClock THEN 0 ELSE ideal) + Exactly(points, scan_speed)
       /\ changes' = IF FromClock THEN 0 ELSE IF NewSpeed THEN changes + 1 ELSE changes
       /\ UNCHANGED <<elapsed, scan_speed>>

\* The socket refuses the packet: the anchor has moved, nothing else has. Of a chunk that was to be
\* acknowledged the worker counts a miss and goes on.
WriteFails ==
    /\ writes < MostWrites /\ writes' = writes + 1
    /\ timestamp_anchor' = Anchor
    /\ points_since_anchor' = PointsSince
    /\ anchor_pps' = scan_speed
    /\ changes' = IF NewSpeed THEN changes + 1 ELSE changes
    /\ UNCHANGED <<elapsed, scan_speed, sentVars, origin, ideal>>

SetScanSpeed(pps) ==
    /\ scan_speed' = pps
    /\ UNCHANGED <<elapsed, stampVars, sentVars, exactVars, writes>>

ClockAdvances ==
    /\ elapsed < LastInstant
    /\ elapsed' = elapsed + 1
    /\ UNCHANGED <<scan_speed, stampVars, sentVars, exactVars, writes>>

ClockNext ==
    \/ ClockAdvances
    \/ \E pps \in Speeds : SetScanSpeed(pps)
    \/ \E n \in ChunkPoints : WriteChunk(n)
    \/ WriteFails

ClockSpec == ClockInit /\ [][ClockNext]_clockVars

-------------------------------------------------------------------------------
\* prepare_points: a chunk starts where the one before it ended, whatever the speeds and whatever failed
\* in between, unless the stream was idle for long: then it starts at the clock.
Continuous ==
    chunkStart = IF last_data_send - prior.sent > IdleAfter(prior.duration)
                 THEN last_data_send ELSE prior.end

\* prepare_points: timestamps step back only in a stream that had run ahead of the clock, by the time
\* of two of its chunks and by REANCHOR_MIN_GAP_US.
BackOnlyFromAhead ==
    chunkStart < prior.end => /\ prior.end - prior.sent > ReanchorMinGap
                              /\ prior.end - prior.sent > 2 * prior.duration

\* current_timestamp_us, "never accrues the per-chunk floor-truncation drift": since they were last taken
\* from the clock the timestamps have run with the points that were sent, however many chunks that
\* were; only a change of speed can cost a unit.
NoDrift ==
    LET short == ideal - Grain * (chunkEnd - origin)
    IN 0 <= short /\ short < Grain * (changes + 1)

\* Stream::write_frame: what the receiver is told of when to play a chunk follows from the chunks before.
StampsFollow ==
    Streamed => /\ prior.end # -1 => Continuous /\ BackOnlyFromAhead
                /\ NoDrift

\* The inductive invariant: unless the next chunk is anchored to the clock anyway, the accumulator
\* stands at the end of the last chunk, and its anchors have cost no more than a unit each.
ClockTypeOK ==
    /\ elapsed \in Nat /\ scan_speed \in Speeds /\ anchor_pps \in Speeds
    /\ timestamp_anchor \in Nat /\ points_since_anchor \in Nat
    /\ last_data_send \in Nat \cup {-1} /\ last_chunk_duration \in Nat
    /\ chunkStart \in Int /\ chunkEnd \in Int
    /\ prior \in [end : Int, sent : Int, duration : Nat]
    /\ origin \in Nat /\ ideal \in Nat /\ changes \in Nat

\* What rounding had cost when the accumulator was last anchored, in 1/Grain units
Cost == ideal - Exactly(points_since_anchor, anchor_pps) - Grain * (timestamp_anchor - origin)

ClockInv ==
    /\ ClockTypeOK
    /\ ~Streamed => chunkEnd = -1
    /\ Streamed => last_data_send <= elapsed /\ chunkEnd \in Nat
    /\ ~FromClock => CurrentTimestamp = chunkEnd /\ 0 <= Cost /\ Cost <= Grain * changes
    /\ StampsFollow

================================================================================
