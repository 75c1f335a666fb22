------------------------------ MODULE RateProofs ------------------------------
(***************************************************************************)
(* What the crate computes from rates, at any rate and for any length of   *)
(* time.  The streaming resampler reads only samples it still has, and     *)
(* places every point where one pass over the whole stream would place it, *)
(* however the stream is cut into chunks.  The timestamps of an IDN stream *)
(* go on from chunk to chunk, or from the clock, and never drift.          *)
(***************************************************************************)
EXTENDS AudioSink, IdnClock, TLAPS

-----------------------------------------------------------------------------
(***************************************************************************)
(* The timestamps of an IDN stream, for every set of speeds and chunk      *)
(* sizes, every lead, gap and padding, and every pattern of failures.      *)
(* StampsFollow says nothing of the accumulator; ClockInv adds that it     *)
(* stands at the end of the last chunk and what its anchors have cost.     *)
(***************************************************************************)

\* Division rounds down, by less than one unit.
LEMMA SpanExact ==
    ASSUME NEW n \in Nat, NEW pps \in Speeds
    PROVE  /\ Span(n, pps) \in Nat /\ Exactly(n, pps) \in Nat
           /\ Grain * Span(n, pps) <= Exactly(n, pps)
           /\ Exactly(n, pps) < Grain * Span(n, pps) + Grain
  <1>1. /\ Second \in Nat \ {0} /\ Grain \in Nat \ {0} /\ pps \in Nat \ {0}
        /\ (Grain \div pps) * pps = Grain
      BY ClockAssumption
  <1>2. PICK k \in Nat : k = Grain \div pps /\ k * pps = Grain
      BY <1>1
  <1>3. PICK a \in Nat : a = n * Second
      BY <1>1
  <1>4. PICK q \in Nat : q = a \div pps /\ q * pps <= a /\ a < q * pps + pps
      BY <1>1, <1>3
  <1>5. Span(n, pps) = q /\ Exactly(n, pps) = a * k
      BY <1>2, <1>3, <1>4 DEF Span, Exactly
  <1>6. a * k \in Nat /\ Grain * q \in Nat
      BY <1>1, <1>2, <1>3, <1>4
  <1>7. Grain * q = (q * pps) * k /\ Grain * q + Grain = (q * pps + pps) * k
      BY <1>1, <1>2, <1>4
  <1>8. k > 0
      BY <1>1, <1>2
  <1>9. \A x, y \in Nat : x <= y => x * k <= y * k
      BY <1>2
  <1>10. \A x, y \in Nat : x < y => x * k < y * k
      BY <1>2, <1>8
  <1>11. q * pps \in Nat /\ q * pps + pps \in Nat
      BY <1>1, <1>4
  <1>12. QED
      BY <1>3, <1>4, <1>5, <1>6, <1>7, <1>9, <1>10, <1>11

\* Exact times add up.
LEMMA ExactlySum ==
    ASSUME NEW m \in Nat, NEW n \in Nat, NEW pps \in Speeds
    PROVE  Exactly(m + n, pps) = Exactly(m, pps) + Exactly(n, pps) /\ Exactly(0, pps) = 0
  <1>1. Grain \div pps \in Nat /\ Second \in Nat
      BY ClockAssumption
  <1>2. QED
      BY <1>1 DEF Exactly

\* No points span no time, and more of them no less.
LEMMA SpanGrows ==
    ASSUME NEW p \in Nat, NEW n \in Nat, NEW pps \in Speeds
    PROVE  Span(p, pps) \in Nat /\ Span(p + n, pps) \in Nat /\ Span(p, pps) <= Span(p + n, pps)
  <1>1. pps \in Nat \ {0}
      BY ClockAssumption
  <1>2. p * Second \in Nat /\ (p + n) * Second \in Nat /\ p * Second <= (p + n) * Second
      BY ClockAssumption, SMTT(30)
  <1>3. ASSUME NEW a \in Nat, NEW b \in Nat, a <= b
        PROVE  a \div pps \in Nat /\ b \div pps \in Nat /\ a \div pps <= b \div pps
      BY <1>1, <1>3, SMTT(30)
  <1>4. QED
      BY <1>2, <1>3 DEF Span

\* No points take no time.
LEMMA SpanOfNone ==
    ASSUME NEW pps \in Speeds PROVE Span(0, pps) = 0 /\ Exactly(0, pps) = 0
  <1>1. Grain \div pps \in Nat /\ Second \in Nat /\ pps \in Nat \ {0}
      BY ClockAssumption
  <1>2. QED
      BY <1>1 DEF Span, Exactly

\* The stream starts in the invariant.
LEMMA ClockStarts ==
    ClockInit => ClockInv
  BY ClockAssumption DEF ClockInit, ClockInv, ClockTypeOK, Streamed, FromClock, StampsFollow

\* Where the next chunk starts, and what its anchor has cost by then
LEMMA ChunkStarts ==
    ASSUME ClockInv
    PROVE  /\ Anchor \in Nat /\ PointsSince \in Nat
           /\ LongIdle => Anchor = elapsed /\ PointsSince = 0
           /\ FromClock => PointsSince = 0
           /\ ~FromClock => Anchor + Span(PointsSince, scan_speed) = chunkEnd
  <1> USE ClockAssumption
  <1>1. /\ elapsed \in Nat /\ timestamp_anchor \in Nat /\ points_since_anchor \in Nat
        /\ scan_speed \in Speeds /\ anchor_pps \in Speeds
      BY DEF ClockInv, ClockTypeOK
  <1>2. Span(0, scan_speed) = 0
      BY <1>1, SpanOfNone
  <1>3. CASE ~Streamed
      <2>1. Anchor = Lead /\ PointsSince = 0 /\ FromClock /\ ~LongIdle
          BY <1>3 DEF Anchor, PointsSince, FromClock, LongIdle
      <2>2. Lead \in Nat
          BY <1>1 DEF Lead
      <2>3. QED
          BY <2>1, <2>2
  <1>4. CASE LongIdle
      <2>1. Streamed /\ Anchor = elapsed /\ PointsSince = 0 /\ FromClock
          BY <1>4 DEF Anchor, PointsSince, LongIdle, FromClock
      <2>2. QED
          BY <1>1, <2>1
  <1>5. CASE NewSpeed
      <2>1. Streamed /\ ~LongIdle /\ ~FromClock
          BY <1>5 DEF NewSpeed, FromClock
      <2>2. Anchor = CurrentTimestamp /\ PointsSince = 0
          BY <1>5, <2>1 DEF Anchor, PointsSince
      <2>3. CurrentTimestamp = chunkEnd /\ chunkEnd \in Nat
          BY <2>1 DEF ClockInv
      <2>4. QED
          BY <1>2, <2>1, <2>2, <2>3
  <1>6. CASE ~FromClock /\ ~NewSpeed
      <2>1. Streamed /\ ~LongIdle /\ anchor_pps = scan_speed
          BY <1>6 DEF NewSpeed, FromClock
      <2>2. Anchor = timestamp_anchor /\ PointsSince = points_since_anchor
          BY <1>6, <2>1 DEF Anchor, PointsSince
      <2>3. timestamp_anchor + Span(points_since_anchor, anchor_pps) = chunkEnd
          BY <1>6 DEF ClockInv, CurrentTimestamp
      <2>4. QED
          BY <1>1, <1>6, <2>1, <2>2, <2>3
  <1>7. QED
      BY <1>3, <1>4, <1>5, <1>6 DEF FromClock

\* The cost of the anchor that the next chunk counts from
NextCost == ideal - Exactly(PointsSince, scan_speed) - Grain * (Anchor - origin)
NextChanges == IF NewSpeed THEN changes + 1 ELSE changes

\* A change of speed costs less than one unit more.
LEMMA CostGrows ==
    ASSUME ClockInv, ~FromClock
    PROVE  NextCost \in Int /\ 0 <= NextCost /\ NextCost <= Grain * NextChanges
  <1>1. /\ Grain \in Nat \ {0} /\ timestamp_anchor \in Nat /\ points_since_anchor \in Nat
        /\ origin \in Nat /\ ideal \in Nat /\ changes \in Nat
        /\ scan_speed \in Speeds /\ anchor_pps \in Speeds
      BY ClockAssumption DEF ClockInv, ClockTypeOK
  <1>2. Cost \in Int /\ 0 <= Cost /\ Cost <= Grain * changes
      <2>1. Exactly(points_since_anchor, anchor_pps) \in Nat
          BY <1>1, SpanExact
      <2>2. QED
          BY <1>1, <2>1 DEF ClockInv, Cost
  <1>3. CASE NewSpeed
      <2>1. Anchor = timestamp_anchor + Span(points_since_anchor, anchor_pps) /\ PointsSince = 0
          BY <1>3 DEF Anchor, PointsSince, NewSpeed, FromClock, CurrentTimestamp
      <2>2. PICK s \in Nat : s = Span(points_since_anchor, anchor_pps)
          BY <1>1, SpanExact
      <2>3. PICK e \in Nat : e = Exactly(points_since_anchor, anchor_pps)
          BY <1>1, SpanExact
      <2>4. Grain * s <= e /\ e < Grain * s + Grain
          BY <1>1, <2>2, <2>3, SpanExact
      <2>5. Cost = ideal - e - Grain * (timestamp_anchor - origin)
          BY <2>3 DEF Cost
      <2>6. NextCost = ideal - Grain * (timestamp_anchor + s - origin)
          <3>1. Exactly(PointsSince, scan_speed) = 0
              BY <1>1, <2>1, SpanOfNone
          <3>2. QED
              BY <1>1, <2>1, <2>2, <3>1 DEF NextCost
      <2>7. NextCost = Cost + (e - Grain * s)
          BY <1>1, <2>5, <2>6
      <2>8. Grain * (changes + 1) = Grain * changes + Grain
          BY <1>1
      <2>9. Grain * s \in Nat /\ Grain * changes \in Nat
          BY <1>1
      <2>10. NextChanges = changes + 1
          BY <1>3 DEF NextChanges
      <2>11. QED
          BY <1>1, <1>2, <2>4, <2>7, <2>8, <2>9, <2>10
  <1>4. CASE ~NewSpeed
      <2>1. anchor_pps = scan_speed /\ Anchor = timestamp_anchor /\ PointsSince = points_since_anchor
          BY <1>4 DEF Anchor, PointsSince, NewSpeed, FromClock
      <2>2. NextCost = Cost /\ NextChanges = changes
          BY <1>4, <2>1 DEF NextCost, Cost, NextChanges
      <2>3. QED
          BY <1>2, <2>2
  <1>5. QED
      BY <1>3, <1>4

\* From an anchor that cost at most c units, the points since cost less than one more.
LEMMA ShortOfIdeal ==
    ASSUME NEW total \in Nat, NEW points \in Nat, NEW pps \in Speeds, NEW at \in Nat, NEW from \in Nat,
           NEW c \in Nat,
           0 <= total - Exactly(points, pps) - Grain * (at - from),
           total - Exactly(points, pps) - Grain * (at - from) <= Grain * c
    PROVE  LET short == total - Grain * ((at + Span(points, pps)) - from)
           IN 0 <= short /\ short < Grain * (c + 1)
  <1>1. PICK s \in Nat : s = Span(points, pps)
      BY SpanExact
  <1>2. PICK e \in Nat : e = Exactly(points, pps)
      BY SpanExact
  <1>3. Grain * s <= e /\ e < Grain * s + Grain
      BY <1>1, <1>2, SpanExact
  <1>4. Grain \in Nat
      BY ClockAssumption
  <1>5. PICK d \in Int : d = Grain * (at - from)
      BY <1>4
  <1>6. PICK g \in Nat : g = Grain * s
      BY <1>4
  <1>7. PICK h \in Nat : h = Grain * c
      BY <1>4
  <1>8. Grain * ((at + s) - from) = d + g /\ Grain * (c + 1) = h + Grain
      BY <1>4, <1>5, <1>6, <1>7
  <1>9. 0 <= total - e - d /\ total - e - d <= h /\ g <= e /\ e < g + Grain
      BY <1>2, <1>3, <1>5, <1>6, <1>7
  <1>10. 0 <= total - (d + g) /\ total - (d + g) < h + Grain
      BY <1>4, <1>9
  <1>11. QED
      BY <1>1, <1>8, <1>10

\* A chunk that is sent: the invariant holds of it and of the one before.
LEMMA WriteKeeps ==
    ASSUME ClockInv, NEW n \in ChunkPoints, WriteChunk(n) PROVE ClockInv'
  <1> USE ClockAssumption
  <1> DEFINE points == PaddedCount(n)
             start == Anchor + Span(PointsSince, scan_speed)
             end == Anchor + Span(PointsSince + points, scan_speed)
             first == FromClock
  <1>1. /\ elapsed \in Nat /\ scan_speed \in Speeds /\ points \in Nat /\ chunkEnd \in Int
        /\ last_data_send \in Int /\ last_chunk_duration \in Nat /\ origin \in Nat /\ ideal \in Nat
        /\ changes \in Nat /\ Grain \in Nat \ {0}
      BY DEF ClockInv, ClockTypeOK, PaddedCount
  <1>2. Anchor \in Nat /\ PointsSince \in Nat
      BY ChunkStarts
  <1>3. start \in Nat /\ end \in Nat /\ start <= end
      <2>1. /\ Span(PointsSince, scan_speed) \in Nat /\ Span(PointsSince + points, scan_speed) \in Nat
            /\ Span(PointsSince, scan_speed) <= Span(PointsSince + points, scan_speed)
          BY <1>1, <1>2, SpanGrows
      <2>2. QED
          BY <1>2, <2>1
  <1>4. /\ timestamp_anchor' = Anchor /\ points_since_anchor' = PointsSince + points
        /\ anchor_pps' = scan_speed /\ scan_speed' = scan_speed /\ elapsed' = elapsed
        /\ last_data_send' = elapsed
        /\ last_chunk_duration' = IF end - start > DurationLimit THEN DurationLimit ELSE end - start
        /\ chunkStart' = start /\ chunkEnd' = end
        /\ prior' = [end |-> chunkEnd, sent |-> last_data_send, duration |-> last_chunk_duration]
        /\ origin' = IF first THEN Anchor ELSE origin
        /\ ideal' = (IF first THEN 0 ELSE ideal) + Exactly(points, scan_speed)
        /\ changes' = IF first THEN 0 ELSE NextChanges
      BY DEF WriteChunk, NextChanges
  <1>5. Exactly(points, scan_speed) \in Nat /\ NextChanges \in Nat
      BY <1>1, SpanExact DEF NextChanges
  <1>6. /\ Streamed /\ LongIdle => start = elapsed
        /\ Streamed /\ ~LongIdle => start = chunkEnd
        /\ ~Streamed => chunkEnd = -1
      <2>1. LongIdle => start = elapsed
          <3>1. Span(0, scan_speed) = 0
              BY <1>1, SpanOfNone
          <3>2. QED
              BY <1>1, <3>1, ChunkStarts
      <2>2. Streamed /\ ~LongIdle => start = chunkEnd
          BY ChunkStarts DEF FromClock
      <2>3. QED
          BY <2>1, <2>2 DEF ClockInv
  <1>7. ideal' \in Nat /\ changes' \in Nat /\ origin' \in Nat
      BY <1>1, <1>2, <1>4, <1>5
  <1>8. /\ 0 <= ideal' - Exactly(PointsSince + points, scan_speed) - Grain * (Anchor - origin')
        /\ ideal' - Exactly(PointsSince + points, scan_speed) - Grain * (Anchor - origin') <= Grain * changes'
      <2>1. PICK b \in Nat : b = Exactly(points, scan_speed)
          BY <1>5
      <2>2. PICK a \in Nat : a = Exactly(PointsSince, scan_speed)
          BY <1>1, <1>2, SpanExact
      <2>3. Exactly(PointsSince + points, scan_speed) = a + b
          BY <1>1, <1>2, <2>1, <2>2, ExactlySum
      <2>4. CASE first
          <3>1. ideal' = b /\ origin' = Anchor /\ changes' = 0
              BY <1>4, <2>1, <2>4
          <3>2. a = 0
              BY <1>1, <2>2, <2>4, ChunkStarts, SpanOfNone
          <3>3. Grain * (Anchor - Anchor) = 0 /\ Grain * 0 = 0
              BY <1>1, <1>2
          <3>4. QED
              BY <2>3, <3>1, <3>2, <3>3
      <2>5. CASE ~first
          <3>1. ideal' = ideal + b /\ origin' = origin /\ changes' = NextChanges
              BY <1>4, <2>1, <2>5
          <3>2. PICK c \in Int : c = NextCost /\ 0 <= c /\ c <= Grain * NextChanges
              BY <2>5, CostGrows
          <3>3. PICK d \in Int : d = Grain * (Anchor - origin)
              BY <1>1, <1>2
          <3>4. c = ideal - a - d
              BY <2>2, <3>2, <3>3 DEF NextCost
          <3>5. ideal' - (a + b) - d = c
              BY <1>1, <3>1, <3>4
          <3>6. QED
              BY <2>3, <3>1, <3>2, <3>3, <3>5
      <2>6. QED
          BY <2>4, <2>5
  <1> HIDE DEF points, start, end, first
  <1>9. ClockTypeOK'
      <2>1. last_chunk_duration' \in Nat
          BY <1>3, <1>4
      <2>2. prior' \in [end : Int, sent : Int, duration : Nat]
          BY <1>1, <1>4
      <2>3. PointsSince + points \in Nat
          BY <1>1, <1>2
      <2>4. QED
          BY <1>1, <1>2, <1>3, <1>4, <1>7, <2>1, <2>2, <2>3 DEF ClockTypeOK
  <1>10. CurrentTimestamp' = chunkEnd' /\ chunkEnd' \in Nat
      BY <1>3, <1>4 DEF CurrentTimestamp, end, points
  <1>11. 0 <= Cost' /\ Cost' <= Grain * changes'
      BY <1>4, <1>8 DEF Cost, points
  <1>12. NoDrift'
      <2>1. PICK t \in Nat : t = ideal'
          BY <1>7
      <2>2. PICK o \in Nat : o = origin'
          BY <1>7
      <2>3. PICK c \in Nat : c = changes'
          BY <1>7
      <2>4. PointsSince + points \in Nat
          BY <1>1, <1>2
      <2>5. /\ 0 <= t - Exactly(PointsSince + points, scan_speed) - Grain * (Anchor - o)
            /\ t - Exactly(PointsSince + points, scan_speed) - Grain * (Anchor - o) <= Grain * c
          BY <1>8, <2>1, <2>2, <2>3
      <2>6. /\ 0 <= t - Grain * ((Anchor + Span(PointsSince + points, scan_speed)) - o)
            /\ t - Grain * ((Anchor + Span(PointsSince + points, scan_speed)) - o) < Grain * (c + 1)
          BY <1>1, <1>2, <2>4, <2>5, ShortOfIdeal
      <2>7. Anchor + Span(PointsSince + points, scan_speed) = end
          BY DEF end
      <2>8. /\ 0 <= t - Grain * (end - o)
            /\ t - Grain * (end - o) < Grain * (c + 1)
          BY <2>6, <2>7
      <2>9. QED
          BY <1>4, <2>1, <2>2, <2>3, <2>8 DEF NoDrift
  <1>13. Streamed' /\ last_data_send' <= elapsed'
      BY <1>1, <1>4 DEF Streamed
  <1>14. prior'.end # -1 => Continuous' /\ BackOnlyFromAhead'
      <2> SUFFICES ASSUME chunkEnd # -1 PROVE Continuous' /\ BackOnlyFromAhead'
          BY <1>4
      <2>1. Streamed
          BY <1>6
      <2>2. LongIdle <=> elapsed - last_data_send > IdleAfter(last_chunk_duration)
          BY <2>1 DEF LongIdle
      <2>3. prior'.end = chunkEnd /\ prior'.sent = last_data_send /\ prior'.duration = last_chunk_duration
          BY <1>4
      <2>4. start = IF elapsed - last_data_send > IdleAfter(last_chunk_duration) THEN elapsed ELSE chunkEnd
          BY <1>6, <2>1, <2>2
      <2>5. Continuous'
          BY <1>4, <2>3, <2>4 DEF Continuous, IdleAfter
      <2>6. start < chunkEnd => /\ chunkEnd - last_data_send > ReanchorMinGap
                                /\ chunkEnd - last_data_send > 2 * last_chunk_duration
          BY <1>1, <1>3, <2>4 DEF IdleAfter
      <2>7. BackOnlyFromAhead'
          BY <1>4, <2>3, <2>6 DEF BackOnlyFromAhead
      <2>8. QED
          BY <2>5, <2>7
  <1>15. QED
      BY <1>9, <1>10, <1>11, <1>12, <1>13, <1>14 DEF ClockInv, StampsFollow

\* A chunk that is refused moves the anchor and leaves the rest.
LEMMA FailKeeps == ASSUME ClockInv, WriteFails PROVE ClockInv'
  <1> USE ClockAssumption
  <1>1. /\ timestamp_anchor' = Anchor /\ points_since_anchor' = PointsSince /\ anchor_pps' = scan_speed
        /\ changes' = NextChanges
        /\ elapsed' = elapsed /\ scan_speed' = scan_speed /\ origin' = origin /\ ideal' = ideal
        /\ last_data_send' = last_data_send /\ last_chunk_duration' = last_chunk_duration
        /\ chunkStart' = chunkStart /\ chunkEnd' = chunkEnd /\ prior' = prior
      BY DEF WriteFails, NextChanges, sentVars
  <1>2. Anchor \in Nat /\ PointsSince \in Nat
      BY ChunkStarts
  <1>3. changes \in Nat /\ NextChanges \in Nat /\ changes <= NextChanges /\ Grain \in Nat \ {0}
      BY DEF ClockInv, ClockTypeOK, NextChanges
  <1>4. ClockTypeOK'
      BY <1>1, <1>2, <1>3 DEF ClockInv, ClockTypeOK
  <1>5. (Streamed' <=> Streamed) /\ (FromClock' <=> FromClock)
      BY <1>1 DEF Streamed, FromClock, LongIdle, IdleAfter
  <1>6. ~FromClock => CurrentTimestamp' = chunkEnd
      BY <1>1, ChunkStarts DEF CurrentTimestamp
  <1>7. ~FromClock => 0 <= Cost' /\ Cost' <= Grain * changes'
      <2>1. Cost' = NextCost
          BY <1>1 DEF Cost, NextCost
      <2>2. QED
          BY <1>1, <2>1, CostGrows
  <1>8. Streamed => NoDrift'
      <2> SUFFICES ASSUME Streamed PROVE NoDrift'
          OBVIOUS
      <2>1. NoDrift
          BY DEF ClockInv, StampsFollow
      <2>2. PICK s \in Int : s = ideal - Grain * (chunkEnd - origin)
          BY <1>3 DEF ClockInv, ClockTypeOK
      <2>3. 0 <= s /\ s < Grain * (changes + 1)
          BY <2>1, <2>2 DEF NoDrift
      <2>4. Grain * (changes + 1) <= Grain * (NextChanges + 1)
          BY <1>3
      <2>5. 0 <= s /\ s < Grain * (NextChanges + 1)
          BY <1>3, <2>3, <2>4
      <2>6. QED
          BY <1>1, <2>2, <2>5 DEF NoDrift
  <1>9. StampsFollow'
      BY <1>1, <1>5, <1>8 DEF ClockInv, StampsFollow, Continuous, BackOnlyFromAhead, IdleAfter
  <1>10. QED
      BY <1>1, <1>4, <1>5, <1>6, <1>7, <1>9 DEF ClockInv

\* The clock and the speed: an idle that became long makes the next anchor the clock's.
LEMMA TimeKeeps ==
    ASSUME ClockInv, elapsed' \in Nat, elapsed' >= elapsed, scan_speed' \in Speeds,
           UNCHANGED <<stampVars, sentVars, exactVars>>
    PROVE  ClockInv'
  <1>1. /\ timestamp_anchor' = timestamp_anchor /\ points_since_anchor' = points_since_anchor
        /\ anchor_pps' = anchor_pps /\ changes' = changes /\ origin' = origin /\ ideal' = ideal
        /\ last_data_send' = last_data_send /\ last_chunk_duration' = last_chunk_duration
        /\ chunkStart' = chunkStart /\ chunkEnd' = chunkEnd /\ prior' = prior
      BY DEF stampVars, sentVars, exactVars
  <1>2. ClockTypeOK'
      BY <1>1 DEF ClockInv, ClockTypeOK
  <1>3. Streamed' <=> Streamed
      BY <1>1 DEF Streamed
  <1>4. /\ elapsed \in Nat /\ last_data_send \in Int /\ IdleAfter(last_chunk_duration) \in Nat
      BY ClockAssumption DEF ClockInv, ClockTypeOK, IdleAfter
  <1>5. elapsed - last_data_send > IdleAfter(last_chunk_duration)
            => elapsed' - last_data_send > IdleAfter(last_chunk_duration)
      BY <1>4
  <1>6. ~FromClock' => ~FromClock
      BY <1>1, <1>3, <1>5 DEF FromClock, LongIdle, IdleAfter
  <1>7. CurrentTimestamp' = CurrentTimestamp /\ Cost' = Cost
      BY <1>1 DEF CurrentTimestamp, Cost
  <1>8. StampsFollow'
      BY <1>1, <1>3 DEF ClockInv, StampsFollow, Continuous, BackOnlyFromAhead, NoDrift, IdleAfter
  <1>9. Streamed => last_data_send <= elapsed'
      BY <1>4 DEF ClockInv
  <1>10. QED
      BY <1>1, <1>2, <1>3, <1>6, <1>7, <1>8, <1>9 DEF ClockInv

\* Every step of the stream keeps the invariant.
LEMMA ClockStep ==
    ClockInv /\ [ClockNext]_clockVars => ClockInv'
  <1> SUFFICES ASSUME ClockInv, [ClockNext]_clockVars PROVE ClockInv'
      OBVIOUS
  <1>0. elapsed \in Nat /\ scan_speed \in Speeds
      BY DEF ClockInv, ClockTypeOK
  <1>1. CASE ClockAdvances
      BY <1>0, <1>1, TimeKeeps DEF ClockAdvances
  <1>2. ASSUME NEW pps \in Speeds, SetScanSpeed(pps) PROVE ClockInv'
      BY <1>0, <1>2, TimeKeeps DEF SetScanSpeed
  <1>3. CASE WriteFails
      BY <1>3, FailKeeps
  <1>4. CASE UNCHANGED clockVars
      BY <1>0, <1>4, TimeKeeps DEF clockVars
  <1>5. QED
      BY <1>1, <1>2, <1>3, <1>4, WriteKeeps DEF ClockNext

\* The chunks of an IDN stream follow one another for all speeds, sizes and times at which they are
\* written: without a gap or an overlap but after a long idle, backwards only from ahead, and without
\* drift.
THEOREM StampsAlwaysFollow == ClockSpec => []StampsFollow
  <1>1. ClockInv => StampsFollow
      BY DEF ClockInv
  <1>2. QED
      BY <1>1, ClockStarts, ClockStep, PTL DEF ClockSpec

-----------------------------------------------------------------------------
(***************************************************************************)
(* The resampler.  Neither of its properties is inductive.  RInv adds what *)
(* prune leaves behind: the buffer is the newest samples, it is not empty  *)
(* once there was input, and it reaches back to the predecessor of the     *)
(* next output.                                                            *)
(***************************************************************************)

Contiguous == buf_start + held = n_in
KeepsOne == n_in > 0 => held > 0
ReachesBack == buf_start = 0 \/ buf_start + 1 <= Index(from_rate, to_rate, n_out)
CarriesPhase == n_out = TotalEmittable(from_rate, to_rate, n_in)

RInv == ResamplerTypeOK /\ Contiguous /\ KeepsOne /\ ReachesBack /\ CarriesPhase

-------------------------------------------------------------------------------
\* Division rounds down.
LEMMA DivBounds ==
    ASSUME NEW a \in Nat, NEW b \in Nat \ {0}
    PROVE  /\ a \div b \in Nat
           /\ (a \div b) * b <= a
           /\ a < ((a \div b) + 1) * b
  BY SMTT(30)

\* Division is monotone.
LEMMA DivMonotone ==
    ASSUME NEW a \in Nat, NEW c \in Nat, a <= c, NEW b \in Nat \ {0}
    PROVE  a \div b <= c \div b
  BY SMTT(30)

\* total_emittable counts.
LEMMA EmittableType ==
    ASSUME NEW from \in Nat \ {0}, NEW to \in Nat \ {0}, NEW n \in Nat
    PROVE  TotalEmittable(from, to, n) \in Nat
  <1>1. CASE n = 0
    BY <1>1 DEF TotalEmittable
  <1>2. CASE n # 0
    <2>1. (n - 1) * to \in Nat
      BY <1>2, SMTT(30)
    <2>2. ((n - 1) * to) \div from \in Nat
      BY <2>1, DivBounds
    <2> QED
      BY <1>2, <2>2 DEF TotalEmittable
  <1> QED
    BY <1>1, <1>2

\* More input never makes fewer outputs possible.
LEMMA EmittableMonotone ==
    ASSUME NEW from \in Nat \ {0}, NEW to \in Nat \ {0}, NEW n \in Nat, NEW m \in Nat, n <= m
    PROVE  TotalEmittable(from, to, n) <= TotalEmittable(from, to, m)
  <1>1. CASE n = 0
    BY <1>1, EmittableType DEF TotalEmittable
  <1>2. CASE n # 0
    <2>1. (n - 1) * to \in Nat /\ (m - 1) * to \in Nat /\ (n - 1) * to <= (m - 1) * to
      BY <1>2, SMTT(30)
    <2>2. ((n - 1) * to) \div from <= ((m - 1) * to) \div from
      BY <2>1, DivMonotone
    <2>3. ((n - 1) * to) \div from \in Nat /\ ((m - 1) * to) \div from \in Nat
      BY <2>1, DivBounds
    <2> QED
      BY <1>2, <2>2, <2>3 DEF TotalEmittable
  <1> QED
    BY <1>1, <1>2

\* The sample at or before an output is a sample.
LEMMA IndexType ==
    ASSUME NEW from \in Nat \ {0}, NEW to \in Nat \ {0}, NEW n \in Nat
    PROVE  Index(from, to, n) \in Nat
  <1>1. n * from \in Nat
    BY SMTT(30)
  <1> QED
    BY <1>1, DivBounds DEF Index

\* Later outputs never look at earlier samples.
LEMMA IndexMonotone ==
    ASSUME NEW from \in Nat \ {0}, NEW to \in Nat \ {0}, NEW n \in Nat, NEW m \in Nat, n <= m
    PROVE  Index(from, to, n) <= Index(from, to, m)
  <1>1. n * from \in Nat /\ m * from \in Nat /\ n * from <= m * from
    BY SMTT(30)
  <1> QED
    BY <1>1, DivMonotone DEF Index

\* An output that total_emittable counts lies at or before the last sample.
LEMMA EmittableBehind ==
    ASSUME NEW from \in Nat \ {0}, NEW to \in Nat \ {0}, NEW N \in Nat \ {0},
           NEW n \in Nat, n < TotalEmittable(from, to, N)
    PROVE  n * from <= (N - 1) * to
  <1> DEFINE q == ((N - 1) * to) \div from
  <1>1. (N - 1) * to \in Nat
    BY SMTT(30)
  <1>2. q \in Nat /\ q * from <= (N - 1) * to
    BY <1>1, DivBounds
  <1>3. n <= q
    BY <1>2 DEF TotalEmittable
  <1>4. n * from <= q * from
    BY <1>2, <1>3, SMTT(30)
  <1>5. n * from \in Nat /\ q * from \in Nat
    BY <1>2, SMTT(30)
  <1> QED
    BY <1>1, <1>2, <1>4, <1>5

\* So the sample before it has come, and if it lies between two samples the later
\* one has come as well.
LEMMA IndexBehind ==
    ASSUME NEW from \in Nat \ {0}, NEW to \in Nat \ {0}, NEW N \in Nat \ {0},
           NEW n \in Nat, n < TotalEmittable(from, to, N)
    PROVE  /\ Index(from, to, n) <= N - 1
           /\ Between(from, to, n) => Index(from, to, n) + 1 <= N - 1
  <1> DEFINE p == n * from
             i == p \div to
  <1>1. p \in Nat /\ p <= (N - 1) * to
    BY EmittableBehind, SMTT(30)
  <1>2. i \in Nat /\ i * to <= p /\ p < (i + 1) * to
    BY <1>1, DivBounds
  <1>3. i <= N - 1
    BY <1>1, <1>2, SMTT(30)
  <1>4. p % to # 0 => i * to < p
    BY <1>1, <1>2, SMTT(30)
  <1>5. i * to < p => i + 1 <= N - 1
    BY <1>1, <1>2, SMTT(30)
  <1> QED
    BY <1>3, <1>4, <1>5 DEF Index, Between
-------------------------------------------------------------------------------
\* set_rates keeps the invariant, whether it resets the phase or not.
LEMMA SetRatesKeeps ==
    ASSUME RInv, NEW from \in Nat \ {0}, NEW to \in Nat \ {0}
    PROVE  LET i == InputsBefore(from, to)
               o == OutputsBefore(from, to)
               s == StartBefore(from, to)
               h == HeldBefore(from, to)
           IN  /\ i \in Nat /\ o \in Nat /\ s \in Nat /\ h \in Nat
               /\ s + h = i
               /\ i > 0 => h > 0
               /\ s = 0 \/ s + 1 <= Index(from, to, o)
               /\ o = TotalEmittable(from, to, i)
  <1> USE DEF InputsBefore, OutputsBefore, StartBefore, HeldBefore, Rephased
  <1>1. CASE from = from_rate /\ to = to_rate
    BY <1>1 DEF RInv, ResamplerTypeOK, Contiguous, KeepsOne, ReachesBack, CarriesPhase
  <1>2. CASE ~(from = from_rate /\ to = to_rate)
    BY <1>2 DEF TotalEmittable
  <1> QED
    BY <1>1, <1>2

\* Pruning drops a prefix, never the whole buffer, and never the predecessor of
\* the next output.
LEMMA PruneKeeps ==
    ASSUME NEW from \in Nat \ {0}, NEW to \in Nat \ {0}, NEW s \in Nat, NEW n \in Nat,
           NEW h \in Nat \ {0}, s = 0 \/ s + 1 <= Index(from, to, n)
    PROVE  LET t == PruneTo(from, to, s, n, h)
           IN  /\ t \in Nat /\ s <= t /\ t <= s + h - 1
               /\ t = 0 \/ t + 1 <= Index(from, to, n)
  <1> DEFINE k == Index(from, to, n)
  <1>1. k \in Nat
    BY IndexType
  <1>2. s = 0 \/ s + 1 <= k
    OBVIOUS
  <1> HIDE DEF k
  <1>3. PruneTo(from, to, s, n, h) =
            IF k - 1 <= s THEN s ELSE IF k - 1 <= s + h - 1 THEN k - 1 ELSE s + h - 1
    BY DEF PruneTo, k
  <1>4. Index(from, to, n) = k
    BY DEF k
  <1> QED
    BY <1>1, <1>2, <1>3, <1>4

\* A chunk keeps the invariant (StreamingResampler::process).
LEMMA ProcessKeeps ==
    ASSUME RInv, NEW from \in Nat \ {0}, NEW to \in Nat \ {0}, NEW len \in Nat \ {0},
           Process(from, to, len)
    PROVE  RInv'
  <1> DEFINE i == InputsBefore(from, to)
             o == OutputsBefore(from, to)
             s == StartBefore(from, to)
             h == HeldBefore(from, to)
             out == TotalEmittable(from, to, i + len)
             t == PruneTo(from, to, s, out, h + len)
  <1>1. /\ i \in Nat /\ o \in Nat /\ s \in Nat /\ h \in Nat
        /\ s + h = i
        /\ s = 0 \/ s + 1 <= Index(from, to, o)
        /\ o = TotalEmittable(from, to, i)
    BY SetRatesKeeps
  <1>2. /\ from_rate' = from /\ to_rate' = to
        /\ n_in' = i + len /\ n_out' = out
        /\ buf_start' = t /\ held' = (h + len) - (t - s)
    BY DEF Process
  <1> HIDE DEF i, o, s, h
  <1>3. i + len \in Nat /\ h + len \in Nat \ {0} /\ i <= i + len
    BY <1>1
  <1>4. out \in Nat /\ o <= out
    BY <1>1, <1>3, EmittableType, EmittableMonotone
  <1>5. Index(from, to, o) <= Index(from, to, out)
    BY <1>1, <1>4, IndexMonotone
  <1>6. Index(from, to, o) \in Nat /\ Index(from, to, out) \in Nat
    BY <1>1, <1>4, IndexType
  <1>7. s = 0 \/ s + 1 <= Index(from, to, out)
    BY <1>1, <1>5, <1>6
  <1>8. /\ t \in Nat /\ s <= t /\ t <= s + (h + len) - 1
        /\ t = 0 \/ t + 1 <= Index(from, to, out)
    <2> HIDE DEF out
    <2> QED
      BY <1>1, <1>3, <1>4, <1>7, PruneKeeps
  <1> HIDE DEF out, t
  <1>9. ResamplerTypeOK'
    BY <1>1, <1>2, <1>3, <1>4, <1>8 DEF ResamplerTypeOK
  <1>10. Contiguous' /\ KeepsOne'
    BY <1>1, <1>2, <1>8 DEF Contiguous, KeepsOne
  <1>11. ReachesBack'
    BY <1>2, <1>8 DEF ReachesBack
  <1>12. CarriesPhase'
    BY <1>2 DEF CarriesPhase, out
  <1> QED
    BY <1>9, <1>10, <1>11, <1>12 DEF RInv

\* Every operation of the resampler keeps the invariant.
LEMMA RInvStep ==
    ASSUME RInv, [ResamplerNext]_resamplerVars
    PROVE  RInv'
  <1>1. CASE Reset
    BY <1>1 DEF Reset, RInv, ResamplerTypeOK, Contiguous, KeepsOne, ReachesBack, CarriesPhase,
                TotalEmittable
  <1>2. ASSUME NEW from \in Rates, NEW to \in OutRates, SetRates(from, to)
        PROVE  RInv'
    <2>1. from \in Nat \ {0} /\ to \in Nat \ {0}
      BY ResamplerAssumption
    <2> QED
      BY <1>2, <2>1, SetRatesKeeps
         DEF SetRates, RInv, ResamplerTypeOK, Contiguous, KeepsOne, ReachesBack, CarriesPhase
  <1>3. ASSUME NEW from \in Rates, NEW to \in OutRates, NEW len \in ChunkLens,
               Process(from, to, len)
        PROVE  RInv'
    <2>1. from \in Nat \ {0} /\ to \in Nat \ {0} /\ len \in Nat \ {0}
      BY ResamplerAssumption
    <2> QED
      BY <1>3, <2>1, ProcessKeeps
  <1>4. CASE UNCHANGED resamplerVars
    BY <1>4 DEF resamplerVars, RInv, ResamplerTypeOK, Contiguous, KeepsOne, ReachesBack,
                CarriesPhase
  <1> QED
    BY <1>1, <1>2, <1>3, <1>4 DEF ResamplerNext

\* The invariant is what both properties need.
LEMMA RInvSuffices ==
    ASSUME RInv
    PROVE  ReadsTrue /\ NoSnap
  <1> SUFFICES ASSUME NEW len \in ChunkLens,
                      NEW n \in n_out .. (TotalEmittable(from_rate, to_rate, n_in + len) - 1)
               PROVE  /\ Reads(n, n_in + len, buf_start, held + len)
                      /\ Between(from_rate, to_rate, n) =>
                            Index(from_rate, to_rate, n) + 1 <= n_in + len - 1
    BY DEF ReadsTrue, NoSnap, RInv, CarriesPhase
  <1> DEFINE N == n_in + len
             k == Index(from_rate, to_rate, n)
  <1>1. /\ from_rate \in Nat \ {0} /\ to_rate \in Nat \ {0}
        /\ held \in Nat /\ buf_start \in Nat /\ n_in \in Nat /\ n_out \in Nat
        /\ buf_start + held = n_in
        /\ buf_start = 0 \/ buf_start + 1 <= Index(from_rate, to_rate, n_out)
    BY DEF RInv, ResamplerTypeOK, Contiguous, ReachesBack
  <1>2. len \in Nat \ {0} /\ N \in Nat \ {0}
    BY <1>1, ResamplerAssumption
  <1>3. n \in Nat /\ n_out <= n /\ n < TotalEmittable(from_rate, to_rate, N)
    BY <1>1, <1>2, EmittableType
  <1>4. /\ Index(from_rate, to_rate, n) <= N - 1
        /\ Between(from_rate, to_rate, n) => Index(from_rate, to_rate, n) + 1 <= N - 1
    <2> HIDE DEF N
    <2> QED
      BY <1>1, <1>2, <1>3, IndexBehind
  <1>5. Index(from_rate, to_rate, n_out) <= k
    BY <1>1, <1>3, IndexMonotone
  <1>6. k \in Nat /\ Index(from_rate, to_rate, n_out) \in Nat
    BY <1>1, <1>3, IndexType
  <1>7. (buf_start = 0 \/ buf_start + 1 <= k) /\ k <= N - 1
    BY <1>1, <1>4, <1>5, <1>6
  <1> HIDE DEF k
  <1>8. ASSUME NEW d \in {-1, 0, 1, 2}
        PROVE  LET i == Clamp(k + d, N - 1)
               IN  /\ buf_start <= i /\ i - buf_start < held + len
                   /\ (N - (held + len)) + (i - buf_start) = i
    BY <1>1, <1>2, <1>6, <1>7 DEF Clamp
  <1>9. Reads(n, n_in + len, buf_start, held + len)
    BY <1>8, Zenon DEF Reads, k
  <1> QED
    BY <1>1, <1>2, <1>4, <1>9

\* For any rates and any chunks: the resampler reads only samples it has, and
\* places every point as a single pass over the stream would (resample.rs).
THEOREM ResamplerSafety == ResamplerSpec => [](ReadsTrue /\ NoSnap)
  <1>1. ResamplerInit => RInv
    BY DEF ResamplerInit, RInv, ResamplerTypeOK, Contiguous, KeepsOne, ReachesBack, CarriesPhase,
           TotalEmittable
  <1>2. RInv /\ [ResamplerNext]_resamplerVars => RInv'
    BY RInvStep
  <1>3. RInv => ReadsTrue /\ NoSnap
    BY RInvSuffices
  <1> QED
    BY <1>1, <1>2, <1>3, PTL DEF ResamplerSpec

===============================================================================
