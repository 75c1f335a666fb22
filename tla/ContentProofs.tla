----------------------------- MODULE ContentProofs -----------------------------
(***************************************************************************)
(* Proofs about ContentSources, for any frames, seams, delays and chunks   *)
(* and any order of frames, arms, losses and reconnects:                   *)
(*   - ColorsDark (DarkWhenDue), by DarkInv: what is in the delay line;    *)
(*   - BeamContinuous (SeamContinuity), by PathInv: from the last point    *)
(*     that was drawn there is an unbroken path through the seam that is   *)
(*     left to the cursor;                                                 *)
(*   - ContentSafety (ContentSound), by SwapInv (a hardware frame is made  *)
(*     of a seam and a whole frame, or cut to its capacity), NewestInv and *)
(*     RepeatInv (a chunk repeats what was drawn last).                    *)
(* ContentInv is their conjunction with the types.                         *)
(***************************************************************************)
EXTENDS ContentSources, TLAPS, SequenceTheorems

-------------------------------------------------------------------------------
(* Sequences *)

\* A sequence given by its elements
LEMMA FunSeq ==
    ASSUME NEW S, NEW n \in Nat, NEW s, s \in [1..n -> S]
    PROVE  s \in Seq(S) /\ Len(s) = n /\ \A i \in 1..n : s[i] \in S
  BY IsASeq, LenProperties

LEMMA FillSeq ==
    ASSUME NEW S, NEW n \in Nat, NEW v \in S
    PROVE  Fill(n, v) \in Seq(S) /\ Len(Fill(n, v)) = n /\ \A i \in 1..n : Fill(n, v)[i] = v
<1>1. Fill(n, v) \in [1..n -> S] /\ \A i \in 1..n : Fill(n, v)[i] = v
  BY DEF Fill
<1> QED
  BY <1>1, FunSeq, Zenon

Joined(S, s, t, k, n) ==
    /\ s \o t \in Seq(S) /\ Len(s \o t) = k + n
    /\ \A i \in 1..(k + n) : (s \o t)[i] = IF i <= k THEN s[i] ELSE t[i - k]

LEMMA JoinSeq ==
    ASSUME NEW S, NEW s \in Seq(S), NEW t \in Seq(S), NEW k \in Nat, NEW n \in Nat, Len(s) = k, Len(t) = n
    PROVE  Joined(S, s, t, k, n)
  BY ConcatProperties DEF Joined

LEMMA LastOfSeq ==
    ASSUME NEW S, NEW s \in Seq(S), NEW k \in Nat, k <= Len(s)
    PROVE  /\ LastOf(s, k) \in Seq(S) /\ Len(LastOf(s, k)) = k
           /\ \A i \in 1..k : LastOf(s, k)[i] = s[Len(s) - k + i]
<1>1. LastOf(s, k) \in [1..k -> S] /\ \A i \in 1..k : LastOf(s, k)[i] = s[Len(s) - k + i]
  BY DEF LastOf
<1> QED
  BY <1>1, FunSeq, Zenon

-------------------------------------------------------------------------------
(* The colour delay line *)

\* Position i of the carry followed by a chunk
Stream(line, chunk, i) == IF i <= Len(line) THEN line[i] ELSE chunk[i - Len(line)]

\* What resize makes of the carry: the newest colours stay, black comes before them.
LEMMA ResizeSeq ==
    ASSUME NEW S, Dark \in S, NEW c \in Seq(S), NEW d \in Nat
    PROVE  /\ Resize(c, d) \in Seq(S) /\ Len(Resize(c, d)) = d
           /\ \A i \in 1..d : Resize(c, d)[i] = IF i + Len(c) - d >= 1 THEN c[i + Len(c) - d] ELSE Dark
<1>1. CASE d >= Len(c)
  <2>1. PICK k \in Nat : k = d - Len(c)
    BY <1>1
  <2> DEFINE f == Fill(k, Dark)
  <2>2. f \in Seq(S) /\ Len(f) = k /\ \A i \in 1..k : f[i] = Dark
    BY FillSeq, Zenon
  <2> HIDE DEF f
  <2>3. f \o c \in Seq(S) /\ Len(f \o c) = k + Len(c)
        /\ \A i \in 1..(k + Len(c)) : (f \o c)[i] = IF i <= k THEN f[i] ELSE c[i - k]
    <3>1. Len(c) \in Nat
      OBVIOUS
    <3>2. Joined(S, f, c, k, Len(c))
      BY <2>2, <3>1, JoinSeq, Zenon
    <3> QED
      BY <3>2 DEF Joined
  <2>4. Resize(c, d) = f \o c
    BY <1>1, <2>1 DEF Resize, f
  <2>5. ASSUME NEW i \in 1..d
        PROVE  (f \o c)[i] = IF i + Len(c) - d >= 1 THEN c[i + Len(c) - d] ELSE Dark
    <3>1. i + Len(c) - d = i - k /\ i \in 1..(k + Len(c))
      BY <2>1
    <3>2. (f \o c)[i] = IF i <= k THEN f[i] ELSE c[i - k]
      BY <2>3, <3>1, Zenon
    <3>3. i <= k => f[i] = Dark
      BY <2>2
    <3>4. i <= k <=> ~(i - k >= 1)
      OBVIOUS
    <3> QED
      BY <3>1, <3>2, <3>3, <3>4, Zenon
  <2>6. k + Len(c) = d
    BY <2>1
  <2> QED
    BY <2>3, <2>4, <2>5, <2>6, Zenon
<1>2. CASE ~(d >= Len(c))
  <2>1. Resize(c, d) = LastOf(c, d)
    BY <1>2 DEF Resize
  <2> QED
    BY <1>2, <2>1, LastOfSeq
<1> QED
  BY <1>1, <1>2

\* apply sends out the head of the carry followed by the chunk ...
LEMMA DelayedSeq ==
    ASSUME NEW S, NEW c \in Seq(S), NEW chunk \in Seq(S)
    PROVE  /\ Delayed(c, chunk) \in Seq(S) /\ Len(Delayed(c, chunk)) = Len(chunk)
           /\ \A i \in 1..Len(chunk) : Delayed(c, chunk)[i] = Stream(c, chunk, i)
<1>1. /\ Delayed(c, chunk) \in [1..Len(chunk) -> S]
      /\ \A i \in 1..Len(chunk) : Delayed(c, chunk)[i] = Stream(c, chunk, i)
  BY DEF Delayed, Stream
<1> QED
  BY <1>1, FunSeq

\* ... and keeps the rest.
LEMMA CarrySeq ==
    ASSUME NEW S, NEW c \in Seq(S), NEW chunk \in Seq(S)
    PROVE  /\ CarryAfter(c, chunk) \in Seq(S) /\ Len(CarryAfter(c, chunk)) = Len(c)
           /\ \A i \in 1..Len(c) : CarryAfter(c, chunk)[i] = Stream(c, chunk, Len(chunk) + i)
<1> DEFINE l == Len(c)  n == Len(chunk)
<1>0. l \in Nat /\ n \in Nat
  OBVIOUS
<1>1. CASE l <= n
  <2>1. CarryAfter(c, chunk) = LastOf(chunk, l)
    BY <1>1 DEF CarryAfter, Lesser
  <2>2. /\ LastOf(chunk, l) \in Seq(S) /\ Len(LastOf(chunk, l)) = l
        /\ \A i \in 1..l : LastOf(chunk, l)[i] = chunk[n - l + i]
    BY <1>0, <1>1, LastOfSeq
  <2>3. ASSUME NEW i \in 1..l PROVE chunk[n - l + i] = Stream(c, chunk, n + i)
    BY <1>0, <1>1 DEF Stream
  <2> QED
    BY <2>1, <2>2, <2>3
<1>2. CASE ~(l <= n)
  <2>1. PICK k \in Nat : k = l - n
    BY <1>0, <1>2
  <2> DEFINE a == LastOf(c, k)  b == LastOf(chunk, n)
  <2>2. CarryAfter(c, chunk) = a \o b
    BY <1>0, <1>2, <2>1 DEF CarryAfter, Lesser
  <2>a. k <= l /\ n <= n
    BY <1>0, <2>1
  <2>3. a \in Seq(S) /\ Len(a) = k /\ \A i \in 1..k : a[i] = c[l - k + i]
    BY <2>a, LastOfSeq, Zenon
  <2>4. b \in Seq(S) /\ Len(b) = n /\ \A i \in 1..n : b[i] = chunk[n - n + i]
    BY <1>0, <2>a, LastOfSeq, Zenon
  <2> HIDE DEF a, b
  <2>5. /\ a \o b \in Seq(S) /\ Len(a \o b) = k + n
        /\ \A i \in 1..(k + n) : (a \o b)[i] = IF i <= k THEN a[i] ELSE b[i - k]
    <3>1. Joined(S, a, b, k, n)
      BY <1>0, <2>3, <2>4, JoinSeq, Zenon
    <3> QED
      BY <3>1 DEF Joined
  <2>6. ASSUME NEW i \in 1..l PROVE (a \o b)[i] = Stream(c, chunk, n + i)
    <3>1. i \in 1..(k + n) /\ (a \o b)[i] = IF i <= k THEN a[i] ELSE b[i - k]
      BY <1>0, <2>1, <2>5
    <3>2. CASE i <= k
      <4>1. a[i] = c[l - k + i] /\ l - k + i = n + i /\ n + i <= l
        BY <1>0, <2>1, <2>3, <3>2
      <4> QED
        BY <3>1, <3>2, <4>1 DEF Stream
    <3>3. CASE ~(i <= k)
      <4>1. i - k \in 1..n /\ n - n + (i - k) = (n + i) - l /\ ~(n + i <= l)
        BY <1>0, <2>1, <3>3
      <4>2. b[i - k] = chunk[n - n + (i - k)]
        BY <2>4, <4>1, Zenon
      <4> QED
        BY <3>1, <3>3, <4>1, <4>2 DEF Stream
    <3> QED
      BY <3>2, <3>3
  <2>7. k + n = l
    BY <1>0, <2>1
  <2> QED
    BY <2>2, <2>5, <2>6, <2>7, Zenon
<1> QED
  BY <1>0, <1>1, <1>2

-------------------------------------------------------------------------------
(* Types *)

Flags == {dirty, tself, ended, clean, for_armed, repeat} \subseteq BOOLEAN

FrameTypes ==
    /\ current \in Frames \cup {None} /\ pending \in Frames \cup {None}
    /\ last_frame \in Frames \cup {None}
    /\ kind \in Kinds /\ pc \in {"idle", "fill", "filled"}

PointTypes ==
    /\ drawable \in Seq(Point) /\ tbuf \in Seq(Point) /\ buffer \in Seq(Point)
    /\ cursor \in Nat /\ tcursor \in Nat /\ want \in 0..MaxChunk
    /\ pc = "fill" => Len(buffer) < want

ChunkTypes ==
    /\ raw \in Seq(Point) /\ last_chunk \in Seq(Point)
    /\ fresh \in Names /\ written \subseteq Names

Colors == {Lit, Dark}

DelayTypes ==
    /\ delay \in 0..MaxDelay /\ blank_left \in 0..BlankPoints /\ owed \in 0..(BlankPoints + MaxDelay)
    /\ carry \in Seq(Colors) /\ Len(carry) <= MaxDelay /\ colors \in Seq(Colors)

\* The cursors stay inside what they point into, and there is a point to copy while
\* a chunk is being filled.
CursorInv ==
    /\ cursor <= Len(drawable) /\ tcursor <= Len(tbuf)
    /\ dirty => cursor = 0
    /\ kind # "fifo" => cursor = 0 /\ tbuf = <<>>
    /\ kind = "fifo" /\ ~dirty /\ drawable # <<>> => cursor < Len(drawable)
    /\ pc = "fill" => kind = "fifo" /\ ~dirty /\ drawable # <<>>

\* What a FIFO source traverses is the current frame, unless it has to be drawn anew.
Drawn == IF current = None THEN <<>> ELSE Points(current)

DrawnInv == kind = "fifo" /\ ~dirty => drawable = Drawn

ContentTypes == Flags /\ FrameTypes /\ PointTypes /\ ChunkTypes /\ DelayTypes /\ CursorInv /\ DrawnInv

LEMMA Lengths ==
    ASSUME NEW f \in Frames
    PROVE  FrameLen[f] \in Nat /\ f # None /\ Skip(f) \in 0..FrameLen[f] /\ (FrameLen[f] > 0 => Skip(f) < FrameLen[f])
  BY EngineAssumption DEF Skip

LEMMA Amounts == MaxSeam \in Nat /\ Capacity \in Nat \ {0} /\ MaxDelay \in Nat /\ BlankPoints \in Nat /\ MaxChunk \in Nat
  BY EngineAssumption, SourceAssumption

LEMMA IdleSeq == ASSUME NEW n \in Nat PROVE Fill(n, Idle) \in Seq(Point) /\ Len(Fill(n, Idle)) = n
<1>1. Idle \in Point
  BY DEF Point
<1> QED
  BY <1>1, FillSeq, Zenon

LEMMA PointsSeq ==
    ASSUME NEW f \in Frames
    PROVE  /\ Points(f) \in Seq(Point) /\ Len(Points(f)) = FrameLen[f]
           /\ \A i \in 1..FrameLen[f] : Points(f)[i] = <<"frame", f, i>>
<1>1. ASSUME NEW i \in 1..FrameLen[f] PROVE <<"frame", f, i>> \in Point
  <2>1. i \in Nat \ {0}
    BY Lengths
  <2> QED
    BY <2>1 DEF Point
<1>2. Points(f) \in [1..FrameLen[f] -> Point] /\ \A i \in 1..FrameLen[f] : Points(f)[i] = <<"frame", f, i>>
  BY <1>1, Zenon DEF Points
<1> QED
  BY <1>2, Lengths, FunSeq, Zenon

LEMMA SeamSeq ==
    ASSUME NEW f, NEW g, NEW n \in Nat, n > 0 => f \in Frames /\ g \in Frames
    PROVE  /\ SeamPoints(f, g, n) \in Seq(Point) /\ Len(SeamPoints(f, g, n)) = n
           /\ \A k \in 1..n : SeamPoints(f, g, n)[k] = <<"seam", f, g, k, n>>
<1>1. ASSUME NEW k \in 1..n PROVE <<"seam", f, g, k, n>> \in Point
  <2>1. k \in Nat /\ n > 0
    OBVIOUS
  <2> QED
    BY <2>1 DEF Point
<1>2. SeamPoints(f, g, n) \in [1..n -> Point] /\ \A k \in 1..n : SeamPoints(f, g, n)[k] = <<"seam", f, g, k, n>>
  BY <1>1, Zenon DEF SeamPoints
<1> QED
  BY <1>2, FunSeq, Zenon

\* A seam is planned between frames with points only.
LEMMA PlansType ==
    ASSUME NEW f \in Frames \cup {None}, NEW g \in Frames, NEW plan \in Plans(f, g)
    PROVE  /\ plan = Coalesce \/ plan \in Nat
           /\ plan # 0 => f \in Frames /\ FrameLen[f] > 0 /\ FrameLen[g] > 0
  BY Amounts DEF Plans, Coalesce

LEMMA PadTyped ==
    ASSUME NEW filled \in Seq(Point), want \in Nat, Len(filled) <= want, NEW now, PadOrGoOn(filled, now)
    PROVE  /\ buffer' \in Seq(Point) /\ pc' \in {"fill", "filled"}
           /\ pc' = "fill" => Len(buffer') < want
<1>1. CASE now = <<>>
  <2>1. PICK k \in Nat : k = want - Len(filled)
    OBVIOUS
  <2>2. Fill(k, Idle) \in Seq(Point)
    BY IdleSeq, Zenon
  <2>3. filled \o Fill(k, Idle) \in Seq(Point)
    BY <2>2
  <2> QED
    BY <1>1, <2>1, <2>3 DEF PadOrGoOn
<1>2. CASE now # <<>>
  BY <1>2 DEF PadOrGoOn
<1> QED
  BY <1>1, <1>2

LEMMA PromoteTyped ==
    ASSUME current \in Frames \cup {None}, pending \in Frames, NEW plan \in Plans(current, pending),
           NEW b \in Seq(Point), NEW c \in Nat, NEW l, PromotePending(plan, b, c, l)
    PROVE  drawable' \in Seq(Point) /\ tbuf' \in Seq(Point) /\ cursor' \in Nat /\ tcursor' \in Nat
<1>1. drawable' \in Seq(Point)
  BY PointsSeq, Zenon DEF PromotePending
<1>2. Skip(pending) \in Nat
  BY DEF Skip
<1>3. CASE plan = Coalesce
  BY <1>1, <1>2, <1>3 DEF PromotePending
<1>4. CASE plan # Coalesce
  <2>1. plan \in Nat /\ (plan > 0 => current \in Frames /\ pending \in Frames)
    BY <1>4, PlansType
  <2>2. SeamPoints(current, pending, plan) \in Seq(Point)
    BY <2>1, SeamSeq, Zenon
  <2> QED
    BY <1>1, <1>4, <2>2 DEF PromotePending
<1> QED
  BY <1>3, <1>4

LEMMA ClampSeq ==
    ASSUME NEW seam \in Seq(Point), NEW pts \in Seq(Point)
    PROVE  Clamp(seam, pts) \in Seq(Point)
<1> DEFINE excess == IF Len(seam) + Len(pts) > Capacity THEN Len(seam) + Len(pts) - Capacity ELSE 0
           trim == Lesser(excess, Len(seam))
           kept == SubSeq(seam, trim + 1, Len(seam)) \o pts
<1>1. trim \in 0..Len(seam)
  BY Amounts DEF Lesser
<1> HIDE DEF trim
<1>2. SubSeq(seam, trim + 1, Len(seam)) \in Seq(Point)
  BY <1>1
<1>3. kept \in Seq(Point)
  BY <1>2
<1>4. Clamp(seam, pts) = SubSeq(kept, 1, Lesser(Len(kept), Capacity))
  BY Zenon DEF Clamp, trim
<1> HIDE DEF kept
<1>5. Lesser(Len(kept), Capacity) \in 0..Len(kept)
  BY <1>3, Amounts DEF Lesser
<1> QED
  BY <1>3, <1>4, <1>5

\* The composed hardware frame is a sequence of points.
LEMMA ComposeTyped ==
    ASSUME FrameTypes, PointTypes, ComposeHardwareFrame
    PROVE  drawable' \in Seq(Point)
<1>0. <<>> \in Seq(Point) /\ <<Idle>> \in Seq(Point)
  BY DEF Point
<1>1. ASSUME NEW plan \in Coalesce..MaxSeam, ComposeChange(plan) PROVE drawable' \in Seq(Point)
  <2>1. pending \in Frames /\ plan \in Plans(current, pending)
    BY <1>1 DEF ComposeChange, FrameTypes
  <2>2. Points(pending) \in Seq(Point)
    BY <2>1, PointsSeq, Zenon
  <2>3. CASE plan = Coalesce
    <3>1. PICK k \in 1..2 : k = 1 + Skip(pending)
      BY DEF Skip
    <3>2. FrameLen[pending] \in Nat /\ Len(Points(pending)) = FrameLen[pending]
      BY <2>1, Lengths, PointsSeq, Zenon
    <3>3. SubSeq(Points(pending), k, FrameLen[pending]) \in Seq(Point)
      BY <2>2, <3>2
    <3>4. Clamp(<<>>, SubSeq(Points(pending), k, FrameLen[pending])) \in Seq(Point)
      BY <1>0, <3>3, ClampSeq, Zenon
    <3> QED
      BY <1>1, <2>3, <3>1, <3>4, Zenon DEF ComposeChange
  <2>4. CASE plan # Coalesce
    <3>1. plan \in Nat /\ (plan > 0 => current \in Frames /\ pending \in Frames)
      BY <2>1, <2>4, PlansType DEF FrameTypes
    <3>2. SeamPoints(current, pending, plan) \in Seq(Point)
      BY <3>1, SeamSeq, Zenon
    <3>3. Clamp(SeamPoints(current, pending, plan), Points(pending)) \in Seq(Point)
      BY <2>2, <3>2, ClampSeq, Zenon
    <3>4. OrIdle(Clamp(SeamPoints(current, pending, plan), Points(pending))) \in Seq(Point)
      BY <1>0, <3>3, Zenon DEF OrIdle
    <3> QED
      BY <1>1, <2>4, <3>4, Zenon DEF ComposeChange
  <2> QED
    BY <2>3, <2>4
<1>2. ASSUME NEW plan \in Coalesce..MaxSeam, ComposeSelfLoop(plan) PROVE drawable' \in Seq(Point)
  <2>1. CASE current = None
    BY <1>0, <1>2, <2>1, Zenon DEF ComposeSelfLoop
  <2>2. CASE current # None /\ FrameLen[current] = 0
    <3>1. ~(FrameLen[current] > 0)
      BY <2>2
    <3> QED
      BY <1>0, <1>2, <2>2, <3>1, Zenon DEF ComposeSelfLoop
  <2>3. CASE current # None /\ FrameLen[current] > 0
    <3>1. current \in Frames /\ FrameLen[current] \in Nat
      BY <2>3, Lengths DEF FrameTypes
    <3>2. Points(current) \in Seq(Point) /\ Len(Points(current)) = FrameLen[current]
      BY <3>1, PointsSeq, Zenon
    <3>3. PICK k \in 0..FrameLen[current] : k = FrameLen[current] - Skip(current)
      BY <2>3, <3>1 DEF Skip
    <3>4. SubSeq(Points(current), 1, k) \in Seq(Point)
      BY <3>1, <3>2
    <3>5. Clamp(<<>>, SubSeq(Points(current), 1, k)) \in Seq(Point)
      BY <1>0, <3>4, ClampSeq, Zenon
    <3>6. plan # Coalesce => SeamPoints(current, current, plan) \in Seq(Point)
      <4>1. plan # Coalesce => plan \in Nat
        BY Amounts DEF Coalesce
      <4> QED
        BY <3>1, <4>1, SeamSeq, Zenon
    <3>7. plan # Coalesce => Clamp(SeamPoints(current, current, plan), Points(current)) \in Seq(Point)
      BY <3>2, <3>6, ClampSeq, Zenon
    <3>8. drawable' = IF plan = Coalesce
                      THEN Clamp(<<>>, SubSeq(Points(current), 1, FrameLen[current] - Skip(current)))
                      ELSE Clamp(SeamPoints(current, current, plan), Points(current))
      <4>1. FrameLen[current] # 0
        BY <2>3, <3>1
      <4> QED
        BY <1>2, <2>3, <4>1, Zenon DEF ComposeSelfLoop
    <3> QED
      BY <3>3, <3>5, <3>7, <3>8, Zenon
  <2>4. current # None => FrameLen[current] \in Nat
    BY Lengths, Zenon DEF FrameTypes
  <2>5. current # None => FrameLen[current] = 0 \/ FrameLen[current] > 0
    BY <2>4
  <2> QED
    BY <2>1, <2>2, <2>3, <2>5
<1>3. ComposeCached => drawable' \in Seq(Point)
  BY Zenon DEF ComposeCached, PointTypes, frameVars
<1> QED
  BY <1>1, <1>2, <1>3, Zenon DEF ComposeHardwareFrame

\* A callback's chunk is a sequence of points.
LEMMA RawSeq ==
    ASSUME ChunkTypes, NEW n \in Nat, NEW filled \in 0..n, NEW k \in Names, NEW on \in BOOLEAN
    PROVE  RawChunk(n, filled, on, k) \in Seq(Point) /\ Fill(filled, <<"user", k>>) \in Seq(Point)
<1>1. <<"user", k>> \in Point
  BY DEF Point
<1>2. Fill(filled, <<"user", k>>) \in Seq(Point)
  <2>1. filled \in Nat
    OBVIOUS
  <2> QED
    BY <1>1, <2>1, FillSeq, Zenon
<1>3. PICK m \in Nat : m = n - filled
  OBVIOUS
<1>4. Fill(m, Idle) \in Seq(Point)
  BY IdleSeq, Zenon
<1>5. IdleRange(m) \in Seq(Point)
  <2>1. CASE last_chunk # <<>>
    <3>1. last_chunk \in Seq(Point) /\ Len(last_chunk) \in Nat \ {0}
      BY <2>1 DEF ChunkTypes
    <3>2. ASSUME NEW i \in 1..m PROVE last_chunk[((i - 1) % Len(last_chunk)) + 1] \in Point
      <4>1. PICK l \in Nat \ {0} : l = Len(last_chunk)
        BY <3>1
      <4>2. ((i - 1) % l) + 1 \in 1..l
        OBVIOUS
      <4> QED
        BY <3>1, <4>1, <4>2
    <3>3. [i \in 1..m |-> last_chunk[((i - 1) % Len(last_chunk)) + 1]] \in [1..m -> Point]
      BY <3>2, Zenon
    <3>4. [i \in 1..m |-> last_chunk[((i - 1) % Len(last_chunk)) + 1]] \in Seq(Point)
      BY <3>3, FunSeq, Zenon
    <3> QED
      BY <1>4, <3>4, Zenon DEF IdleRange
  <2>2. CASE last_chunk = <<>>
    BY <1>4, <2>2, Zenon DEF IdleRange
  <2> QED
    BY <2>1, <2>2
<1>6. (IF on THEN IdleRange(m) ELSE Fill(m, Idle)) \in Seq(Point)
  BY <1>4, <1>5, Zenon
<1>7. RawChunk(n, filled, on, k) = Fill(filled, <<"user", k>>) \o (IF on THEN IdleRange(m) ELSE Fill(m, Idle))
  BY <1>3, Zenon DEF RawChunk
<1> QED
  BY <1>2, <1>6, <1>7, ConcatProperties, Zenon

\* Every step composes sequences of points.
LEMMA PointsTyped == ASSUME ContentTypes, Next PROVE PointTypes'
<1> USE DEF engineVars, frameVars, seamVars, fillVars, delayVars, chunkVars
<1>0. FrameTypes /\ PointTypes /\ ChunkTypes /\ CursorInv /\ want \in Nat /\ MaxChunk \in Nat
  BY Amounts DEF ContentTypes, PointTypes
<1>1. CASE UNCHANGED <<seamVars, drawable, fillVars>>
  BY <1>0, <1>1 DEF PointTypes
<1>2. CASE \E f \in Frames : SubmitFrame(f)
  <2>1. UNCHANGED <<drawable, tbuf, tcursor, fillVars>> /\ cursor' \in {0, cursor}
    BY <1>2, Zenon DEF SubmitFrame, SetPending
  <2> QED
    BY <1>0, <2>1 DEF PointTypes
<1>3. CASE OnReconnect
  <2>1. \/ UNCHANGED <<seamVars, drawable, fillVars>>
        \/ cursor' = 0 /\ tcursor' = 0 /\ drawable' = <<>> /\ tbuf' = <<>> /\ UNCHANGED <<pc, want, buffer>>
    BY <1>3, Zenon DEF OnReconnect, ResetAndReplay
  <2>2. CASE cursor' = 0 /\ tcursor' = 0 /\ drawable' = <<>> /\ tbuf' = <<>> /\ UNCHANGED <<pc, want, buffer>>
    BY <1>0, <2>2 DEF PointTypes
  <2> QED
    BY <1>1, <2>1, <2>2, Zenon
<1>4. ASSUME NEW n \in 1..MaxChunk, BeginFill(n) PROVE PointTypes'
  <2>1. drawable' \in Seq(Point)
    <3>1. current # None => Points(current) \in Seq(Point)
      BY <1>0, PointsSeq, Zenon DEF FrameTypes
    <3>2. <<>> \in Seq(Point)
      OBVIOUS
    <3> QED
      BY <1>0, <1>4, <3>1, <3>2, Zenon DEF BeginFill, PointTypes
  <2>2. n \in Nat /\ Fill(n, Idle) \in Seq(Point)
    BY <1>0, IdleSeq
  <2>3. buffer' = <<>> \/ (buffer' = Fill(n, Idle) /\ pc' = "filled")
    BY <1>4, Zenon DEF BeginFill
  <2>4. buffer' \in Seq(Point) /\ (pc' = "fill" => Len(buffer') < n)
    <3>1. <<>> \in Seq(Point) /\ Len(<<>>) < n /\ "filled" # "fill"
      BY <1>0
    <3> QED
      BY <2>2, <2>3, <3>1, Zenon
  <2>5. want' = n /\ UNCHANGED seamVars
    BY <1>4, Zenon DEF BeginFill
  <2> QED
    BY <1>0, <2>1, <2>4, <2>5 DEF PointTypes
<1>5. CASE ComposeHardwareFrame
  <2>1. drawable' \in Seq(Point)
    BY <1>0, <1>5, ComposeTyped, Zenon
  <2>2. buffer' = drawable' /\ pc' = "filled" /\ UNCHANGED <<seamVars, want>>
    BY <1>5, Zenon DEF ComposeHardwareFrame
  <2> QED
    BY <1>0, <2>1, <2>2 DEF PointTypes
<1>6. ASSUME NEW n \in 1..MaxChunk, NEW filled \in 0..n, NEW k \in Names, NEW on \in BOOLEAN,
             ProduceChunk(n, filled, on, k) PROVE PointTypes'
  <2>1. n \in Nat
    BY <1>0
  <2>2. buffer' \in Seq(Point)
    BY <1>0, <1>6, <2>1, RawSeq, Zenon DEF ProduceChunk
  <2>3. want' = n /\ pc' = "filled" /\ UNCHANGED <<seamVars, drawable>>
    BY <1>6, Zenon DEF ProduceChunk
  <2> QED
    BY <1>0, <2>2, <2>3 DEF PointTypes
<1>7. ASSUME NEW filled \in 1..(MaxChunk - 1), NEW k \in Names, ProduceLast(filled, k) PROVE PointTypes'
  <2>1. filled \in Nat /\ filled \in 0..filled /\ filled \in 0..MaxChunk
    BY <1>0
  <2>2. buffer' \in Seq(Point)
    BY <1>0, <1>7, <2>1, RawSeq, Zenon DEF ProduceLast
  <2>3. want' = filled /\ pc' = "filled" /\ UNCHANGED <<seamVars, drawable>>
    BY <1>7, Zenon DEF ProduceLast
  <2> QED
    BY <1>0, <2>1, <2>2, <2>3 DEF PointTypes
<1>8. ASSUME FillStep PROVE PointTypes'
  <2>0. pc = "fill" /\ Len(buffer) < want
    BY <1>8, Zenon DEF FillStep, DropSelfLoop, DrainSeam, CopyPoint, Filling
  <2>1. CASE DropSelfLoop
    <3>1. pending \in Frames
      BY <1>0, <2>1, Zenon DEF DropSelfLoop, SelfLoopIsStale, FrameTypes
    <3>2. <<>> \in Seq(Point) /\ 0 \in Nat
      OBVIOUS
    <3>3. drawable' \in Seq(Point) /\ tbuf' \in Seq(Point) /\ cursor' \in Nat /\ tcursor' \in Nat
      BY <1>0, <2>1, <3>1, <3>2, PromoteTyped, Zenon DEF DropSelfLoop, FrameTypes
    <3>4. buffer \in Seq(Point) /\ Len(buffer) <= want /\ PadOrGoOn(buffer, drawable') /\ want' = want
      BY <1>0, <2>0, <2>1 DEF DropSelfLoop, PointTypes
    <3>5. buffer' \in Seq(Point) /\ (pc' = "fill" => Len(buffer') < want)
      BY <1>0, <3>4, PadTyped, Zenon
    <3> QED
      BY <1>0, <3>3, <3>4, <3>5 DEF PointTypes
  <2>2. CASE DrainSeam
    <3>1. tbuf[tcursor + 1] \in Point
      BY <1>0, <2>2 DEF DrainSeam, Draining, PointTypes
    <3>2. Append(buffer, tbuf[tcursor + 1]) \in Seq(Point) /\ Len(Append(buffer, tbuf[tcursor + 1])) <= want
      BY <1>0, <2>0, <3>1 DEF PointTypes
    <3>3. PadOrGoOn(Append(buffer, tbuf[tcursor + 1]), drawable)
      BY <2>2, Zenon DEF DrainSeam
    <3>4. buffer' \in Seq(Point) /\ (pc' = "fill" => Len(buffer') < want)
      BY <1>0, <3>2, <3>3, PadTyped, Zenon
    <3>5. tcursor' = tcursor + 1 /\ UNCHANGED <<frameVars, cursor, tbuf, want>>
      BY <2>2, Zenon DEF DrainSeam
    <3> QED
      BY <1>0, <3>4, <3>5 DEF PointTypes
  <2>3. CASE CopyPoint
    <3>1. drawable' \in Seq(Point) /\ tbuf' \in Seq(Point) /\ cursor' \in Nat /\ tcursor' \in Nat
      <4>1. CASE UNCHANGED <<frameVars, tbuf, tcursor, tself>> /\ cursor' = cursor + 1
        BY <1>0, <4>1 DEF PointTypes
      <4>2. CASE SeamToPending
        <5>1. pending \in Frames
          BY <1>0, <4>2, Zenon DEF SeamToPending, FrameTypes
        <5> QED
          BY <1>0, <4>2, <5>1, PromoteTyped, Zenon DEF SeamToPending, FrameTypes, PointTypes
      <4>3. CASE SeamToSelf
        <5>1. PICK plan \in Plans(current, current) :
                IF plan = Coalesce
                THEN cursor' = Skip(current) /\ UNCHANGED <<tbuf, tcursor, tself>>
                ELSE /\ cursor' = 0
                     /\ tbuf' = SeamPoints(current, current, plan) /\ tcursor' = 0 /\ tself' = TRUE
          BY <4>3, Zenon DEF SeamToSelf
        <5>2. drawable' = drawable
          BY <4>3, Zenon DEF SeamToSelf
        <5>3. CASE plan = Coalesce
          <6>1. Skip(current) \in Nat
            BY DEF Skip
          <6> QED
            BY <1>0, <5>1, <5>2, <5>3, <6>1 DEF PointTypes
        <5>4. CASE plan # Coalesce
          <6>1. plan \in Nat /\ (plan > 0 => current \in Frames)
            BY <1>0, <5>4, Amounts DEF Plans, Coalesce, FrameTypes
          <6>2. SeamPoints(current, current, plan) \in Seq(Point)
            BY <6>1, SeamSeq, Zenon
          <6> QED
            BY <1>0, <5>1, <5>2, <5>4, <6>2 DEF PointTypes
        <5> QED
          BY <5>3, <5>4
      <4> QED
        BY <2>3, <4>1, <4>2, <4>3, Zenon DEF CopyPoint
    <3>2. drawable[cursor + 1] \in Point
      <4>1. cursor < Len(drawable)
        BY <1>0, <2>0, Zenon DEF CursorInv
      <4> QED
        BY <1>0, <4>1 DEF PointTypes
    <3>3. Append(buffer, drawable[cursor + 1]) \in Seq(Point) /\ Len(Append(buffer, drawable[cursor + 1])) <= want
      BY <1>0, <2>0, <3>2 DEF PointTypes
    <3>4. PadOrGoOn(Append(buffer, drawable[cursor + 1]), drawable') /\ want' = want
      BY <2>3, Zenon DEF CopyPoint
    <3>5. buffer' \in Seq(Point) /\ (pc' = "fill" => Len(buffer') < want)
      BY <1>0, <3>3, <3>4, PadTyped, Zenon
    <3> QED
      BY <1>0, <3>1, <3>4, <3>5 DEF PointTypes
  <2> QED
    BY <1>8, <2>1, <2>2, <2>3, Zenon DEF FillStep
<1>9. CASE Present
  <2>1. pc' = "idle" /\ buffer' = <<>> /\ want' = 0 /\ UNCHANGED <<seamVars, drawable>>
    BY <1>9, Zenon DEF Present
  <2> QED
    BY <1>0, <2>1 DEF PointTypes
<1>10. ASSUME NEW on \in BOOLEAN, Produce(on) PROVE PointTypes'
  BY <1>4, <1>5, <1>6, <1>7, <1>10, Zenon DEF Produce, ProduceFifoChunk, ProduceFrameSwap
<1>11. (\E d \in 0..MaxDelay : SetColorDelay(d)) \/ OnDisarm \/ ArmStartupBlank \/ ProduceEnd
         \/ (\E on \in BOOLEAN : CommitWritten(on)) => UNCHANGED <<seamVars, drawable, fillVars>>
  BY Zenon DEF SetColorDelay, OnDisarm, ArmStartupBlank, ProduceEnd, CommitWritten
<1> QED
  BY <1>1, <1>2, <1>3, <1>8, <1>9, <1>10, <1>11, Zenon DEF Next, Application, Driver

LEMMA DrawnKept == ASSUME ContentTypes, Next PROVE DrawnInv'
<1> USE DEF engineVars, frameVars, seamVars, fillVars, delayVars, chunkVars
<1>0. FrameTypes /\ CursorInv /\ DrawnInv
  BY DEF ContentTypes
<1>1. CASE UNCHANGED <<kind, current, dirty, drawable>>
  BY <1>0, <1>1, Zenon DEF DrawnInv, Drawn
<1>2. CASE dirty' = TRUE
  BY <1>2, Zenon DEF DrawnInv
<1>3. CASE \E f \in Frames : SubmitFrame(f)
  BY <1>1, <1>2, <1>3, Zenon DEF SubmitFrame, SetPending
<1>4. CASE OnReconnect
  BY <1>1, <1>2, <1>4, Zenon DEF OnReconnect, ResetAndReplay
<1>5. ASSUME NEW n \in 1..MaxChunk, BeginFill(n), kind = "fifo", UNCHANGED kind PROVE DrawnInv'
  <2>1. drawable' = IF dirty THEN Drawn ELSE drawable
    BY <1>5, Zenon DEF BeginFill, Drawn
  <2>2. UNCHANGED current
    BY <1>5, Zenon DEF BeginFill
  <2> QED
    BY <1>0, <1>5, <2>1, <2>2, Zenon DEF DrawnInv, Drawn
<1>6. CASE kind' # "fifo"
  BY <1>6, Zenon DEF DrawnInv
<1>7. ASSUME pending # None, NEW plan, NEW b, NEW c, NEW l, PromotePending(plan, b, c, l) PROVE DrawnInv'
  BY <1>7, Zenon DEF PromotePending, DrawnInv, Drawn
<1>8. CASE FillStep
  <2>1. CASE DropSelfLoop
    BY <1>7, <2>1, Zenon DEF DropSelfLoop, SelfLoopIsStale
  <2>2. CASE CopyPoint
    BY <1>1, <1>7, <1>8, <2>2, Zenon DEF CopyPoint, SeamToPending, SeamToSelf, FillStep
  <2>3. CASE DrainSeam
    BY <1>1, <1>8, <2>3, Zenon DEF DrainSeam, FillStep
  <2> QED
    BY <1>8, <2>1, <2>2, <2>3, Zenon DEF FillStep
<1>9. CASE Present
  BY <1>1, <1>9, Zenon DEF Present
<1>10. ASSUME NEW on \in BOOLEAN, Produce(on) PROVE DrawnInv'
  <2>1. "swap" # "fifo" /\ UNCHANGED kind
    BY <1>10 DEF Produce
  <2> QED
    BY <1>1, <1>5, <1>6, <1>10, <2>1, Zenon DEF Produce, ProduceFifoChunk, ProduceFrameSwap, ProduceChunk, ProduceLast
<1>11. (\E d \in 0..MaxDelay : SetColorDelay(d)) \/ OnDisarm \/ ArmStartupBlank \/ ProduceEnd
         \/ (\E on \in BOOLEAN : CommitWritten(on)) => UNCHANGED <<kind, current, dirty, drawable>>
  BY Zenon DEF SetColorDelay, OnDisarm, ArmStartupBlank, ProduceEnd, CommitWritten
<1> QED
  BY <1>1, <1>3, <1>4, <1>8, <1>9, <1>10, <1>11, Zenon DEF Next, Application, Driver

\* What a promotion leaves
LEMMA PromoteCursor ==
    ASSUME current \in Frames \cup {None}, pending \in Frames, NEW plan \in Plans(current, pending),
           NEW b \in Seq(Point), NEW c \in Nat, NEW l, c <= Len(b), PromotePending(plan, b, c, l)
    PROVE  /\ cursor' <= Len(drawable') /\ tcursor' <= Len(tbuf')
           /\ ~dirty' /\ (drawable' # <<>> => cursor' < Len(drawable'))
<1>1. drawable' = Points(pending) /\ dirty' = FALSE
  BY Zenon DEF PromotePending
<1>2. PICK n \in Nat : n = FrameLen[pending] /\ Len(Points(pending)) = n /\ Points(pending) \in Seq(Point)
  BY Lengths, PointsSeq, Zenon
<1>3. Points(pending) # <<>> => n > 0
  BY <1>2
<1>4. Skip(pending) \in 0..n /\ (n > 0 => Skip(pending) < n)
  BY <1>2, Lengths, Zenon
<1>5. CASE plan = Coalesce
  <2>1. cursor' = Skip(pending) /\ tbuf' = b /\ tcursor' = c
    BY <1>5, Zenon DEF PromotePending
  <2> QED
    BY <1>1, <1>2, <1>3, <1>4, <2>1
<1>6. CASE plan # Coalesce
  <2>1. plan \in Nat /\ (plan > 0 => current \in Frames /\ pending \in Frames)
    BY <1>6, PlansType
  <2>2. Len(SeamPoints(current, pending, plan)) = plan
    BY <2>1, SeamSeq, Zenon
  <2>3. cursor' = 0 /\ tbuf' = SeamPoints(current, pending, plan) /\ tcursor' = 0
    BY <1>6, Zenon DEF PromotePending
  <2> QED
    BY <1>1, <1>2, <1>3, <2>1, <2>2, <2>3
<1> QED
  BY <1>5, <1>6

\* Padding or going on: a chunk goes on only if the frame has points.
LEMMA PadGoesOn ==
    ASSUME NEW filled, NEW now, PadOrGoOn(filled, now)
    PROVE  pc' = "fill" => now # <<>>
  BY DEF PadOrGoOn

LEMMA CursorKept == ASSUME ContentTypes, Next PROVE CursorInv'
<1> USE DEF engineVars, frameVars, seamVars, fillVars, delayVars, chunkVars
<1>0. FrameTypes /\ PointTypes /\ ChunkTypes /\ CursorInv /\ DrawnInv /\ Flags
  BY DEF ContentTypes
<1>a. cursor \in Nat /\ tcursor \in Nat /\ Len(drawable) \in Nat /\ Len(tbuf) \in Nat
  BY <1>0 DEF PointTypes
<1>1. CASE UNCHANGED <<kind, dirty, seamVars, drawable>> /\ (pc' = "fill" => pc = "fill")
  <2>1. pc' = "fill" => kind' = "fifo" /\ ~dirty' /\ drawable' # <<>>
    BY <1>0, <1>1, Zenon DEF CursorInv
  <2> QED
    BY <1>0, <1>1, <2>1, Zenon DEF CursorInv
<1>2. CASE \E f \in Frames : SubmitFrame(f)
  <2>1. CASE UNCHANGED <<kind, dirty, seamVars, drawable, pc>>
    BY <1>1, <2>1, Zenon
  <2>2. CASE dirty' = TRUE /\ cursor' = 0 /\ pc = "idle" /\ UNCHANGED <<kind, drawable, tbuf, tcursor, pc>>
    <3>1. 0 <= Len(drawable) /\ "idle" # "fill"
      BY <1>a
    <3> QED
      BY <1>0, <2>2, <3>1, Zenon DEF CursorInv
  <2> QED
    BY <1>2, <2>1, <2>2, Zenon DEF SubmitFrame, SetPending
<1>3. CASE OnReconnect
  <2>1. CASE UNCHANGED engineVars /\ UNCHANGED kind
    BY <1>1, <2>1, Zenon
  <2>2. CASE ResetAndReplay(Replay) /\ pc = "idle" /\ UNCHANGED <<pc, kind>>
    <3>1. "idle" # "fill" /\ 0 <= Len(<<>>)
      OBVIOUS
    <3> QED
      BY <2>2, <3>1, Zenon DEF ResetAndReplay, CursorInv
  <2> QED
    BY <1>3, <2>1, <2>2, Zenon DEF OnReconnect
<1>4. ASSUME NEW n \in 1..MaxChunk, BeginFill(n), kind = "fifo", UNCHANGED kind PROVE CursorInv'
  <2>1. dirty' = FALSE /\ UNCHANGED seamVars /\ (pc' = "fill" => drawable' # <<>>)
    <3>1. "filled" # "fill"
      OBVIOUS
    <3> QED
      BY <1>4, <3>1, Zenon DEF BeginFill
  <2>2. CASE ~dirty
    <3>1. drawable' = drawable
      BY <1>4, <2>2, Zenon DEF BeginFill
    <3> QED
      BY <1>0, <1>4, <2>1, <2>2, <3>1, Zenon DEF CursorInv
  <2>3. CASE dirty
    <3>1. drawable' \in Seq(Point)
      BY PointsTyped DEF PointTypes
    <3>2. cursor' = 0
      BY <1>0, <2>1, <2>3, Zenon DEF CursorInv
    <3>3. 0 <= Len(drawable') /\ (drawable' # <<>> => 0 < Len(drawable'))
      BY <3>1
    <3> QED
      BY <1>0, <1>4, <2>1, <3>2, <3>3, Zenon DEF CursorInv
  <2> QED
    BY <2>2, <2>3
<1>5. CASE ComposeHardwareFrame /\ kind = "swap" /\ UNCHANGED kind
  <2>1. drawable' \in Seq(Point)
    BY PointsTyped DEF PointTypes
  <2>2. UNCHANGED seamVars /\ pc' = "filled"
    BY <1>5, Zenon DEF ComposeHardwareFrame
  <2>3. 0 <= Len(drawable') /\ "filled" # "fill" /\ "swap" # "fifo"
    BY <2>1
  <2> QED
    BY <1>0, <1>5, <2>2, <2>3, Zenon DEF CursorInv
<1>6. ASSUME FillStep PROVE CursorInv'
  <2>0. pc = "fill" /\ kind' = kind
    BY <1>6, Zenon DEF FillStep, DropSelfLoop, DrainSeam, CopyPoint, Filling
  <2>a. kind = "fifo" /\ ~dirty /\ drawable # <<>> /\ cursor < Len(drawable)
    BY <1>0, <2>0, Zenon DEF CursorInv
  <2>1. CASE DropSelfLoop
    <3>1. pending \in Frames
      BY <1>0, <2>1, Zenon DEF DropSelfLoop, SelfLoopIsStale, FrameTypes
    <3>2. <<>> \in Seq(Point) /\ 0 \in Nat /\ 0 <= Len(<<>>)
      OBVIOUS
    <3>3. /\ cursor' <= Len(drawable') /\ tcursor' <= Len(tbuf')
          /\ ~dirty' /\ (drawable' # <<>> => cursor' < Len(drawable'))
      BY <1>0, <2>1, <3>1, <3>2, PromoteCursor, Zenon DEF DropSelfLoop, FrameTypes
    <3>4. pc' = "fill" => drawable' # <<>>
      BY <2>1, PadGoesOn, Zenon DEF DropSelfLoop
    <3> QED
      BY <2>0, <2>a, <3>3, <3>4, Zenon DEF CursorInv
  <2>2. CASE DrainSeam
    <3>1. tcursor + 1 <= Len(tbuf)
      BY <1>a, <2>2 DEF DrainSeam, Draining
    <3>2. tcursor' = tcursor + 1 /\ UNCHANGED <<frameVars, cursor, tbuf>>
      BY <2>2, Zenon DEF DrainSeam
    <3> QED
      BY <1>0, <2>0, <2>a, <3>1, <3>2, Zenon DEF CursorInv
  <2>3. CASE CopyPoint
    <3>4. pc' = "fill" => drawable' # <<>>
      BY <2>3, PadGoesOn, Zenon DEF CopyPoint
    <3> SUFFICES /\ cursor' <= Len(drawable') /\ tcursor' <= Len(tbuf')
                 /\ ~dirty' /\ (drawable' # <<>> => cursor' < Len(drawable'))
      BY <2>0, <2>a, <3>4, Zenon DEF CursorInv
    <3>1. CASE UNCHANGED <<frameVars, tbuf, tcursor, tself>> /\ cursor' = cursor + 1 /\ cursor + 1 < Len(drawable)
      <4>1. cursor + 1 <= Len(drawable)
        BY <1>a, <3>1
      <4> QED
        BY <1>0, <2>a, <3>1, <4>1, Zenon DEF CursorInv
    <3>2. CASE SeamToPending
      <4>1. pending \in Frames
        BY <1>0, <3>2, Zenon DEF SeamToPending, FrameTypes
      <4> QED
        BY <1>0, <3>2, <4>1, PromoteCursor, Zenon DEF SeamToPending, FrameTypes, PointTypes, CursorInv
    <3>3. CASE SeamToSelf
      <4>1. PICK plan \in Plans(current, current) :
                IF plan = Coalesce
                THEN cursor' = Skip(current) /\ UNCHANGED <<tbuf, tcursor, tself>>
                ELSE /\ cursor' = 0
                     /\ tbuf' = SeamPoints(current, current, plan) /\ tcursor' = 0 /\ tself' = TRUE
        BY <3>3, Zenon DEF SeamToSelf
      <4>2. UNCHANGED frameVars
        BY <3>3, Zenon DEF SeamToSelf
      <4>3. CASE plan = Coalesce
        <5>1. cursor' = Skip(current) /\ UNCHANGED <<tbuf, tcursor, tself>>
          BY <4>1, <4>3, Zenon
        <5>2. Skip(current) < Len(drawable) /\ Skip(current) <= Len(drawable)
          <6>1. drawable = Points(current) /\ current # None
            BY <1>0, <2>a, Zenon DEF DrawnInv, Drawn
          <6>2. PICK n \in Nat : n = Len(drawable) /\ Skip(current) \in 0..n /\ (n > 0 => Skip(current) < n)
            BY <1>0, <6>1, Lengths, PointsSeq, Zenon DEF FrameTypes
          <6>3. n > 0
            BY <1>a, <2>a, <6>2
          <6> QED
            BY <6>2, <6>3
        <5> QED
          BY <1>0, <2>a, <4>2, <5>1, <5>2, Zenon DEF CursorInv
      <4>4. CASE plan # Coalesce
        <5>1. plan \in Nat /\ (plan > 0 => current \in Frames)
          BY <1>0, <4>4, Amounts DEF Plans, Coalesce, FrameTypes
        <5>2. Len(SeamPoints(current, current, plan)) = plan
          BY <5>1, SeamSeq, Zenon
        <5>3. 0 <= Len(SeamPoints(current, current, plan)) /\ 0 < Len(drawable) /\ 0 <= Len(drawable)
          BY <1>a, <2>a, <5>1, <5>2
        <5> QED
          BY <2>a, <4>1, <4>2, <4>4, <5>3, Zenon
      <4> QED
        BY <4>3, <4>4
    <3> QED
      BY <2>3, <3>1, <3>2, <3>3, Zenon DEF CopyPoint
  <2> QED
    BY <1>6, <2>1, <2>2, <2>3, Zenon DEF FillStep
<1>7. CASE Present
  <2>1. "idle" # "fill"
    OBVIOUS
  <2> QED
    BY <1>1, <1>7, <2>1, Zenon DEF Present
<1>8. ASSUME NEW on \in BOOLEAN, Produce(on) PROVE CursorInv'
  <2>1. ASSUME NEW n \in 1..MaxChunk, NEW filled, NEW k, ProduceChunk(n, filled, on, k) PROVE CursorInv'
    <3>1. "filled" # "fill"
      OBVIOUS
    <3> QED
      BY <1>1, <1>8, <2>1, <3>1, Zenon DEF ProduceChunk, Produce
  <2>2. ASSUME NEW filled, NEW k, ProduceLast(filled, k) PROVE CursorInv'
    <3>1. "filled" # "fill"
      OBVIOUS
    <3> QED
      BY <1>1, <1>8, <2>2, <3>1, Zenon DEF ProduceLast, Produce
  <2> QED
    BY <1>4, <1>5, <1>8, <2>1, <2>2, Zenon DEF Produce, ProduceFifoChunk, ProduceFrameSwap
<1>9. (\E d \in 0..MaxDelay : SetColorDelay(d)) \/ OnDisarm \/ ArmStartupBlank \/ ProduceEnd
         \/ (\E on \in BOOLEAN : CommitWritten(on)) => UNCHANGED <<kind, dirty, seamVars, drawable, pc>>
  BY Zenon DEF SetColorDelay, OnDisarm, ArmStartupBlank, ProduceEnd, CommitWritten
<1> QED
  BY <1>1, <1>2, <1>3, <1>6, <1>7, <1>8, <1>9, Zenon DEF Next, Application, Driver

LEMMA FlagsKept == ASSUME ContentTypes, Next PROVE Flags'
<1> USE DEF engineVars, frameVars, seamVars, fillVars, delayVars, chunkVars
<1>0. Flags
  BY DEF ContentTypes
<1>1. repeat' = repeat
  BY Zenon DEF Next, Application, Driver, SubmitFrame, SetColorDelay, OnDisarm, ArmStartupBlank, OnReconnect,
     CommitWritten, Produce, ProduceEnd, FillStep, Present
<1>2. ended' \in BOOLEAN
  BY <1>0, Zenon DEF Next, Application, Driver, SubmitFrame, SetColorDelay, OnDisarm, ArmStartupBlank, OnReconnect,
     CommitWritten, Produce, ProduceFifoChunk, ProduceFrameSwap, ProduceChunk, ProduceLast, ProduceEnd, FillStep,
     Present, Flags
<1>3. clean' \in BOOLEAN
  BY <1>0, Zenon DEF Next, Application, Driver, SubmitFrame, SetColorDelay, OnDisarm, ArmStartupBlank, OnReconnect,
     CommitWritten, Produce, ProduceEnd, FillStep, Present, Flags
<1>4. for_armed' \in BOOLEAN
  BY <1>0, Zenon DEF Next, Application, Driver, SubmitFrame, SetColorDelay, OnDisarm, ArmStartupBlank, OnReconnect,
     CommitWritten, Produce, ProduceEnd, FillStep, Present, Flags
<1>5. dirty' \in BOOLEAN
  BY <1>0, Zenon DEF Next, Application, Driver, SubmitFrame, SetColorDelay, OnDisarm, ArmStartupBlank, OnReconnect,
     CommitWritten, Produce, ProduceFifoChunk, ProduceFrameSwap, ProduceChunk, ProduceLast, ProduceEnd, FillStep,
     Present, Flags, SetPending, ResetAndReplay, BeginFill, ComposeHardwareFrame, ComposeChange, ComposeSelfLoop,
     ComposeCached, DropSelfLoop, DrainSeam, CopyPoint, SeamToPending, SeamToSelf, PromotePending
<1>6. tself' \in BOOLEAN
  BY <1>0, Zenon DEF Next, Application, Driver, SubmitFrame, SetColorDelay, OnDisarm, ArmStartupBlank, OnReconnect,
     CommitWritten, Produce, ProduceFifoChunk, ProduceFrameSwap, ProduceChunk, ProduceLast, ProduceEnd, FillStep,
     Present, Flags, SetPending, ResetAndReplay, BeginFill, ComposeHardwareFrame,
     DropSelfLoop, DrainSeam, CopyPoint, SeamToPending, SeamToSelf, PromotePending
<1> QED
  BY <1>0, <1>1, <1>2, <1>3, <1>4, <1>5, <1>6, Zenon DEF Flags

LEMMA FramesKept == ASSUME ContentTypes, Next PROVE FrameTypes'
<1> USE DEF engineVars, frameVars, seamVars, fillVars, delayVars, chunkVars
<1>0. FrameTypes /\ PointTypes /\ pc \in {"idle", "fill", "filled"}
  BY DEF ContentTypes, FrameTypes
<1>1. kind' = kind
  BY Zenon DEF Next, Application, Driver, SubmitFrame, SetColorDelay, OnDisarm, ArmStartupBlank, OnReconnect,
     CommitWritten, Produce, ProduceEnd, FillStep, Present
<1>2. last_frame' \in Frames \cup {None}
  BY <1>0, Zenon DEF Next, Application, Driver, SubmitFrame, SetColorDelay, OnDisarm, ArmStartupBlank, OnReconnect,
     CommitWritten, Produce, ProduceEnd, FillStep, Present, FrameTypes
<1>3. pc' \in {"idle", "fill", "filled"}
  BY <1>0, Zenon DEF Next, Application, Driver, SubmitFrame, SetColorDelay, OnDisarm, ArmStartupBlank, OnReconnect,
     CommitWritten, Produce, ProduceFifoChunk, ProduceFrameSwap, ProduceChunk, ProduceLast, ProduceEnd, FillStep,
     Present, ComposeHardwareFrame, BeginFill, DropSelfLoop, DrainSeam, CopyPoint, PadOrGoOn
<1>4. current' \in Frames \cup {None} /\ pending' \in Frames \cup {None}
  <2>1. CASE \E f \in Frames : SubmitFrame(f)
    BY <1>0, <2>1, Zenon DEF SubmitFrame, SetPending, FrameTypes
  <2>2. CASE OnReconnect
    BY <1>0, <2>2, Zenon DEF OnReconnect, ResetAndReplay, Replay, FrameTypes
  <2>3. CASE FillStep
    BY <1>0, <2>3, Zenon DEF FillStep, DropSelfLoop, DrainSeam, CopyPoint, SeamToPending, SeamToSelf, PromotePending, FrameTypes
  <2>4. CASE \E on \in BOOLEAN : Produce(on)
    BY <1>0, <2>4, Zenon DEF Produce, ProduceFifoChunk, ProduceFrameSwap, ProduceChunk, ProduceLast, BeginFill,
       ComposeHardwareFrame, ComposeChange, ComposeSelfLoop, ComposeCached, FrameTypes
  <2>5. CASE UNCHANGED <<current, pending>>
    BY <1>0, <2>5, Zenon DEF FrameTypes
  <2>6. Present \/ (\E d \in 0..MaxDelay : SetColorDelay(d)) \/ OnDisarm \/ ArmStartupBlank \/ ProduceEnd
          \/ (\E on \in BOOLEAN : CommitWritten(on)) => UNCHANGED <<current, pending>>
    BY Zenon DEF Present, SetColorDelay, OnDisarm, ArmStartupBlank, ProduceEnd, CommitWritten
  <2> QED
    BY <2>1, <2>2, <2>3, <2>4, <2>5, <2>6, Zenon DEF Next, Application, Driver
<1> QED
  BY <1>0, <1>1, <1>2, <1>3, <1>4, Zenon DEF FrameTypes

LEMMA ChunksKept == ASSUME ContentTypes, Next PROVE ChunkTypes'
<1> USE DEF engineVars, frameVars, seamVars, fillVars, delayVars, chunkVars
<1>0. ChunkTypes /\ <<>> \in Seq(Point)
  BY DEF ContentTypes
<1>1. CASE UNCHANGED chunkVars
  BY <1>0, <1>1, Zenon DEF ChunkTypes
<1>2. CASE OnReconnect
  BY <1>0, <1>1, <1>2, Zenon DEF OnReconnect, ChunkTypes
<1>3. CASE \E on \in BOOLEAN : CommitWritten(on)
  BY <1>0, <1>3, Zenon DEF CommitWritten, ChunkTypes
<1>4. ASSUME NEW on \in BOOLEAN, Produce(on) PROVE ChunkTypes'
  <2>1. ASSUME NEW n \in 1..MaxChunk, NEW filled \in 0..n, NEW k \in Names, ProduceChunk(n, filled, on, k)
        PROVE  ChunkTypes'
    <3>1. n \in Nat
      BY Amounts
    <3>2. raw' \in Seq(Point)
      BY <1>0, <2>1, <3>1, RawSeq, Zenon DEF ProduceChunk
    <3> QED
      BY <1>0, <2>1, <3>2, Zenon DEF ProduceChunk, ChunkTypes
  <2>2. ASSUME NEW filled \in 1..(MaxChunk - 1), NEW k \in Names, ProduceLast(filled, k) PROVE ChunkTypes'
    <3>1. filled \in Nat /\ filled \in 0..filled
      BY Amounts
    <3>2. raw' \in Seq(Point)
      BY <1>0, <2>2, <3>1, RawSeq, Zenon DEF ProduceLast
    <3> QED
      BY <1>0, <2>2, <3>2, Zenon DEF ProduceLast, ChunkTypes
  <2> QED
    BY <1>1, <1>4, <2>1, <2>2, Zenon DEF Produce, ProduceFifoChunk, ProduceFrameSwap
<1>5. ProduceEnd => ChunkTypes'
  BY <1>0, Zenon DEF ProduceEnd, ChunkTypes
<1>6. Application \/ OnDisarm \/ ArmStartupBlank \/ FillStep \/ Present => UNCHANGED chunkVars
  BY Zenon DEF Application, SubmitFrame, SetColorDelay, OnDisarm, ArmStartupBlank, FillStep, Present
<1> QED
  BY <1>1, <1>2, <1>3, <1>4, <1>5, <1>6, Zenon DEF Next, Driver

-------------------------------------------------------------------------------
(* Darkness *)

AllDark(s) == \A i \in 1..Len(s) : s[i] = Dark

\* The first n colours of s are dark.
DarkUpTo(s, n) == \A i \in 1..Len(s) : i <= n => s[i] = Dark

\* The inductive invariant behind DarkWhenDue.  A carry that nothing lit was composed into is
\* dark; what an arm still owes is dark in the carry, as far as the delay asked for by now lets
\* it out, or comes from the startup-blank window; and a slice is cached only between calls.
DarkInv ==
    /\ clean => AllDark(carry)
    /\ owed <= blank_left + delay
    /\ owed > 0 => DarkUpTo(carry, owed + Len(carry) - delay)
    /\ pc # "idle" => colors = <<>>
    /\ DisarmedDark

\* The colours that leave the delay line next: what is owed is dark ...
LEMMA StreamOwed ==
    ASSUME NEW c \in Seq(Colors), NEW d \in Nat, NEW b \in Nat, NEW o \in Nat, NEW chunk \in Seq(Colors),
           o <= b + d, o > 0 => DarkUpTo(c, o + Len(c) - d), DarkUpTo(chunk, b),
           NEW i \in 1..(d + Len(chunk)), i <= o
    PROVE  Stream(Resize(c, d), chunk, i) = Dark
<1>0. Dark \in Colors /\ Len(c) \in Nat /\ Len(chunk) \in Nat
  BY DEF Colors
<1>1. /\ Resize(c, d) \in Seq(Colors) /\ Len(Resize(c, d)) = d
      /\ \A k \in 1..d : Resize(c, d)[k] = IF k + Len(c) - d >= 1 THEN c[k + Len(c) - d] ELSE Dark
  BY <1>0, ResizeSeq, Zenon
<1>2. CASE i <= d
  <2>1. i \in 1..d /\ o > 0
    BY <1>0, <1>2
  <2>2. Resize(c, d)[i] = IF i + Len(c) - d >= 1 THEN c[i + Len(c) - d] ELSE Dark
    BY <1>1, <2>1, Zenon
  <2>3. i + Len(c) - d >= 1 => c[i + Len(c) - d] = Dark
    <3>1. i + Len(c) - d >= 1 => i + Len(c) - d \in 1..Len(c) /\ i + Len(c) - d <= o + Len(c) - d
      BY <1>0, <2>1
    <3> QED
      BY <2>1, <3>1, Zenon DEF DarkUpTo
  <2>4. Stream(Resize(c, d), chunk, i) = Resize(c, d)[i]
    BY <1>1, <1>2, Zenon DEF Stream
  <2> QED
    BY <2>2, <2>3, <2>4, Zenon
<1>3. CASE ~(i <= d)
  <2>1. i - d \in 1..Len(chunk) /\ i - d <= b
    BY <1>0, <1>3
  <2>2. Stream(Resize(c, d), chunk, i) = chunk[i - d]
    BY <1>1, <1>3, Zenon DEF Stream
  <2> QED
    BY <2>1, <2>2, Zenon DEF DarkUpTo
<1> QED
  BY <1>2, <1>3

\* ... and everything is, when the carry and the chunk are.
LEMMA StreamAllDark ==
    ASSUME NEW c \in Seq(Colors), NEW d \in Nat, NEW chunk \in Seq(Colors), AllDark(c), AllDark(chunk),
           NEW i \in 1..(d + Len(chunk))
    PROVE  Stream(Resize(c, d), chunk, i) = Dark
<1>1. Len(c) \in Nat /\ Len(chunk) \in Nat
  OBVIOUS
<1>2. PICK o \in Nat : o = d + Len(chunk)
  BY <1>1
<1>3. o <= Len(chunk) + d /\ i <= o
  BY <1>1, <1>2
<1>4. DarkUpTo(c, o + Len(c) - d) /\ DarkUpTo(chunk, Len(chunk))
  BY Zenon DEF AllDark, DarkUpTo
<1> QED
  BY <1>1, <1>3, <1>4, StreamOwed, Zenon

\* apply_blanking
LEMMA BlankedSeq ==
    ASSUME buffer \in Seq(Point), blank_left \in Nat, NEW on \in BOOLEAN
    PROVE  /\ Blanked(on) \in Seq(Colors) /\ Len(Blanked(on)) = Len(buffer)
           /\ DarkUpTo(Blanked(on), blank_left) /\ (~on => AllDark(Blanked(on)))
<1>1. /\ Blanked(on) \in [1..Len(buffer) -> Colors]
      /\ \A i \in 1..Len(buffer) : Blanked(on)[i] = IF ~on \/ i <= blank_left THEN Dark ELSE ColorOf(buffer[i])
  <2>1. \A p : ColorOf(p) \in Colors
    BY DEF ColorOf, Colors
  <2>2. Dark \in Colors
    BY DEF Colors
  <2> QED
    BY <2>1, <2>2, Zenon DEF Blanked
<1>2. Len(buffer) \in Nat
  OBVIOUS
<1>3. Blanked(on) \in Seq(Colors) /\ Len(Blanked(on)) = Len(buffer)
  BY <1>1, <1>2, FunSeq, Zenon
<1>4. DarkUpTo(Blanked(on), blank_left)
  BY <1>1, <1>3, Zenon DEF DarkUpTo
<1>5. ~on => AllDark(Blanked(on))
  BY <1>1, <1>3, Zenon DEF AllDark
<1> QED
  BY <1>3, <1>4, <1>5

LEMMA PresentDark ==
    ASSUME ContentTypes, DarkInv, Present, buffer # <<>>
    PROVE  DelayTypes' /\ DarkInv' /\ StartupDark
<1> DEFINE n == Len(buffer)
           input == Blanked(for_armed)
           line == Resize(carry, delay)
<1>0. /\ delay \in 0..MaxDelay /\ delay \in Nat /\ blank_left \in 0..BlankPoints /\ blank_left \in Nat
      /\ owed \in 0..(BlankPoints + MaxDelay) /\ owed \in Nat
      /\ n \in Nat /\ n > 0 /\ BlankPoints \in Nat /\ MaxDelay \in Nat
  BY Amounts DEF ContentTypes, DelayTypes, PointTypes
<1>a. carry \in Seq(Colors) /\ buffer \in Seq(Point) /\ for_armed \in BOOLEAN
  BY Zenon DEF ContentTypes, DelayTypes, PointTypes, Flags
<1>1. /\ pc' = "idle" /\ delay' = delay /\ for_armed' = for_armed
      /\ colors' = Delayed(line, input) /\ carry' = CarryAfter(line, input)
      /\ blank_left' = (IF for_armed THEN blank_left - Lesser(blank_left, n) ELSE blank_left)
      /\ (clean' => clean /\ ~for_armed)
      /\ owed' = owed - Lesser(owed, n)
  BY Zenon DEF Present
<1>2. input \in Seq(Colors) /\ Len(input) = n /\ DarkUpTo(input, blank_left) /\ (~for_armed => AllDark(input))
  BY <1>0, <1>a, BlankedSeq, Zenon
<1>3. line \in Seq(Colors) /\ Len(line) = delay
  <2>1. Dark \in Colors
    BY DEF Colors
  <2> QED
    BY <1>0, <1>a, <2>1, ResizeSeq, Zenon
<1> HIDE DEF input, line, n
<1>4. /\ colors' \in Seq(Colors) /\ Len(colors') = n
      /\ \A i \in 1..n : colors'[i] = Stream(line, input, i)
  BY <1>1, <1>2, <1>3, DelayedSeq, Zenon
<1>5. /\ carry' \in Seq(Colors) /\ Len(carry') = delay
      /\ \A i \in 1..delay : carry'[i] = Stream(line, input, n + i)
  <2>1. /\ CarryAfter(line, input) \in Seq(Colors) /\ Len(CarryAfter(line, input)) = Len(line)
        /\ \A i \in 1..Len(line) : CarryAfter(line, input)[i] = Stream(line, input, Len(input) + i)
    <3>1. line \in Seq(Colors) /\ input \in Seq(Colors)
      BY <1>2, <1>3, Zenon
    <3> QED
      BY <3>1, CarrySeq
  <2> QED
    BY <1>1, <1>2, <1>3, <2>1, Zenon
<1>6. /\ owed <= blank_left + delay
      /\ owed > 0 => DarkUpTo(carry, owed + Len(carry) - delay)
  BY DEF DarkInv
<1>7. \A i \in 1..(delay + n) : i <= owed => Stream(line, input, i) = Dark
  <2>1. \A i \in 1..(delay + Len(input)) : i <= owed => Stream(line, input, i) = Dark
    <3>1. /\ input \in Seq(Colors) /\ DarkUpTo(input, blank_left)
          /\ delay \in Nat /\ blank_left \in Nat /\ owed \in Nat
      BY <1>0, <1>2, Zenon
    <3> QED
      BY <1>a, <1>6, <3>1, StreamOwed, Zenon DEF line
  <2> QED
    BY <1>2, <2>1, Zenon
<1>8. clean /\ ~for_armed => \A i \in 1..(delay + n) : Stream(line, input, i) = Dark
  <2>1. clean => AllDark(carry)
    BY Zenon DEF DarkInv
  <2> QED
    BY <1>0, <1>a, <1>2, <2>1, StreamAllDark, Zenon DEF line
<1>9. StartupDark
  <2>1. ASSUME NEW i \in 1..Len(colors'), i <= owed PROVE colors'[i] = Dark
    <3>1. i \in 1..n /\ i \in 1..(delay + n)
      BY <1>0, <1>4
    <3> QED
      BY <1>4, <1>7, <2>1, <3>1, Zenon
  <2> QED
    BY <2>1, Zenon DEF StartupDark
<1>10. clean' /\ ~for_armed' => AllDark(colors')
  <2>1. \A i \in 1..n : i \in 1..(delay + n)
    BY <1>0
  <2> QED
    BY <1>1, <1>4, <1>8, <2>1, Zenon DEF AllDark
<1>11. clean' => AllDark(carry')
  <2>1. \A i \in 1..delay : n + i \in 1..(delay + n)
    BY <1>0
  <2> QED
    BY <1>1, <1>5, <1>8, <2>1, Zenon DEF AllDark
<1>12. PICK o \in Nat : o = owed' /\ o = owed - Lesser(owed, n)
  <2>1. owed - Lesser(owed, n) \in Nat
    BY <1>0 DEF Lesser
  <2> QED
    BY <1>1, <2>1, Zenon
<1>13. PICK b \in Nat : b = blank_left' /\ b <= blank_left /\ b + n >= blank_left
  <2>1. CASE for_armed
    <3>1. PICK b \in Nat : b = blank_left - Lesser(blank_left, n)
      BY <1>0 DEF Lesser
    <3>2. b <= blank_left /\ b + n >= blank_left
      BY <1>0, <3>1 DEF Lesser
    <3> QED
      BY <1>1, <2>1, <3>1, <3>2, Zenon
  <2>2. CASE ~for_armed
    <3>1. blank_left <= blank_left /\ blank_left + n >= blank_left
      BY <1>0
    <3> QED
      BY <1>0, <1>1, <2>2, <3>1, Zenon
  <2> QED
    BY <2>1, <2>2
<1>14. o <= owed /\ o <= b + delay /\ (o > 0 => owed = o + n)
  <2>1. /\ owed <= blank_left + delay /\ o = owed - Lesser(owed, n)
        /\ b <= blank_left /\ b + n >= blank_left
    BY <1>6, <1>12, <1>13, Zenon
  <2>2. CASE owed <= n
    BY <1>0, <2>1, <2>2 DEF Lesser
  <2>3. CASE ~(owed <= n)
    BY <1>0, <2>1, <2>3 DEF Lesser
  <2> QED
    BY <2>2, <2>3
<1>15. o > 0 => DarkUpTo(carry', o + Len(carry') - delay)
  <2>1. ASSUME o > 0, NEW i \in 1..Len(carry'), i <= o + Len(carry') - delay PROVE carry'[i] = Dark
    <3>1. i \in 1..delay /\ n + i \in 1..(delay + n) /\ n + i <= owed
      BY <1>0, <1>5, <1>14, <2>1
    <3> QED
      BY <1>5, <1>7, <3>1, Zenon
  <2> QED
    BY <2>1, Zenon DEF DarkUpTo
<1>16. DelayTypes'
  <2>1. o \in 0..(BlankPoints + MaxDelay) /\ b \in 0..BlankPoints
    BY <1>0, <1>13, <1>14
  <2>2. delay <= MaxDelay
    BY <1>0
  <2> QED
    BY <1>0, <1>1, <1>4, <1>5, <1>12, <1>13, <2>1, <2>2, Zenon DEF DelayTypes
<1>17. DisarmedDark'
  BY <1>10, Zenon DEF DisarmedDark, AllDark
<1>18. DarkInv'
  BY <1>1, <1>11, <1>12, <1>13, <1>14, <1>15, <1>17, Zenon DEF DarkInv
<1> QED
  BY <1>9, <1>16, <1>18

\* A step that caches nothing, and leaves the delay line and what is owed alone
LEMMA DarkStays ==
    ASSUME DelayTypes, DarkInv, UNCHANGED <<delay, blank_left, owed, carry, clean>>,
           colors' = <<>> \/ (UNCHANGED <<colors, for_armed>> /\ (pc' # "idle" => pc # "idle"))
    PROVE  DelayTypes' /\ DarkInv'
<1>1. <<>> \in Seq(Colors) /\ 1..Len(<<>>) = {}
  OBVIOUS
<1>2. colors' \in Seq(Colors)
  BY <1>1, Zenon DEF DelayTypes
<1>3. DelayTypes'
  BY <1>2, Zenon DEF DelayTypes
<1>4. pc' # "idle" => colors' = <<>>
  BY Zenon DEF DarkInv
<1>5. DisarmedDark'
  <2>1. CASE colors' = <<>>
    BY <1>1, <2>1, Zenon DEF DisarmedDark
  <2>2. CASE UNCHANGED <<colors, for_armed>>
    BY <2>2, Zenon DEF DarkInv, DisarmedDark
  <2> QED
    BY <2>1, <2>2
<1> QED
  BY <1>3, <1>4, <1>5, Zenon DEF DarkInv

LEMMA DarkKept == ASSUME ContentTypes, DarkInv, Next PROVE DelayTypes' /\ DarkInv' /\ StartupDark
<1> USE DEF engineVars, frameVars, seamVars, fillVars, delayVars, chunkVars
<1>0. DelayTypes /\ pc \in {"idle", "fill", "filled"}
  BY Zenon DEF ContentTypes, FrameTypes
<1>a. /\ delay \in Nat /\ blank_left \in Nat /\ owed \in Nat /\ owed <= blank_left + delay
      /\ carry \in Seq(Colors) /\ Len(carry) \in Nat
      /\ MaxDelay \in Nat /\ BlankPoints \in Nat
  BY <1>0, Amounts DEF DelayTypes, DarkInv
<1>b. <<>> \in Seq(Colors) /\ 1..Len(<<>>) = {} /\ "idle" # "filled" /\ "fill" # "filled"
  OBVIOUS
<1>c. pc # "filled" => StartupDark
  BY Zenon DEF StartupDark
<1>d. colors' = <<>> => colors' \in Seq(Colors) /\ DisarmedDark'
  BY <1>b, Zenon DEF DisarmedDark
\* A line as long as before that is dark throughout
<1>e. ASSUME carry' = Fill(Len(carry), Dark)
      PROVE  carry' \in Seq(Colors) /\ Len(carry') = Len(carry) /\ AllDark(carry')
             /\ \A n : DarkUpTo(carry', n)
  <2>1. Dark \in Colors
    BY DEF Colors
  <2>2. carry' \in Seq(Colors) /\ Len(carry') = Len(carry) /\ \A i \in 1..Len(carry) : carry'[i] = Dark
    BY <1>a, <1>e, <2>1, FillSeq, Zenon
  <2> QED
    BY <2>2, Zenon DEF AllDark, DarkUpTo
<1>1. CASE \E f \in Frames : SubmitFrame(f)
  <2>1. pc = "idle" /\ UNCHANGED delayVars /\ UNCHANGED pc
    BY <1>1, Zenon DEF SubmitFrame
  <2> QED
    BY <1>0, <1>b, <1>c, <2>1, DarkStays, Zenon
<1>2. ASSUME NEW d \in 0..MaxDelay, SetColorDelay(d) PROVE DelayTypes' /\ DarkInv' /\ StartupDark
  <2>1. /\ pc = "idle" /\ delay' = d /\ UNCHANGED <<carry, blank_left, colors, clean, for_armed, pc>>
        /\ owed' = IF d < delay THEN owed - Lesser(owed, delay - d) ELSE owed
    BY <1>2, Zenon DEF SetColorDelay
  <2>2. PICK o \in Nat : /\ o = IF d < delay THEN owed - Lesser(owed, delay - d) ELSE owed
                         /\ o <= owed /\ o <= blank_left + d
                         /\ o > 0 => o - d <= owed - delay
    <3>1. CASE d < delay
      <4>1. PICK x \in Nat : x = delay - d
        BY <1>a, <3>1
      <4>a. owed - Lesser(owed, x) \in Nat
        BY <1>a DEF Lesser
      <4>2. PICK o \in Nat : o = owed - Lesser(owed, x)
        BY <4>a, Zenon
      <4>3. o <= owed /\ o <= blank_left + d /\ (o > 0 => o - d <= owed - delay)
        BY <1>a, <4>1, <4>2 DEF Lesser
      <4> QED
        BY <3>1, <4>1, <4>2, <4>3
    <3>2. CASE ~(d < delay)
      <4>1. owed <= owed /\ owed <= blank_left + d /\ (owed > 0 => owed - d <= owed - delay)
        BY <1>a, <3>2
      <4> QED
        BY <1>a, <3>2, <4>1
    <3> QED
      BY <3>1, <3>2
  <2>3. owed' = o
    BY <2>1, <2>2, Zenon
  <2>4. o > 0 => DarkUpTo(carry, o + Len(carry) - d)
    <3>1. ASSUME o > 0, NEW i \in 1..Len(carry), i <= o + Len(carry) - d PROVE carry[i] = Dark
      <4>1. owed > 0 /\ i <= owed + Len(carry) - delay
        BY <1>a, <2>2, <3>1
      <4> QED
        BY <3>1, <4>1, Zenon DEF DarkInv, DarkUpTo
    <3> QED
      BY <3>1, Zenon DEF DarkUpTo
  <2>5. o \in 0..(BlankPoints + MaxDelay)
    BY <1>0, <1>a, <2>2 DEF DelayTypes
  <2>6. DelayTypes'
    BY <1>0, <2>1, <2>3, <2>5, Zenon DEF DelayTypes
  <2>7. DarkInv'
    BY <2>1, <2>2, <2>3, <2>4, Zenon DEF DarkInv, DisarmedDark
  <2> QED
    BY <1>b, <1>c, <2>1, <2>6, <2>7, Zenon
<1>3. CASE OnDisarm
  <2>1. /\ pc = "idle" /\ colors' = <<>> /\ carry' = Fill(Len(carry), Dark)
        /\ UNCHANGED <<pc, delay, blank_left, owed>>
    BY <1>3, Zenon DEF OnDisarm
  <2> QED
    BY <1>0, <1>b, <1>c, <1>d, <1>e, <2>1, Zenon DEF DelayTypes, DarkInv
<1>4. CASE ArmStartupBlank
  <2>1. /\ pc = "idle" /\ colors' = <<>> /\ blank_left' = BlankPoints
        /\ UNCHANGED <<pc, delay, carry, clean>>
        /\ owed' = IF clean THEN BlankPoints + delay ELSE 0
    BY <1>4, Zenon DEF ArmStartupBlank
  <2>2. CASE clean
    <3>1. owed' = BlankPoints + delay
      BY <2>1, <2>2, Zenon
    <3>2. BlankPoints + delay \in 0..(BlankPoints + MaxDelay) /\ BlankPoints \in 0..BlankPoints
          /\ BlankPoints + delay <= BlankPoints + delay
      BY <1>0, <1>a DEF DelayTypes
    <3>3. \A n : DarkUpTo(carry, n)
      BY <2>2, Zenon DEF DarkInv, AllDark, DarkUpTo
    <3>4. DelayTypes'
      BY <1>0, <1>d, <2>1, <3>1, <3>2, Zenon DEF DelayTypes
    <3>5. DarkInv'
      BY <1>d, <2>1, <3>1, <3>2, <3>3, Zenon DEF DarkInv
    <3> QED
      BY <1>b, <1>c, <2>1, <3>4, <3>5, Zenon
  <2>3. CASE ~clean
    <3>1. owed' = 0
      BY <2>1, <2>3, Zenon
    <3>2. 0 \in 0..(BlankPoints + MaxDelay) /\ BlankPoints \in 0..BlankPoints /\ 0 <= BlankPoints + delay /\ ~(0 > 0)
      BY <1>a
    <3>3. DelayTypes'
      BY <1>0, <1>d, <2>1, <3>1, <3>2, Zenon DEF DelayTypes
    <3>4. DarkInv'
      BY <1>d, <2>1, <2>3, <3>1, <3>2, Zenon DEF DarkInv
    <3> QED
      BY <1>b, <1>c, <2>1, <3>3, <3>4, Zenon
  <2> QED
    BY <2>2, <2>3
<1>5. CASE OnReconnect
  <2>1. /\ pc = "idle" /\ colors' = <<>> /\ carry' = Fill(Len(carry), Dark)
        /\ UNCHANGED <<pc, delay>>
        /\ UNCHANGED <<blank_left, owed>> \/ (blank_left' = 0 /\ owed' = 0)
    BY <1>5, Zenon DEF OnReconnect
  <2>2. 0 \in 0..(BlankPoints + MaxDelay) /\ 0 \in 0..BlankPoints /\ 0 <= 0 + delay
    BY <1>a
  <2>3. blank_left' \in 0..BlankPoints /\ owed' \in 0..(BlankPoints + MaxDelay) /\ owed' <= blank_left' + delay
    BY <1>0, <1>a, <2>1, <2>2, Zenon DEF DelayTypes
  <2> QED
    BY <1>0, <1>b, <1>c, <1>d, <1>e, <2>1, <2>3, Zenon DEF DelayTypes, DarkInv
<1>6. CASE \E on \in BOOLEAN : CommitWritten(on)
  <2>1. pc = "idle" /\ colors' = <<>> /\ UNCHANGED <<delay, blank_left, owed, carry, clean>>
    BY <1>6, Zenon DEF CommitWritten
  <2> QED
    BY <1>0, <1>b, <1>c, <2>1, DarkStays, Zenon
<1>7. ASSUME NEW on \in BOOLEAN, Produce(on) PROVE DelayTypes' /\ DarkInv' /\ StartupDark
  <2>1. pc = "idle"
    BY <1>7, Zenon DEF Produce, ProduceFifoChunk, ProduceFrameSwap, ProduceChunk, ProduceLast, BeginFill, ComposeHardwareFrame
  <2>2. colors' = <<>> /\ UNCHANGED <<delay, blank_left, owed, carry, clean>>
    BY <1>7, Zenon DEF Produce
  <2> QED
    BY <1>0, <1>b, <1>c, <2>1, <2>2, DarkStays, Zenon
<1>8. CASE ProduceEnd
  <2>1. pc = "idle" /\ colors' = <<>> /\ UNCHANGED <<delay, blank_left, owed, carry, clean>>
    BY <1>8, Zenon DEF ProduceEnd
  <2> QED
    BY <1>0, <1>b, <1>c, <2>1, DarkStays, Zenon
<1>9. CASE FillStep
  <2>1. pc = "fill" /\ UNCHANGED delayVars
    BY <1>9, Zenon DEF FillStep, DropSelfLoop, DrainSeam, CopyPoint, Filling
  <2>2. colors' = <<>> /\ "fill" # "idle"
    <3>1. "fill" # "idle"
      OBVIOUS
    <3> QED
      BY <2>1, <3>1, Zenon DEF DarkInv
  <2> QED
    BY <1>0, <1>b, <1>c, <2>1, <2>2, DarkStays, Zenon
<1>10. CASE Present
  <2>1. CASE buffer # <<>>
    BY <1>10, <2>1, PresentDark, Zenon
  <2>2. CASE buffer = <<>>
    <3>1. "filled" # "idle"
      OBVIOUS
    <3>2. UNCHANGED <<delay, blank_left, owed, carry, clean, colors>> /\ colors = <<>>
      BY <1>10, <2>2, <3>1, Zenon DEF Present, DarkInv
    <3>3. StartupDark
      BY <1>b, <3>2, Zenon DEF StartupDark
    <3> QED
      BY <1>0, <3>2, <3>3, DarkStays, Zenon
  <2> QED
    BY <2>1, <2>2
<1> QED
  BY <1>1, <1>2, <1>3, <1>4, <1>5, <1>6, <1>7, <1>8, <1>9, <1>10, Zenon DEF Next, Application, Driver

-------------------------------------------------------------------------------
(* The path of the beam *)

\* Where the beam may rest, or go anywhere
AtEnd(p) == p \in {<<>>, Idle} \/ \E f \in Frames : FrameLen[f] > 0 /\ p = <<"frame", f, FrameLen[f]>>

LastOr(s, p) == IF s = <<>> THEN p ELSE s[Len(s)]

\* A sequence of points that the beam may draw from p
Chained(s, p) == \A i \in 1..Len(s) : Follows(IF i = 1 THEN p ELSE s[i - 1], s[i])

\* What comes next when the beam is at p: along a seam that leads from the frame that p is the
\* last point of, or into the frame, or nowhere.
SeamAhead(p) ==
    \E f \in Frames :
        /\ FrameLen[f] > 0 /\ (tself => f = current)
        /\ tbuf = SeamPoints(f, current, Len(tbuf)) /\ cursor = 0 /\ drawable # <<>>
        /\ p = IF tcursor = 0 THEN <<"frame", f, FrameLen[f]>> ELSE <<"seam", f, current, tcursor, Len(tbuf)>>

PathFrom(p) ==
    /\ current = None \/ dirty => p \in {<<>>, Idle} /\ ~Draining
    /\ current # None /\ ~dirty /\ drawable = <<>> => AtEnd(p) /\ ~Draining
    /\ ~dirty /\ drawable # <<>> /\ ~Draining => Follows(p, drawable[cursor + 1])
    /\ Draining => SeamAhead(p)

\* The inductive invariant behind SeamContinuity: what is in the chunk is connected, and from its last
\* point, or that of the chunk before, an unbroken path leads on to the cursor.
PathInv ==
    /\ pc = "idle" => buffer = <<>>
    /\ kind = "fifo" => Chained(buffer, trail) /\ PathFrom(LastOr(buffer, trail))

LEMMA EndToIdle == ASSUME NEW p, AtEnd(p) PROVE Follows(p, Idle)
<1>1. CASE p \in {<<>>, Idle}
  BY <1>1 DEF Follows
<1>2. ASSUME NEW f \in Frames, p = <<"frame", f, FrameLen[f]>> PROVE Follows(p, Idle)
  BY <1>2 DEF Follows
<1> QED
  BY <1>1, <1>2, Zenon DEF AtEnd

LEMMA IdleToFrame == ASSUME NEW p \in {<<>>, Idle}, NEW f PROVE Follows(p, <<"frame", f, 1>>)
  BY DEF Follows

LEMMA WithinFrame ==
    ASSUME NEW f, NEW i, i < FrameLen[f] PROVE Follows(<<"frame", f, i>>, <<"frame", f, i + 1>>)
  BY DEF Follows

LEMMA FrameToNext ==
    ASSUME NEW f, NEW g, NEW n
    PROVE  /\ Follows(<<"frame", f, FrameLen[f]>>, <<"seam", f, g, 1, n>>)
           /\ Follows(<<"frame", f, FrameLen[f]>>, <<"frame", g, 1>>)
           /\ Follows(<<"frame", f, FrameLen[f]>>, <<"frame", g, 1 + Skip(g)>>)
  BY DEF Follows

LEMMA AlongSeam ==
    ASSUME NEW f, NEW g, NEW k \in Nat, NEW n \in Nat
    PROVE  /\ k < n => Follows(<<"seam", f, g, k, n>>, <<"seam", f, g, k + 1, n>>)
           /\ Follows(<<"seam", f, g, n, n>>, <<"frame", g, 1>>)
  BY DEF Follows

LEMMA ChainAppend ==
    ASSUME NEW s \in Seq(Point), NEW p, NEW q \in Point, Chained(s, p), Follows(LastOr(s, p), q)
    PROVE  Append(s, q) \in Seq(Point) /\ Chained(Append(s, q), p) /\ LastOr(Append(s, q), p) = q
<1>1. /\ Append(s, q) \in Seq(Point) /\ Len(Append(s, q)) = Len(s) + 1 /\ Append(s, q) # <<>>
      /\ Append(s, q)[Len(s) + 1] = q /\ \A i \in 1..Len(s) : Append(s, q)[i] = s[i]
  BY AppendProperties
<1>2. ASSUME NEW i \in 1..(Len(s) + 1)
      PROVE  Follows(IF i = 1 THEN p ELSE Append(s, q)[i - 1], Append(s, q)[i])
  <2>1. CASE i \in 1..Len(s)
    <3>1. Append(s, q)[i] = s[i] /\ (i # 1 => Append(s, q)[i - 1] = s[i - 1])
      BY <1>1, <2>1
    <3>2. Follows(IF i = 1 THEN p ELSE s[i - 1], s[i])
      BY <2>1, Zenon DEF Chained
    <3> QED
      BY <3>1, <3>2, Zenon
  <2>2. CASE i = Len(s) + 1
    <3>1. CASE s = <<>>
      <4>1. i = 1 /\ LastOr(s, p) = p
        BY <2>2, <3>1 DEF LastOr
      <4> QED
        BY <1>1, <2>2, <4>1, Zenon
    <3>2. CASE s # <<>>
      <4>1. i # 1 /\ i - 1 = Len(s) /\ i - 1 \in 1..Len(s)
        BY <2>2, <3>2
      <4>2. LastOr(s, p) = Append(s, q)[i - 1]
        BY <1>1, <3>2, <4>1, Zenon DEF LastOr
      <4> QED
        BY <1>1, <2>2, <4>1, <4>2, Zenon
    <3> QED
      BY <3>1, <3>2
  <2> QED
    BY <2>1, <2>2
<1>3. Chained(Append(s, q), p)
  BY <1>1, <1>2, Zenon DEF Chained
<1>4. LastOr(Append(s, q), p) = q
  BY <1>1, Zenon DEF LastOr
<1> QED
  BY <1>1, <1>3, <1>4

LEMMA ChainPad ==
    ASSUME NEW s \in Seq(Point), NEW p, NEW k \in Nat, Chained(s, p), AtEnd(LastOr(s, p))
    PROVE  /\ Chained(s \o Fill(k, Idle), p)
           /\ LastOr(s \o Fill(k, Idle), p) \in {Idle, LastOr(s, p)}
<1> DEFINE f == Fill(k, Idle)
<1>0. PICK n \in Nat : n = Len(s)
  OBVIOUS
<1>1. f \in Seq(Point) /\ Len(f) = k /\ \A i \in 1..k : f[i] = Idle
  <2>1. Idle \in Point
    BY DEF Point
  <2> QED
    BY <2>1, FillSeq, Zenon
<1> HIDE DEF f
<1>2. Joined(Point, s, f, n, k)
  BY <1>0, <1>1, JoinSeq, Zenon
<1>3. /\ s \o f \in Seq(Point) /\ Len(s \o f) = n + k
      /\ \A i \in 1..n : (s \o f)[i] = s[i]
      /\ \A i \in (n + 1)..(n + k) : (s \o f)[i] = Idle
  BY <1>0, <1>1, <1>2 DEF Joined
<1>4. Follows(LastOr(s, p), Idle) /\ Follows(Idle, Idle)
  BY EndToIdle, Zenon DEF AtEnd
<1>5. ASSUME NEW i \in 1..(n + k) PROVE Follows(IF i = 1 THEN p ELSE (s \o f)[i - 1], (s \o f)[i])
  <2>1. CASE i \in 1..n
    <3>1. (s \o f)[i] = s[i] /\ (i # 1 => (s \o f)[i - 1] = s[i - 1])
      BY <1>0, <1>3, <2>1
    <3>2. Follows(IF i = 1 THEN p ELSE s[i - 1], s[i])
      BY <1>0, <2>1, Zenon DEF Chained
    <3> QED
      BY <3>1, <3>2, Zenon
  <2>2. CASE i = n + 1
    <3>1. (s \o f)[i] = Idle
      BY <1>3, <2>2
    <3>2. CASE s = <<>>
      <4>1. i = 1 /\ LastOr(s, p) = p
        BY <1>0, <2>2, <3>2 DEF LastOr
      <4> QED
        BY <1>4, <3>1, <4>1, Zenon
    <3>3. CASE s # <<>>
      <4>1. i # 1 /\ i - 1 = n /\ i - 1 \in 1..n
        BY <1>0, <2>2, <3>3
      <4>2. LastOr(s, p) = (s \o f)[i - 1]
        BY <1>0, <1>3, <3>3, <4>1, Zenon DEF LastOr
      <4> QED
        BY <1>4, <3>1, <4>1, <4>2, Zenon
    <3> QED
      BY <3>2, <3>3, Zenon
  <2>3. CASE i > n + 1
    <3>1. (s \o f)[i] = Idle /\ (s \o f)[i - 1] = Idle /\ i # 1
      <4>1. i \in (n + 1)..(n + k) /\ i - 1 \in (n + 1)..(n + k) /\ i # 1
        BY <2>3
      <4> QED
        BY <1>3, <4>1, Zenon
    <3> QED
      BY <1>4, <3>1, Zenon
  <2>4. i \in 1..n \/ i = n + 1 \/ i > n + 1
    OBVIOUS
  <2> QED
    BY <2>1, <2>2, <2>3, <2>4, Zenon
<1>6. Chained(s \o f, p)
  BY <1>3, <1>5, Zenon DEF Chained
<1>7. LastOr(s \o f, p) \in {Idle, LastOr(s, p)}
  <2>1. CASE k = 0
    <3>1. s \o f = s
      <4>1. f = <<>>
        BY <1>1, <2>1
      <4> QED
        BY <4>1
    <3> QED
      BY <3>1, Zenon
  <2>2. CASE k # 0
    <3>1. n + k \in (n + 1)..(n + k) /\ s \o f # <<>>
      BY <1>3, <2>2
    <3> QED
      BY <1>3, <3>1, Zenon DEF LastOr
  <2> QED
    BY <2>1, <2>2
<1> QED
  BY <1>6, <1>7 DEF f

\* The points of a frame and of a seam, by name
LEMMA PointAt ==
    ASSUME NEW f \in Frames, NEW i \in 1..FrameLen[f] PROVE Points(f)[i] = <<"frame", f, i>>
  BY DEF Points

LEMMA SeamAt ==
    ASSUME NEW f, NEW g, NEW n \in Nat, NEW i \in 1..n PROVE SeamPoints(f, g, n)[i] = <<"seam", f, g, i, n>>
  BY DEF SeamPoints

\* After the last point of a frame: whatever the plan for the next frame is, its way begins there.
LEMMA PlanPath ==
    ASSUME NEW g \in Frames, NEW h \in Frames, NEW plan \in Plans(g, h), FrameLen[g] > 0, NEW p,
           p = <<"frame", g, FrameLen[g]>>,
           current' = h, drawable' = Points(h), dirty' = FALSE,
           plan = Coalesce => cursor' = Skip(h) /\ ~Draining',
           plan # Coalesce => /\ cursor' = 0 /\ tbuf' = SeamPoints(g, h, plan) /\ tcursor' = 0
                              /\ (tself' => g = h)
    PROVE  PathFrom(p)'
<1>1. current' # None /\ ~dirty'
  BY EngineAssumption, Zenon
<1>2. AtEnd(p)'
  BY Zenon DEF AtEnd
<1>3. PICK n \in Nat : n = FrameLen[h] /\ Len(Points(h)) = n /\ Points(h) \in Seq(Point)
                       /\ Skip(h) \in 0..n /\ (n > 0 => Skip(h) < n)
  BY Lengths, PointsSeq, Zenon
<1>4. drawable' # <<>> => n > 0
  BY <1>3
<1>5. CASE plan = Coalesce
  <2>1. ASSUME drawable' # <<>> PROVE Follows(p, drawable'[cursor' + 1])
    <3>1. Skip(h) + 1 \in 1..FrameLen[h] /\ Skip(h) + 1 = 1 + Skip(h)
      BY <1>3, <1>4, <2>1
    <3>2. drawable'[cursor' + 1] = <<"frame", h, 1 + Skip(h)>>
      BY <1>5, <3>1, PointAt, Zenon
    <3> QED
      BY <3>2, FrameToNext, Zenon
  <2>2. n = 0 => plan # Coalesce
    BY <1>3 DEF Plans, Coalesce
  <2> QED
    BY <1>1, <1>2, <1>5, <2>1, Zenon DEF PathFrom
<1>6. CASE plan # Coalesce
  <2>1. plan \in Nat /\ (plan > 0 => n > 0)
    BY <1>3, <1>6, Amounts DEF Plans, Coalesce
  <2>2. Len(SeamPoints(g, h, plan)) = plan
    BY <2>1, SeamSeq, Zenon
  <2>3. Draining' <=> plan > 0
    BY <1>6, <2>1, <2>2 DEF Draining
  <2>4. ASSUME plan > 0 PROVE SeamAhead(p)'
    <3>1. drawable' # <<>>
      BY <1>3, <2>1, <2>4
    <3>2. tbuf' = SeamPoints(g, h, Len(tbuf'))
      BY <1>6, <2>2, Zenon
    <3> QED
      BY <1>6, <3>1, <3>2, Zenon DEF SeamAhead
  <2>5. ASSUME drawable' # <<>> PROVE Follows(p, drawable'[cursor' + 1])
    <3>1. 0 + 1 \in 1..FrameLen[h] /\ 0 + 1 = 1
      BY <1>3, <1>4, <2>5
    <3>2. drawable'[cursor' + 1] = <<"frame", h, 1>>
      BY <1>6, <3>1, PointAt, Zenon
    <3> QED
      BY <3>2, FrameToNext, Zenon
  <2>6. drawable' = <<>> => ~(plan > 0)
    BY <1>3, <2>1
  <2> QED
    BY <1>1, <1>2, <2>3, <2>4, <2>5, <2>6, Zenon DEF PathFrom
<1> QED
  BY <1>5, <1>6

\* Padding with idle points what cannot be drawn, or going on
LEMMA PadPath ==
    ASSUME NEW s \in Seq(Point), NEW p, Len(s) <= want, want \in Nat, Chained(s, trail), p = LastOr(s, trail),
           trail' = trail, ~dirty', current' # None, PathFrom(p)', PadOrGoOn(s, drawable')
    PROVE  Chained(buffer, trail)' /\ PathFrom(LastOr(buffer, trail))'
<1>1. CASE drawable' # <<>>
  <2>1. buffer' = s
    BY <1>1, Zenon DEF PadOrGoOn
  <2>2. LastOr(buffer', trail') = p /\ Chained(buffer', trail')
    BY <2>1, Zenon
  <2> QED
    BY <2>2, Zenon
<1>2. CASE drawable' = <<>>
  <2>1. want - Len(s) \in Nat
    OBVIOUS
  <2>2. buffer' = s \o Fill(want - Len(s), Idle)
    BY <1>2, Zenon DEF PadOrGoOn
  <2>3. AtEnd(p) /\ ~Draining'
    BY <1>2, Zenon DEF PathFrom, AtEnd
  <2>4. Chained(buffer', trail') /\ LastOr(buffer', trail') \in {Idle, p}
    BY <2>1, <2>2, <2>3, ChainPad, Zenon
  <2>5. PathFrom(Idle)'
    BY <1>2, <2>3, Zenon DEF PathFrom, AtEnd
  <2> QED
    BY <2>4, <2>5, Zenon
<1> QED
  BY <1>1, <1>2

\* Each step of a fill goes on from where the beam is.
LEMMA FillPath ==
    ASSUME ContentTypes, PathInv, FillStep
    PROVE  Chained(buffer, trail)' /\ PathFrom(LastOr(buffer, trail))'
<1> USE DEF engineVars, frameVars, seamVars, fillVars, delayVars, chunkVars
<1>0. FrameTypes /\ PointTypes /\ CursorInv /\ DrawnInv
  BY Zenon DEF ContentTypes
<1>1. pc = "fill" /\ trail' = trail
  BY Zenon DEF FillStep, DropSelfLoop, DrainSeam, CopyPoint, Filling
<1>2. kind = "fifo" /\ ~dirty /\ drawable # <<>> /\ cursor < Len(drawable)
  BY <1>0, <1>1, Zenon DEF CursorInv
<1>3. drawable = Points(current) /\ current \in Frames /\ current # None
  BY <1>0, <1>2, Zenon DEF DrawnInv, Drawn, FrameTypes
<1>4. Chained(buffer, trail) /\ PathFrom(LastOr(buffer, trail))
  BY <1>2, Zenon DEF PathInv
<1>5. PICK beam : beam = LastOr(buffer, trail)
  OBVIOUS
<1>6. PICK n \in Nat : n = FrameLen[current] /\ Len(drawable) = n /\ Points(current) \in Seq(Point)
  BY <1>3, Lengths, PointsSeq, Zenon
<1>7. cursor \in Nat /\ tcursor \in Nat /\ buffer \in Seq(Point) /\ tbuf \in Seq(Point) /\ drawable \in Seq(Point)
      /\ want \in Nat /\ Len(buffer) < want /\ n > 0 /\ cursor + 1 \in 1..n
  BY <1>0, <1>1, <1>2, <1>6 DEF PointTypes
<1>8. PathFrom(beam)
  BY <1>4, <1>5, Zenon
<1>9. /\ Len(buffer) <= want
      /\ \A q \in Point : Append(buffer, q) \in Seq(Point) /\ Len(Append(buffer, q)) <= want
  BY <1>7
<1>a. CASE DropSelfLoop
  <2>1. pending \in Frames /\ Draining /\ tself /\ tcursor = 0
    BY <1>0, <1>a, Zenon DEF DropSelfLoop, SelfLoopIsStale, FrameTypes
  <2>2. beam = <<"frame", current, FrameLen[current]>>
    BY <1>8, <2>1, Zenon DEF PathFrom, SeamAhead
  <2>3. PICK plan \in Plans(current, pending) : PromotePending(plan, <<>>, 0, FALSE)
    BY <1>a, Zenon DEF DropSelfLoop
  <2>4. current' = pending /\ drawable' = Points(pending) /\ dirty' = FALSE
    BY <2>3, Zenon DEF PromotePending
  <2>5. plan = Coalesce => cursor' = Skip(pending) /\ ~Draining'
    <3>1. ~(0 < Len(<<>>))
      OBVIOUS
    <3> QED
      BY <2>3, <3>1, Zenon DEF PromotePending, Draining
  <2>6. plan # Coalesce => /\ cursor' = 0 /\ tbuf' = SeamPoints(current, pending, plan) /\ tcursor' = 0
                           /\ (tself' => current = pending)
    BY <2>3, Zenon DEF PromotePending
  <2>7. PICK g \in Frames : g = current
    BY <1>3, Zenon
  <2>8. PICK h \in Frames : h = pending
    BY <2>1, Zenon
  <2>9. PathFrom(beam)'
    <3>1. FrameLen[g] > 0
      BY <1>6, <1>7, <2>7
    <3> QED
      BY <2>2, <2>4, <2>5, <2>6, <2>7, <2>8, <3>1, PlanPath, Zenon
  <2>a. current' # None
    BY <2>4, <2>8, EngineAssumption, Zenon
  <2> QED
    BY <1>1, <1>4, <1>5, <1>7, <1>9, <1>a, <2>4, <2>9, <2>a, PadPath, Zenon DEF DropSelfLoop
<1>b. CASE DrainSeam
  <2>1. Draining /\ UNCHANGED <<frameVars, cursor, tbuf, tself>> /\ tcursor' = tcursor + 1
    BY <1>b, Zenon DEF DrainSeam
  <2>2. PICK f \in Frames :
            /\ FrameLen[f] > 0 /\ (tself => f = current)
            /\ tbuf = SeamPoints(f, current, Len(tbuf)) /\ cursor = 0 /\ drawable # <<>>
            /\ beam = IF tcursor = 0 THEN <<"frame", f, FrameLen[f]>>
                      ELSE <<"seam", f, current, tcursor, Len(tbuf)>>
    BY <1>8, <2>1, Zenon DEF PathFrom, SeamAhead
  <2>3. PICK k \in Nat : k = Len(tbuf)
    BY <1>7
  <2>4. tcursor + 1 \in 1..k /\ tcursor < k
    BY <1>7, <2>1, <2>3 DEF Draining
  <2>5. PICK q : q = tbuf[tcursor + 1]
    OBVIOUS
  <2>6. q = <<"seam", f, current, tcursor + 1, k>>
    BY <2>2, <2>3, <2>4, <2>5, SeamAt, Zenon
  <2>7. q \in Point
    BY <1>7, <2>3, <2>4, <2>5
  <2>8. Follows(beam, q)
    <3>1. CASE tcursor = 0
      <4>1. 0 + 1 = 1
        OBVIOUS
      <4> QED
        BY <2>2, <2>6, <3>1, <4>1, FrameToNext, Zenon
    <3>2. CASE tcursor # 0
      BY <1>7, <2>2, <2>3, <2>4, <2>6, <3>2, AlongSeam, Zenon
    <3> QED
      BY <3>1, <3>2
  <2>9. /\ Append(buffer, q) \in Seq(Point) /\ Chained(Append(buffer, q), trail)
        /\ LastOr(Append(buffer, q), trail) = q
    BY <1>4, <1>5, <1>7, <2>7, <2>8, ChainAppend, Zenon
  <2>a. PathFrom(q)'
    <3>1. CASE tcursor + 1 < k
      <4>1. Draining' /\ tcursor' # 0
        BY <1>7, <2>1, <2>3, <3>1 DEF Draining
      <4>2. SeamAhead(q)'
        BY <2>1, <2>2, <2>3, <2>6, <4>1, Zenon DEF SeamAhead
      <4> QED
        BY <1>2, <1>3, <2>1, <4>1, <4>2, Zenon DEF PathFrom
    <3>2. CASE tcursor + 1 = k
      <4>1. ~Draining'
        BY <1>7, <2>1, <2>3, <3>2 DEF Draining
      <4>2. drawable'[cursor' + 1] = <<"frame", current, 1>>
        <5>1. 0 + 1 \in 1..FrameLen[current] /\ 0 + 1 = 1
          BY <1>6, <1>7
        <5> QED
          BY <1>3, <2>1, <2>2, <5>1, PointAt, Zenon
      <4>3. Follows(q, drawable'[cursor' + 1])
        BY <2>3, <2>6, <3>2, <4>2, AlongSeam, Zenon
      <4> QED
        BY <1>2, <1>3, <2>1, <4>1, <4>3, Zenon DEF PathFrom
    <3>3. tcursor + 1 < k \/ tcursor + 1 = k
      BY <1>7, <2>3, <2>4
    <3> QED
      BY <3>1, <3>2, <3>3, Zenon
  <2>b. Len(Append(buffer, q)) <= want /\ PadOrGoOn(Append(buffer, q), drawable')
    BY <1>9, <1>b, <2>1, <2>5, <2>7, Zenon DEF DrainSeam
  <2> QED
    BY <1>1, <1>2, <1>3, <1>7, <2>1, <2>9, <2>a, <2>b, PadPath, Zenon
<1>c. CASE CopyPoint
  <2>1. ~Draining
    BY <1>c, Zenon DEF CopyPoint
  <2>2. PICK q : q = drawable[cursor + 1]
    OBVIOUS
  <2>3. q = <<"frame", current, cursor + 1>>
    BY <1>3, <1>6, <1>7, <2>2, PointAt, Zenon
  <2>4. q \in Point
    BY <1>6, <1>7, <2>2
  <2>5. Follows(beam, q)
    BY <1>2, <1>8, <2>1, <2>2, Zenon DEF PathFrom
  <2>6. /\ Append(buffer, q) \in Seq(Point) /\ Chained(Append(buffer, q), trail)
        /\ LastOr(Append(buffer, q), trail) = q
    BY <1>4, <1>5, <1>7, <2>4, <2>5, ChainAppend, Zenon
  <2>7. Len(Append(buffer, q)) <= want /\ PadOrGoOn(Append(buffer, q), drawable')
    BY <1>9, <1>c, <2>2, <2>4, Zenon DEF CopyPoint
  <2> SUFFICES PathFrom(q)' /\ ~dirty' /\ current' # None
    BY <1>1, <1>7, <2>6, <2>7, PadPath, Zenon
  <2>8. CASE UNCHANGED <<frameVars, tbuf, tcursor, tself>> /\ cursor' = cursor + 1 /\ cursor + 1 < Len(drawable)
    <3>1. ~Draining'
      BY <2>1, <2>8, Zenon DEF Draining
    <3>2. cursor + 1 + 1 \in 1..n /\ cursor + 1 < FrameLen[current]
      BY <1>6, <1>7, <2>8
    <3>3. drawable'[cursor' + 1] = <<"frame", current, cursor + 1 + 1>>
      BY <1>3, <1>6, <2>8, <3>2, PointAt, Zenon
    <3>4. Follows(q, drawable'[cursor' + 1])
      BY <2>3, <3>2, <3>3, WithinFrame, Zenon
    <3> QED
      BY <1>2, <1>3, <2>8, <3>1, <3>4, Zenon DEF PathFrom
  <2>9. ASSUME cursor + 1 >= Len(drawable), SeamToPending \/ SeamToSelf
        PROVE  PathFrom(q)' /\ ~dirty' /\ current' # None
    <3>1. q = <<"frame", current, FrameLen[current]>>
      <4>1. cursor + 1 = FrameLen[current]
        BY <1>6, <1>7, <2>9
      <4> QED
        BY <2>3, <4>1, Zenon
    <3>2. PICK g \in Frames : g = current
      BY <1>3, Zenon
    <3>3. FrameLen[g] > 0
      BY <1>6, <1>7, <3>2
    <3>4. CASE SeamToPending
      <4>1. PICK h \in Frames : h = pending
        BY <1>0, <3>4, Zenon DEF SeamToPending, FrameTypes
      <4>2. PICK plan \in Plans(current, pending) : PromotePending(plan, tbuf, tcursor, tself)
        BY <3>4, Zenon DEF SeamToPending
      <4>3. current' = h /\ drawable' = Points(h) /\ dirty' = FALSE
        BY <4>1, <4>2, Zenon DEF PromotePending
      <4>4. plan = Coalesce => cursor' = Skip(h) /\ ~Draining'
        BY <2>1, <4>1, <4>2, Zenon DEF PromotePending, Draining
      <4>5. plan # Coalesce => /\ cursor' = 0 /\ tbuf' = SeamPoints(g, h, plan) /\ tcursor' = 0
                               /\ (tself' => g = h)
        BY <3>2, <4>1, <4>2, Zenon DEF PromotePending
      <4>6. PathFrom(q)'
        BY <3>1, <3>2, <3>3, <4>1, <4>2, <4>3, <4>4, <4>5, PlanPath, Zenon
      <4> QED
        BY <4>3, <4>6, EngineAssumption, Zenon
    <3>5. CASE SeamToSelf
      <4>1. PICK plan \in Plans(current, current) :
                IF plan = Coalesce
                THEN cursor' = Skip(current) /\ UNCHANGED <<tbuf, tcursor, tself>>
                ELSE /\ cursor' = 0
                     /\ tbuf' = SeamPoints(current, current, plan) /\ tcursor' = 0 /\ tself' = TRUE
        BY <3>5, Zenon DEF SeamToSelf
      <4>2. current' = g /\ drawable' = Points(g) /\ dirty' = FALSE
        <5>1. dirty = FALSE
          BY <1>2, Zenon DEF ContentTypes, Flags
        <5> QED
          BY <1>3, <3>2, <3>5, <5>1, Zenon DEF SeamToSelf
      <4>4. plan = Coalesce => cursor' = Skip(g) /\ ~Draining'
        BY <2>1, <3>2, <4>1, Zenon DEF Draining
      <4>5. plan # Coalesce => /\ cursor' = 0 /\ tbuf' = SeamPoints(g, g, plan) /\ tcursor' = 0
                               /\ (tself' => g = g)
        BY <3>2, <4>1, Zenon
      <4>6. PathFrom(q)'
        BY <3>1, <3>2, <3>3, <4>1, <4>2, <4>4, <4>5, PlanPath, Zenon
      <4> QED
        BY <4>2, <4>6, EngineAssumption, Zenon
    <3> QED
      BY <2>9, <3>4, <3>5, Zenon
  <2> QED
    BY <1>c, <2>8, <2>9, Zenon DEF CopyPoint
<1> QED
  BY <1>a, <1>b, <1>c, Zenon DEF FillStep

LEMMA PathKept == ASSUME ContentTypes, PathInv, Next PROVE PathInv'
<1> USE DEF engineVars, frameVars, seamVars, fillVars, delayVars, chunkVars
<1>0. FrameTypes /\ PointTypes /\ CursorInv /\ DrawnInv /\ ChunkTypes /\ Flags
  BY Zenon DEF ContentTypes
<1>s. "fill" # "idle" /\ "filled" # "idle" /\ "swap" # "fifo" /\ "stream" # "fifo"
  OBVIOUS
<1>1. CASE UNCHANGED <<engineVars, kind>>
  BY <1>1, Zenon DEF PathInv, Chained, PathFrom, LastOr, SeamAhead, Draining, AtEnd
<1>2. ASSUME NEW f \in Frames, SubmitFrame(f) PROVE PathInv'
  <2>1. pc = "idle" /\ UNCHANGED <<fillVars, kind>> /\ SetPending(f)
    BY <1>2, Zenon DEF SubmitFrame
  <2>2. CASE current = None
    <3>1. dirty' = TRUE /\ UNCHANGED <<drawable, tbuf, tcursor>>
      BY <2>1, <2>2, Zenon DEF SetPending
    <3>2. kind = "fifo" => LastOr(buffer, trail) \in {<<>>, Idle} /\ ~Draining /\ Chained(buffer, trail)
      BY <2>2, Zenon DEF PathInv, PathFrom
    <3>3. kind' = "fifo" => LastOr(buffer, trail)' \in {<<>>, Idle} /\ ~Draining' /\ Chained(buffer, trail)'
      BY <2>1, <3>1, <3>2, Zenon DEF LastOr, Chained, Draining
    <3>4. kind' = "fifo" => PathFrom(LastOr(buffer, trail))'
      BY <3>1, <3>3, Zenon DEF PathFrom
    <3> QED
      BY <2>1, <3>3, <3>4, Zenon DEF PathInv
  <2>3. CASE current # None
    <3>1. UNCHANGED <<current, drawable, dirty, seamVars>>
      BY <2>1, <2>3, Zenon DEF SetPending
    <3> QED
      BY <2>1, <3>1, Zenon DEF PathInv, Chained, PathFrom, LastOr, SeamAhead, Draining, AtEnd
  <2> QED
    BY <2>2, <2>3
<1>3. CASE OnReconnect
  <2>1. CASE UNCHANGED engineVars /\ UNCHANGED kind
    BY <1>1, <2>1, Zenon
  <2>2. CASE ResetAndReplay(Replay) /\ pc = "idle" /\ UNCHANGED <<pc, kind, buffer>>
    <3>1. buffer' = <<>> /\ trail' = <<>> /\ tbuf' = <<>> /\ tcursor' = 0 /\ dirty' = TRUE
      BY <2>2, Zenon DEF ResetAndReplay, PathInv
    <3>2. 1..Len(<<>>) = {} /\ ~(0 < Len(<<>>))
      OBVIOUS
    <3>3. Chained(buffer, trail)' /\ LastOr(buffer, trail)' = <<>> /\ ~Draining'
      BY <3>1, <3>2, Zenon DEF Chained, LastOr, Draining
    <3>4. PathFrom(LastOr(buffer, trail))'
      BY <3>1, <3>3, Zenon DEF PathFrom
    <3> QED
      BY <3>1, <3>3, <3>4, Zenon DEF PathInv
  <2> QED
    BY <1>3, <2>1, <2>2, Zenon DEF OnReconnect
<1>4. ASSUME NEW n \in 1..MaxChunk, BeginFill(n), kind = "fifo", UNCHANGED kind PROVE PathInv'
  <2>0. pc = "idle" /\ buffer = <<>> /\ dirty' = FALSE /\ UNCHANGED <<current, pending, seamVars, trail>>
    BY <1>4, Zenon DEF BeginFill, PathInv
  <2>1. PathFrom(trail) /\ LastOr(<<>>, trail) = trail
    BY <1>4, <2>0, Zenon DEF PathInv, LastOr
  <2>2. Draining' <=> Draining
    BY <2>0, Zenon DEF Draining
  <2>3. PICK p : p = trail
    OBVIOUS
  <2>4. PathFrom(p)
    BY <2>1, <2>3, Zenon
  <2>5. CASE current = None \/ drawable' = <<>>
    <3>1. buffer' = <<>> \o Fill(n, Idle) /\ pc' = "filled"
      <4>1. n \in Nat
        BY Amounts
      <4>2. Fill(n, Idle) = <<>> \o Fill(n, Idle)
        BY <4>1, IdleSeq
      <4> QED
        BY <1>4, <2>5, <4>2, Zenon DEF BeginFill
    <3>2. AtEnd(p) /\ ~Draining
      <4>1. CASE current = None \/ dirty
        BY <2>4, <4>1, Zenon DEF PathFrom, AtEnd
      <4>2. CASE current # None /\ ~dirty
        <5>1. drawable = <<>>
          BY <1>4, <2>5, <4>2, Zenon DEF BeginFill
        <5> QED
          BY <2>4, <4>2, <5>1, Zenon DEF PathFrom
      <4> QED
        BY <4>1, <4>2, Zenon
    <3>3. drawable' = <<>>
      <4>1. CASE current = None
        BY <1>0, <1>4, <4>1, Zenon DEF BeginFill, DrawnInv, Drawn
      <4> QED
        BY <2>5, <4>1
    <3>4. <<>> \in Seq(Point) /\ Chained(<<>>, p) /\ n \in Nat
      <4>1. 1..Len(<<>>) = {} /\ <<>> \in Seq(Point)
        OBVIOUS
      <4> QED
        BY <4>1, Amounts DEF Chained
    <3>5. Chained(buffer', p) /\ LastOr(buffer', p) = Idle
      <4>1. Chained(<<>> \o Fill(n, Idle), p)
        BY <2>1, <2>3, <3>2, <3>4, ChainPad, Zenon
      <4>2. Fill(n, Idle) # <<>> /\ Len(Fill(n, Idle)) = n /\ Fill(n, Idle) \in Seq(Point) /\ n \in 1..n
        BY <3>4, IdleSeq
      <4>3. Fill(n, Idle)[n] = Idle
        BY <4>2, Zenon DEF Fill
      <4>4. <<>> \o Fill(n, Idle) = Fill(n, Idle)
        BY <4>2
      <4> QED
        BY <3>1, <4>1, <4>2, <4>3, <4>4, Zenon DEF LastOr
    <3>6. PathFrom(Idle)'
      BY <2>0, <2>2, <3>2, <3>3, Zenon DEF PathFrom, AtEnd
    <3> QED
      BY <1>s, <2>0, <2>3, <3>1, <3>5, <3>6, Zenon DEF PathInv
  <2>6. CASE current # None /\ drawable' # <<>>
    <3>1. buffer' = <<>> /\ pc' = "fill"
      BY <1>4, <2>6, Zenon DEF BeginFill
    <3>2. Chained(buffer', trail') /\ LastOr(buffer', trail') = p
      <4>1. 1..Len(<<>>) = {}
        OBVIOUS
      <4> QED
        BY <2>0, <2>3, <3>1, <4>1, Zenon DEF Chained, LastOr
    <3>3. CASE ~dirty
      <4>1. drawable' = drawable
        BY <1>4, <3>3, Zenon DEF BeginFill
      <4>2. PathFrom(p)'
        BY <2>0, <2>4, <2>6, <3>3, <4>1, Zenon DEF PathFrom, SeamAhead, Draining
      <4> QED
        BY <1>s, <3>1, <3>2, <4>2, Zenon DEF PathInv
    <3>4. CASE dirty
      <4>1. drawable' = Points(current) /\ cursor' = 0 /\ current \in Frames
        BY <1>0, <1>4, <2>0, <2>6, <3>4, Zenon DEF BeginFill, CursorInv, FrameTypes
      <4>2. p \in {<<>>, Idle} /\ ~Draining'
        BY <2>2, <2>4, <3>4, Zenon DEF PathFrom
      <4>3. drawable'[0 + 1] = <<"frame", current, 1>>
        <5>1. PICK m \in Nat : m = FrameLen[current] /\ Len(Points(current)) = m /\ Points(current) \in Seq(Point)
          BY <4>1, Lengths, PointsSeq, Zenon
        <5>2. 0 + 1 \in 1..FrameLen[current] /\ 0 + 1 = 1
          BY <2>6, <4>1, <5>1
        <5> QED
          BY <4>1, <5>2, PointAt, Zenon
      <4>4. Follows(p, drawable'[cursor' + 1])
        BY <4>1, <4>2, <4>3, IdleToFrame, Zenon
      <4>5. PathFrom(p)'
        BY <2>0, <2>6, <4>2, <4>4, Zenon DEF PathFrom
      <4> QED
        BY <1>s, <3>1, <3>2, <4>5, Zenon DEF PathInv
    <3> QED
      BY <3>3, <3>4
  <2> QED
    BY <2>5, <2>6
<1>5. ASSUME kind # "fifo", UNCHANGED kind, pc' = "filled" PROVE PathInv'
  BY <1>5, <1>s, Zenon DEF PathInv
<1>6. ASSUME FillStep PROVE PathInv'
  <2>1. Chained(buffer, trail)' /\ PathFrom(LastOr(buffer, trail))'
    BY <1>6, FillPath
  <2>2. pc' # "idle"
    <3>1. \A s, d : PadOrGoOn(s, d) => pc' \in {"fill", "filled"}
      BY Zenon DEF PadOrGoOn
    <3> QED
      BY <1>6, <1>s, <3>1, Zenon DEF FillStep, DropSelfLoop, DrainSeam, CopyPoint
  <2> QED
    BY <2>1, <2>2, Zenon DEF PathInv
<1>7. CASE Present
  <2>1. buffer' = <<>> /\ pc = "filled" /\ UNCHANGED <<frameVars, seamVars, kind>>
    BY <1>7, Zenon DEF Present
  <2>2. ASSUME kind = "fifo" PROVE trail' = LastOr(buffer, trail)
    BY <1>7, <2>2, Zenon DEF Present, LastOr
  <2>3. PICK p : p = LastOr(buffer, trail)
    OBVIOUS
  <2>4. ASSUME kind = "fifo" PROVE PathFrom(p)'
    <3>1. PathFrom(p)
      BY <2>3, <2>4, Zenon DEF PathInv
    <3> QED
      BY <2>1, <3>1, Zenon DEF PathFrom, SeamAhead, Draining, AtEnd
  <2>5. ASSUME kind = "fifo" PROVE Chained(buffer, trail)' /\ LastOr(buffer, trail)' = p
    <3>1. 1..Len(<<>>) = {}
      OBVIOUS
    <3> QED
      BY <2>1, <2>2, <2>3, <2>5, <3>1, Zenon DEF Chained, LastOr
  <2> QED
    BY <2>1, <2>4, <2>5, Zenon DEF PathInv
<1>8. ASSUME NEW on \in BOOLEAN, Produce(on) PROVE PathInv'
  <2>0. UNCHANGED kind
    BY <1>8, Zenon DEF Produce
  <2>1. ASSUME NEW n \in 1..MaxChunk, NEW filled, NEW k, ProduceChunk(n, filled, on, k) PROVE PathInv'
    BY <1>5, <1>s, <2>0, <2>1, Zenon DEF ProduceChunk, IsStream
  <2>2. ASSUME NEW filled, NEW k, ProduceLast(filled, k) PROVE PathInv'
    BY <1>5, <1>s, <2>0, <2>2, Zenon DEF ProduceLast, IsStream
  <2>3. CASE ProduceFrameSwap
    BY <1>5, <1>s, <2>0, <2>3, Zenon DEF ProduceFrameSwap, ComposeHardwareFrame
  <2> QED
    BY <1>4, <1>8, <2>0, <2>1, <2>2, <2>3, Zenon DEF Produce, ProduceFifoChunk
<1>9. (\E d \in 0..MaxDelay : SetColorDelay(d)) \/ OnDisarm \/ ArmStartupBlank \/ ProduceEnd
         \/ (\E on \in BOOLEAN : CommitWritten(on)) => UNCHANGED <<engineVars, kind>>
  BY Zenon DEF SetColorDelay, OnDisarm, ArmStartupBlank, ProduceEnd, CommitWritten
<1> QED
  BY <1>1, <1>2, <1>3, <1>6, <1>7, <1>8, <1>9, Zenon DEF Next, Application, Driver

-------------------------------------------------------------------------------
(* What a hardware frame is made of *)

\* A frame that fits the device and that ends with a seam to it
Composed(s, g) ==
    /\ Len(s) <= Capacity
    /\ s = <<Idle>> \/ (s[Len(s)][1] = "frame" /\ s[Len(s)][2] = g)
    /\ \A i \in 2..Len(s) :
          /\ s[i][1] = "frame" /\ s[i][3] > 1 => s[i - 1] = <<"frame", g, s[i][3] - 1>>
          /\ IsSeam(s[i - 1]) => Follows(s[i - 1], s[i])
    /\ IsSeam(s[1]) => s[Len(s)] = <<"frame", g, FrameLen[g]>>

\* The last k of n points of a seam and points of the frame from the one after off on
Shape(s, f, g, k, n, off) ==
    \A i \in 1..Len(s) : s[i] = IF i <= k THEN <<"seam", f, g, (n - k) + i, n>> ELSE <<"frame", g, off + (i - k)>>

LEMMA ShapeComposed ==
    ASSUME NEW s \in Seq(Point), NEW f, NEW g, NEW n \in Nat, NEW k \in 0..n, NEW off \in Nat,
           Shape(s, f, g, k, n, off), Len(s) \in 1..Capacity,
           k > 0 => off = 0 /\ FrameLen[g] \in Nat \ {0} /\ Len(s) = k + FrameLen[g]
    PROVE  Composed(s, g)
<1>0. PICK l \in Nat \ {0} : l = Len(s)
  OBVIOUS
<1>1. l > k
  BY <1>0
<1>2. \A i \in 1..l : i <= k => s[i] = <<"seam", f, g, (n - k) + i, n>>
  BY <1>0, Zenon DEF Shape
<1>3. \A i \in 1..l : ~(i <= k) => s[i] = <<"frame", g, off + (i - k)>>
  BY <1>0, Zenon DEF Shape
<1>4. s[l] = <<"frame", g, off + (l - k)>>
  BY <1>1, <1>3
<1>5. s[l][1] = "frame" /\ s[l][2] = g
  BY <1>4
<1>6. ASSUME NEW i \in 2..l
      PROVE  /\ s[i][1] = "frame" /\ s[i][3] > 1 => s[i - 1] = <<"frame", g, s[i][3] - 1>>
             /\ IsSeam(s[i - 1]) => Follows(s[i - 1], s[i])
  <2>1. CASE i <= k
    <3>1. s[i] = <<"seam", f, g, (n - k) + i, n>>
      BY <1>2, <2>1
    <3>2. s[i - 1] = <<"seam", f, g, (n - k) + (i - 1), n>>
      BY <1>2, <2>1
    <3>3. PICK j \in Nat : j = (n - k) + (i - 1)
      OBVIOUS
    <3>4. j < n /\ j + 1 = (n - k) + i
      BY <2>1, <3>3
    <3>5. Follows(s[i - 1], s[i])
      BY <3>1, <3>2, <3>3, <3>4, AlongSeam, Zenon
    <3>6. s[i][1] # "frame"
      BY <3>1
    <3> QED
      BY <3>5, <3>6, Zenon
  <2>2. CASE i = k + 1
    <3>1. k > 0 /\ off = 0
      BY <2>2
    <3>2. s[i] = <<"frame", g, 1>>
      <4>1. i \in 1..l /\ ~(i <= k) /\ off + (i - k) = 1
        BY <2>2, <3>1
      <4> QED
        BY <1>3, <4>1, Zenon
    <3>3. s[i - 1] = <<"seam", f, g, n, n>>
      <4>1. i - 1 \in 1..l /\ i - 1 <= k /\ (n - k) + (i - 1) = n
        BY <2>2
      <4> QED
        BY <1>2, <4>1, Zenon
    <3>4. Follows(s[i - 1], s[i])
      BY <3>2, <3>3, AlongSeam, Zenon
    <3>5. ~(s[i][3] > 1)
      BY <3>2
    <3> QED
      BY <3>4, <3>5, Zenon
  <2>3. CASE i > k + 1
    <3>1. s[i] = <<"frame", g, off + (i - k)>> /\ s[i - 1] = <<"frame", g, off + ((i - 1) - k)>>
      BY <1>3, <2>3
    <3>2. s[i][3] - 1 = off + ((i - 1) - k)
      BY <3>1
    <3>3. ~IsSeam(s[i - 1])
      BY <3>1 DEF IsSeam
    <3> QED
      BY <3>1, <3>2, <3>3, Zenon
  <2>4. i <= k \/ i = k + 1 \/ i > k + 1
    OBVIOUS
  <2> QED
    BY <2>1, <2>2, <2>3, <2>4, Zenon
<1>7. IsSeam(s[1]) => s[l] = <<"frame", g, FrameLen[g]>>
  <2>1. CASE k > 0
    <3>1. off + (l - k) = FrameLen[g]
      BY <1>0, <2>1
    <3> QED
      BY <1>4, <3>1, Zenon
  <2>2. CASE k = 0
    <3>1. s[1] = <<"frame", g, off + (1 - k)>>
      BY <1>3, <2>2
    <3> QED
      BY <3>1 DEF IsSeam
  <2>3. k > 0 \/ k = 0
    OBVIOUS
  <2> QED
    BY <2>1, <2>2, <2>3, Zenon
<1>8. Len(s) <= Capacity
  BY Amounts
<1> QED
  BY <1>0, <1>5, <1>6, <1>7, <1>8, Zenon DEF Composed

\* t is the piece of s with the c elements after the first a.
PieceOf(S, s, t, a, c) == t \in Seq(S) /\ Len(t) = c /\ \A i \in 1..c : t[i] = s[a + i]

LEMMA Piece ==
    ASSUME NEW S, NEW s \in Seq(S), NEW a \in Nat, NEW n \in Nat, NEW c \in Nat, NEW e \in Nat,
           Len(s) = n, a + c = e, e <= n
    PROVE  PieceOf(S, s, SubSeq(s, a + 1, e), a, c)
<1>1. \A i \in (a + 1)..e : s[i] \in S
  OBVIOUS
<1>2. a + 1 \in Int /\ e \in Int
  OBVIOUS
<1>3. /\ SubSeq(s, a + 1, e) \in Seq(S)
      /\ Len(SubSeq(s, a + 1, e)) = IF a + 1 <= e THEN e - (a + 1) + 1 ELSE 0
      /\ \A i \in 1..(e - (a + 1) + 1) : SubSeq(s, a + 1, e)[i] = s[(a + 1) + i - 1]
  BY <1>1, <1>2, SubSeqProperties
<1>4. e - (a + 1) + 1 = c /\ (~(a + 1 <= e) => c = 0) /\ \A i \in 1..c : (a + 1) + i - 1 = a + i
  OBVIOUS
<1> QED
  BY <1>3, <1>4, Zenon DEF PieceOf

\* A seam from f to g, and points of g from the one after off on
SeamOf(seam, f, g, n) ==
    seam \in Seq(Point) /\ Len(seam) = n /\ \A i \in 1..n : seam[i] = <<"seam", f, g, i, n>>

PartOf(pts, g, m, off) ==
    pts \in Seq(Point) /\ Len(pts) = m /\ \A i \in 1..m : pts[i] = <<"frame", g, off + i>>

\* Clamping leaves the tail of the seam and the points after it, and cuts these only when nothing of
\* the seam is left.
LEMMA ClampComposed ==
    ASSUME NEW f, NEW g, NEW seam, NEW pts, NEW n \in Nat, NEW m \in Nat, NEW off \in Nat,
           SeamOf(seam, f, g, n), PartOf(pts, g, m, off),
           n > 0 => off = 0 /\ m = FrameLen[g] /\ m > 0,
           Clamp(seam, pts) # <<>>
    PROVE  Composed(Clamp(seam, pts), g)
<1> DEFINE excess == IF Len(seam) + Len(pts) > Capacity THEN Len(seam) + Len(pts) - Capacity ELSE 0
           trim == Lesser(excess, Len(seam))
           tail == SubSeq(seam, trim + 1, Len(seam))
           kept == tail \o pts
           room == Lesser(Len(kept), Capacity)
           s == SubSeq(kept, 1, room)
<1>0. s = Clamp(seam, pts)
  BY Zenon DEF Clamp
<1>h. /\ seam \in Seq(Point) /\ Len(seam) = n /\ \A i \in 1..n : seam[i] = <<"seam", f, g, i, n>>
      /\ pts \in Seq(Point) /\ Len(pts) = m /\ \A i \in 1..m : pts[i] = <<"frame", g, off + i>>
  BY Zenon DEF SeamOf, PartOf
<1>1. trim \in 0..n /\ (trim < n => n - trim + m <= Capacity)
  BY <1>h, Amounts DEF Lesser
<1> HIDE DEF trim
<1>2. PICK k \in 0..n : k = n - trim /\ trim + 1 = (n - k) + 1
  BY <1>1
<1>3. k > 0 => k + m <= Capacity
  BY <1>1, <1>2
<1>4. tail \in Seq(Point) /\ Len(tail) = k /\ \A i \in 1..k : tail[i] = <<"seam", f, g, (n - k) + i, n>>
  <2>1. tail = SubSeq(seam, (n - k) + 1, n)
    BY <1>2, <1>h, Zenon
  <2>2. /\ SubSeq(seam, (n - k) + 1, n) \in Seq(Point)
        /\ Len(SubSeq(seam, (n - k) + 1, n)) = k
        /\ \A i \in 1..k : SubSeq(seam, (n - k) + 1, n)[i] = seam[(n - k) + i]
    <3>1. n - k \in Nat /\ k \in Nat /\ (n - k) + k = n /\ n <= n
      OBVIOUS
    <3>2. seam \in Seq(Point) /\ Len(seam) = n
      BY <1>h
    <3>3. PieceOf(Point, seam, SubSeq(seam, (n - k) + 1, n), n - k, k)
      BY <3>1, <3>2, Piece, Zenon
    <3> QED
      BY <3>3, Zenon DEF PieceOf
  <2>3. ASSUME NEW i \in 1..k PROVE seam[(n - k) + i] = <<"seam", f, g, (n - k) + i, n>>
    <3>1. (n - k) + i \in 1..n
      OBVIOUS
    <3> QED
      BY <1>h, <3>1, Zenon
  <2> QED
    BY <2>1, <2>2, <2>3, Zenon
<1> HIDE DEF tail
<1>5. Joined(Point, tail, pts, k, m)
  <2>1. tail \in Seq(Point) /\ Len(tail) = k /\ k \in Nat /\ pts \in Seq(Point) /\ Len(pts) = m
    BY <1>4, <1>h
  <2> QED
    BY <2>1, JoinSeq, Zenon
<1>6. kept \in Seq(Point) /\ Len(kept) = k + m
  BY <1>5, Zenon DEF Joined
<1>7. ASSUME NEW i \in 1..(k + m)
      PROVE  kept[i] = IF i <= k THEN <<"seam", f, g, (n - k) + i, n>> ELSE <<"frame", g, off + (i - k)>>
  <2>1. kept[i] = IF i <= k THEN tail[i] ELSE pts[i - k]
    BY <1>5, Zenon DEF Joined
  <2>2. CASE i <= k
    <3>1. i \in 1..k
      BY <2>2
    <3> QED
      BY <1>4, <2>1, <2>2, <3>1, Zenon
  <2>3. CASE ~(i <= k)
    <3>1. i - k \in 1..m
      BY <2>3
    <3> QED
      BY <1>h, <2>1, <2>3, <3>1, Zenon
  <2> QED
    BY <2>2, <2>3, Zenon
<1> HIDE DEF kept
<1>8. PICK l \in Nat : l = room /\ l <= k + m /\ l <= Capacity /\ (k > 0 => l = k + m)
  BY <1>3, <1>6, Amounts DEF Lesser
<1> HIDE DEF room
<1>9. s \in Seq(Point) /\ Len(s) = l /\ \A i \in 1..l : s[i] = kept[i]
  <2>1. /\ SubSeq(kept, 1, l) \in Seq(Point) /\ Len(SubSeq(kept, 1, l)) = l
        /\ \A i \in 1..l : SubSeq(kept, 1, l)[i] = kept[i]
    BY <1>6, <1>8
  <2> QED
    BY <1>8, <2>1, Zenon
<1> HIDE DEF s
<1>a. Shape(s, f, g, k, n, off)
  <2>1. ASSUME NEW i \in 1..l
        PROVE  s[i] = IF i <= k THEN <<"seam", f, g, (n - k) + i, n>> ELSE <<"frame", g, off + (i - k)>>
    <3>1. i \in 1..(k + m)
      BY <1>8
    <3> QED
      BY <1>7, <1>9, <3>1, Zenon
  <2> QED
    BY <1>9, <2>1, Zenon DEF Shape
<1>b. Len(s) \in 1..Capacity
  <2>1. s # <<>>
    BY <1>0, Zenon
  <2> QED
    BY <1>8, <1>9, <2>1, Amounts
<1>c. k > 0 => off = 0 /\ FrameLen[g] \in Nat \ {0} /\ Len(s) = k + FrameLen[g]
  BY <1>8, <1>9
<1>d. Composed(s, g)
  BY <1>9, <1>a, <1>b, <1>c, ShapeComposed, Zenon
<1> QED
  BY <1>0, <1>d, Zenon

\* A frame without points, and an idle frame
LEMMA IdleComposed == ASSUME NEW g PROVE Composed(<<Idle>>, g)
<1>1. Len(<<Idle>>) = 1 /\ 2..1 = {} /\ <<Idle>>[1] = Idle
  OBVIOUS
<1>3. Idle[1] = "idle" /\ "idle" # "seam"
  BY DEF Idle
<1>2. 1 <= Capacity
  BY Amounts
<1> QED
  BY <1>1, <1>2, <1>3, Zenon DEF Composed, IsSeam

\* What compose_hardware_frame makes
LEMMA FrameComposed ==
    ASSUME FrameTypes, PointTypes, ComposeHardwareFrame, drawable' # <<>>,
           ~dirty /\ drawable # <<>> => Composed(drawable, current)
    PROVE  Composed(drawable', current')
<1>0. <<>> \in Seq(Point) /\ Len(<<>>) = 0 /\ 0 \in Nat /\ 1..0 = {} /\ ~(0 > 0)
  OBVIOUS
<1>1. ASSUME NEW plan \in Coalesce..MaxSeam, ComposeChange(plan) PROVE Composed(drawable', current')
  <2>1. PICK g \in Frames : g = pending
    BY <1>1 DEF ComposeChange, FrameTypes
  <2>2. plan \in Plans(current, g) /\ current' = g
    BY <1>1, <2>1, Zenon DEF ComposeChange
  <2>3. Points(g) \in Seq(Point) /\ Len(Points(g)) = FrameLen[g] /\ FrameLen[g] \in Nat
        /\ \A i \in 1..FrameLen[g] : Points(g)[i] = <<"frame", g, i>>
    BY PointsSeq, Lengths, Zenon
  <2>4. CASE plan = Coalesce
    <3>1. PICK k \in Nat : k = Skip(g) /\ k \in 0..FrameLen[g]
      BY <2>3, Lengths
    <3>2. PICK m \in Nat : m = FrameLen[g] - k
      BY <2>3, <3>1
    <3>3. PICK pts : pts = SubSeq(Points(g), 1 + k, FrameLen[g])
      BY Zenon
    <3>4. pts \in Seq(Point) /\ Len(pts) = m /\ \A i \in 1..m : pts[i] = Points(g)[k + i]
      <4>1. k + m = FrameLen[g] /\ FrameLen[g] <= FrameLen[g] /\ 1 + k = k + 1
        BY <2>3, <3>1, <3>2
      <4>2. Points(g) \in Seq(Point) /\ Len(Points(g)) = FrameLen[g] /\ FrameLen[g] \in Nat
        BY <2>3
      <4>3. PieceOf(Point, Points(g), SubSeq(Points(g), k + 1, FrameLen[g]), k, m)
        BY <4>1, <4>2, Piece, Zenon
      <4> QED
        BY <3>3, <4>1, <4>3, Zenon DEF PieceOf
    <3>5. ASSUME NEW i \in 1..m PROVE pts[i] = <<"frame", g, k + i>>
      <4>1. k + i \in 1..FrameLen[g]
        BY <2>3, <3>1, <3>2
      <4> QED
        BY <2>3, <3>4, <4>1, Zenon
    <3>6. drawable' = Clamp(<<>>, pts)
      BY <1>1, <2>1, <2>4, <3>1, <3>3, Zenon DEF ComposeChange
    <3>7. Clamp(<<>>, pts) # <<>>
      BY <3>6, Zenon
    <3>8. Composed(Clamp(<<>>, pts), g)
      <4>1. PartOf(pts, g, m, k) /\ SeamOf(<<>>, g, g, 0)
        BY <1>0, <3>4, <3>5, Zenon DEF PartOf, SeamOf
      <4> QED
        BY <1>0, <3>7, <4>1, ClampComposed, Zenon
    <3> QED
      BY <2>2, <3>6, <3>8, Zenon
  <2>5. CASE plan # Coalesce
    <3>1. plan \in Nat /\ (plan > 0 => current \in Frames /\ g \in Frames)
      BY <2>2, <2>5, PlansType DEF FrameTypes
    <3>2. /\ SeamPoints(current, g, plan) \in Seq(Point) /\ Len(SeamPoints(current, g, plan)) = plan
          /\ \A k \in 1..plan : SeamPoints(current, g, plan)[k] = <<"seam", current, g, k, plan>>
      BY <3>1, SeamSeq, Zenon
    <3>3. PICK c : c = Clamp(SeamPoints(current, g, plan), Points(g))
      OBVIOUS
    <3>4. drawable' = OrIdle(c)
      BY <1>1, <2>1, <2>5, <3>3, Zenon DEF ComposeChange
    <3>5. c # <<>> => Composed(c, g)
      <4>1. plan > 0 => 0 = 0 /\ FrameLen[g] = FrameLen[g] /\ FrameLen[g] > 0
        BY <2>2, <3>1, PlansType DEF FrameTypes
      <4>2. \A i \in 1..FrameLen[g] : Points(g)[i] = <<"frame", g, 0 + i>>
        <5>1. ASSUME NEW i \in 1..FrameLen[g] PROVE 0 + i = i
          BY <2>3
        <5> QED
          BY <2>3, <5>1, Zenon
      <4>3. ASSUME Clamp(SeamPoints(current, g, plan), Points(g)) # <<>>
            PROVE  Composed(Clamp(SeamPoints(current, g, plan), Points(g)), g)
        <5>1. PartOf(Points(g), g, FrameLen[g], 0) /\ SeamOf(SeamPoints(current, g, plan), current, g, plan)
          BY <2>3, <3>2, <4>2, Zenon DEF PartOf, SeamOf
        <5>2. FrameLen[g] \in Nat /\ plan \in Nat /\ 0 \in Nat
          BY <2>3, <3>1
        <5> QED
          BY <4>1, <4>3, <5>1, <5>2, ClampComposed, Zenon
      <4> QED
        BY <3>3, <4>3, Zenon
    <3> QED
      BY <2>2, <3>4, <3>5, IdleComposed, Zenon DEF OrIdle
  <2> QED
    BY <2>4, <2>5
<1>2. ASSUME NEW plan \in Coalesce..MaxSeam, ComposeSelfLoop(plan) PROVE Composed(drawable', current')
  <2>0. current' = current
    BY <1>2, Zenon DEF ComposeSelfLoop
  <2>1. current # None
    BY <1>2, Zenon DEF ComposeSelfLoop
  <2>2. PICK g \in Frames : g = current
    BY <2>1, Zenon DEF FrameTypes
  <2>3. Points(g) \in Seq(Point) /\ Len(Points(g)) = FrameLen[g] /\ FrameLen[g] \in Nat
        /\ \A i \in 1..FrameLen[g] : Points(g)[i] = <<"frame", g, i>>
    BY PointsSeq, Lengths, Zenon
  <2>4. CASE FrameLen[g] = 0
    <3>1. ~(FrameLen[current] > 0)
      BY <2>2, <2>4
    <3>2. drawable' = <<Idle>>
      BY <1>2, <2>1, <2>2, <2>4, <3>1, Zenon DEF ComposeSelfLoop
    <3> QED
      BY <3>2, IdleComposed, Zenon
  <2>5. CASE FrameLen[g] > 0
    <3>1. drawable' = IF plan = Coalesce
                      THEN Clamp(<<>>, SubSeq(Points(g), 1, FrameLen[g] - Skip(g)))
                      ELSE Clamp(SeamPoints(g, g, plan), Points(g))
      <4>1. FrameLen[current] # 0 /\ FrameLen[current] > 0
        BY <2>2, <2>3, <2>5
      <4> QED
        BY <1>2, <2>1, <2>2, <4>1, Zenon DEF ComposeSelfLoop
    <3>a. \A i \in 1..FrameLen[g] : Points(g)[i] = <<"frame", g, 0 + i>>
      <4>1. ASSUME NEW i \in 1..FrameLen[g] PROVE 0 + i = i
        BY <2>3
      <4> QED
        BY <2>3, <4>1, Zenon
    <3>2. CASE plan = Coalesce
      <4>1. PICK m \in 0..FrameLen[g] : m = FrameLen[g] - Skip(g) /\ m \in Nat
        BY <2>3, Lengths
      <4>2. PICK pts : pts = SubSeq(Points(g), 1, m)
        BY Zenon
      <4>3. pts \in Seq(Point) /\ Len(pts) = m /\ \A i \in 1..m : pts[i] = Points(g)[i] /\ i \in 1..FrameLen[g]
        <5>1. 0 \in Nat /\ 0 + m = m /\ m <= FrameLen[g] /\ 0 + 1 = 1
          BY <2>3, <4>1
        <5>2. \A i \in 1..m : 0 + i = i /\ i \in 1..FrameLen[g]
          BY <2>3, <4>1
        <5>3. /\ SubSeq(Points(g), 0 + 1, m) \in Seq(Point) /\ Len(SubSeq(Points(g), 0 + 1, m)) = m
              /\ \A i \in 1..m : SubSeq(Points(g), 0 + 1, m)[i] = Points(g)[0 + i]
          <6>1. Points(g) \in Seq(Point) /\ Len(Points(g)) = FrameLen[g] /\ FrameLen[g] \in Nat /\ m \in Nat
            BY <2>3, <4>1
          <6>2. PieceOf(Point, Points(g), SubSeq(Points(g), 0 + 1, m), 0, m)
            BY <5>1, <6>1, Piece, Zenon
          <6> QED
            BY <6>2, Zenon DEF PieceOf
        <5> QED
          BY <4>2, <5>1, <5>2, <5>3, Zenon
      <4>4. \A i \in 1..m : pts[i] = <<"frame", g, 0 + i>>
        BY <3>a, <4>3, Zenon
      <4>5. drawable' = Clamp(<<>>, pts)
        BY <3>1, <3>2, <4>1, <4>2, Zenon
      <4>6. Clamp(<<>>, pts) # <<>>
        BY <4>5, Zenon
      <4>7. Composed(Clamp(<<>>, pts), g)
        <5>1. PartOf(pts, g, m, 0) /\ SeamOf(<<>>, g, g, 0)
          BY <1>0, <4>3, <4>4, Zenon DEF PartOf, SeamOf
        <5> QED
          BY <1>0, <4>1, <4>6, <5>1, ClampComposed, Zenon
      <4> QED
        BY <2>0, <2>2, <4>5, <4>7, Zenon
    <3>3. CASE plan # Coalesce
      <4>1. plan \in Nat /\ (plan > 0 => 0 = 0 /\ FrameLen[g] = FrameLen[g] /\ FrameLen[g] > 0)
        BY <2>5, <3>3, Amounts DEF Coalesce
      <4>2. /\ SeamPoints(g, g, plan) \in Seq(Point) /\ Len(SeamPoints(g, g, plan)) = plan
            /\ \A k \in 1..plan : SeamPoints(g, g, plan)[k] = <<"seam", g, g, k, plan>>
        BY <4>1, SeamSeq, Zenon
      <4>3. drawable' = Clamp(SeamPoints(g, g, plan), Points(g))
        BY <3>1, <3>3, Zenon
      <4>4. Clamp(SeamPoints(g, g, plan), Points(g)) # <<>>
        BY <4>3, Zenon
      <4>5. Composed(Clamp(SeamPoints(g, g, plan), Points(g)), g)
        <5>1. PartOf(Points(g), g, FrameLen[g], 0) /\ SeamOf(SeamPoints(g, g, plan), g, g, plan)
          BY <2>3, <3>a, <4>2, Zenon DEF PartOf, SeamOf
        <5>2. FrameLen[g] \in Nat /\ plan \in Nat /\ 0 \in Nat
          BY <2>3, <4>1
        <5> QED
          BY <4>1, <4>4, <5>1, <5>2, ClampComposed, Zenon
      <4> QED
        BY <2>0, <2>2, <4>3, <4>5, Zenon
    <3> QED
      BY <3>2, <3>3
  <2>6. FrameLen[g] = 0 \/ FrameLen[g] > 0
    BY <2>3
  <2> QED
    BY <2>4, <2>5, <2>6
<1>3. CASE ComposeCached
  BY <1>3, Zenon DEF ComposeCached, frameVars
<1> QED
  BY <1>1, <1>2, <1>3, Zenon DEF ComposeHardwareFrame

\* What is ready, or would be shown again
SwapInv ==
    kind = "swap" =>
        /\ ~dirty /\ drawable # <<>> => Composed(drawable, current)
        /\ pc = "filled" /\ buffer # <<>> => Composed(buffer, current)

LEMMA SwapKept == ASSUME ContentTypes, SwapInv, Next PROVE SwapInv'
<1> USE DEF engineVars, frameVars, seamVars, fillVars, delayVars, chunkVars
<1>0. FrameTypes /\ PointTypes
  BY Zenon DEF ContentTypes
<1>s. "idle" # "filled" /\ "fifo" # "swap" /\ "stream" # "swap"
  OBVIOUS
<1>1. CASE UNCHANGED <<engineVars, kind>>
  BY <1>1, Zenon DEF SwapInv
<1>2. ASSUME NEW f \in Frames, SubmitFrame(f) PROVE SwapInv'
  <2>1. pc' = "idle" /\ UNCHANGED <<drawable, kind>> /\ (dirty' = TRUE \/ (UNCHANGED <<current, dirty>>))
    BY <1>2, Zenon DEF SubmitFrame, SetPending
  <2> QED
    BY <1>s, <2>1, Zenon DEF SwapInv
<1>3. CASE OnReconnect
  <2>1. CASE UNCHANGED engineVars /\ UNCHANGED kind
    BY <1>1, <2>1, Zenon
  <2>2. CASE ResetAndReplay(Replay) /\ pc' = "idle"
    BY <1>s, <2>2, Zenon DEF ResetAndReplay, SwapInv
  <2> QED
    BY <1>3, <2>1, <2>2, Zenon DEF OnReconnect
<1>4. ASSUME kind # "swap", UNCHANGED kind PROVE SwapInv'
  BY <1>4, Zenon DEF SwapInv
<1>5. CASE FillStep
  <2>1. kind = "fifo" /\ UNCHANGED kind
    BY <1>5, Zenon DEF FillStep, DropSelfLoop, DrainSeam, CopyPoint, Filling, ContentTypes, CursorInv
  <2> QED
    BY <1>4, <1>s, <2>1, Zenon
<1>6. CASE Present
  <2>1. pc' = "idle" /\ UNCHANGED <<frameVars, kind>>
    BY <1>6, Zenon DEF Present
  <2> QED
    BY <1>s, <2>1, Zenon DEF SwapInv
<1>7. ASSUME NEW on \in BOOLEAN, Produce(on) PROVE SwapInv'
  <2>0. UNCHANGED kind
    BY <1>7, Zenon DEF Produce
  <2>1. CASE ProduceFrameSwap
    <3>1. ComposeHardwareFrame /\ kind = "swap" /\ buffer' = drawable'
      BY <2>1, Zenon DEF ProduceFrameSwap, ComposeHardwareFrame
    <3>2. drawable' # <<>> => Composed(drawable', current')
      BY <1>0, <3>1, FrameComposed, Zenon DEF SwapInv
    <3> QED
      BY <3>1, <3>2, Zenon DEF SwapInv
  <2>2. kind = "fifo" \/ kind = "stream" \/ ProduceFrameSwap
    BY <1>7, Zenon DEF Produce, ProduceFifoChunk, ProduceChunk, ProduceLast, IsStream
  <2> QED
    BY <1>4, <1>s, <2>0, <2>1, <2>2, Zenon
<1>8. (\E d \in 0..MaxDelay : SetColorDelay(d)) \/ OnDisarm \/ ArmStartupBlank \/ ProduceEnd
         \/ (\E on \in BOOLEAN : CommitWritten(on)) => UNCHANGED <<engineVars, kind>>
  BY Zenon DEF SetColorDelay, OnDisarm, ArmStartupBlank, ProduceEnd, CommitWritten
<1> QED
  BY <1>1, <1>2, <1>3, <1>5, <1>6, <1>7, <1>8, Zenon DEF Next, Application, Driver

-------------------------------------------------------------------------------
(* The newest frame, and what a starved chunk repeats *)

\* Before the first frame is chosen nothing is pending.
NewestInv == NewestKept /\ (current = None => pending = None)

LEMMA NewestStays == ASSUME ContentTypes, NewestInv, Next PROVE NewestInv'
<1> USE DEF engineVars, frameVars, seamVars, fillVars, delayVars, chunkVars
<1>0. FrameTypes
  BY Zenon DEF ContentTypes
<1>1. CASE UNCHANGED <<current, pending, last_frame>>
  BY <1>1, Zenon DEF NewestInv, NewestKept
<1>2. ASSUME NEW f \in Frames, SubmitFrame(f) PROVE NewestInv'
  <2>1. f # None /\ last_frame' = f /\ SetPending(f)
    BY <1>2, EngineAssumption, Zenon DEF SubmitFrame
  <2> QED
    BY <2>1, Zenon DEF SetPending, NewestInv, NewestKept
<1>3. ASSUME current' = pending, pending' = None, pending # None, UNCHANGED last_frame PROVE NewestInv'
  BY <1>3, Zenon DEF NewestInv, NewestKept
<1>4. CASE OnReconnect
  <2>1. CASE UNCHANGED engineVars /\ UNCHANGED last_frame
    BY <1>1, <2>1, Zenon
  <2>2. CASE ResetAndReplay(Replay) /\ UNCHANGED last_frame
    BY <2>2, Zenon DEF ResetAndReplay, Replay, NewestInv, NewestKept
  <2> QED
    BY <1>4, <2>1, <2>2, Zenon DEF OnReconnect
<1>5. CASE FillStep
  <2>1. CASE DropSelfLoop
    BY <1>3, <1>5, <2>1, Zenon DEF DropSelfLoop, SelfLoopIsStale, PromotePending, FillStep
  <2>2. CASE DrainSeam
    BY <1>1, <1>5, <2>2, Zenon DEF DrainSeam, FillStep
  <2>3. CASE CopyPoint
    <3>1. CASE SeamToPending
      BY <1>3, <1>5, <3>1, Zenon DEF SeamToPending, PromotePending, FillStep
    <3>2. CASE UNCHANGED frameVars
      BY <1>1, <1>5, <3>2, Zenon DEF FillStep
    <3> QED
      BY <2>3, <3>1, <3>2, Zenon DEF CopyPoint, SeamToSelf
  <2> QED
    BY <1>5, <2>1, <2>2, <2>3, Zenon DEF FillStep
<1>6. CASE Present
  BY <1>1, <1>6, Zenon DEF Present
<1>7. ASSUME NEW on \in BOOLEAN, Produce(on) PROVE NewestInv'
  <2>0. UNCHANGED last_frame
    BY <1>7, Zenon DEF Produce
  <2>1. ASSUME NEW n, BeginFill(n) PROVE NewestInv'
    BY <1>1, <2>0, <2>1, Zenon DEF BeginFill
  <2>2. CASE ComposeHardwareFrame
    <3>1. ASSUME NEW plan, ComposeChange(plan) PROVE NewestInv'
      BY <1>3, <2>0, <3>1, Zenon DEF ComposeChange
    <3>2. ASSUME NEW plan, ComposeSelfLoop(plan) PROVE NewestInv'
      BY <1>1, <2>0, <3>2, Zenon DEF ComposeSelfLoop
    <3>3. CASE ComposeCached
      BY <1>1, <2>0, <3>3, Zenon DEF ComposeCached
    <3> QED
      BY <2>2, <3>1, <3>2, <3>3, Zenon DEF ComposeHardwareFrame
  <2>3. ASSUME NEW n, NEW filled, NEW k, ProduceChunk(n, filled, on, k) \/ ProduceLast(filled, k) PROVE NewestInv'
    BY <1>1, <2>0, <2>3, Zenon DEF ProduceChunk, ProduceLast
  <2> QED
    BY <1>7, <2>1, <2>2, <2>3, Zenon DEF Produce, ProduceFifoChunk, ProduceFrameSwap
<1>8. (\E d \in 0..MaxDelay : SetColorDelay(d)) \/ OnDisarm \/ ArmStartupBlank \/ ProduceEnd
         \/ (\E on \in BOOLEAN : CommitWritten(on)) => UNCHANGED <<engineVars, last_frame>>
  BY Zenon DEF SetColorDelay, OnDisarm, ArmStartupBlank, ProduceEnd, CommitWritten
<1> QED
  BY <1>1, <1>2, <1>4, <1>5, <1>6, <1>7, <1>8, Zenon DEF Next, Application, Driver

\* The names of the points of a chunk
NamesIn(s, ks) == \A i \in 1..Len(s), k \in Names : s[i] = <<"user", k>> => k \in ks

\* A chunk, and what would be repeated, holds nothing but what was written or is new.
RepeatInv == IsStream => NamesIn(last_chunk, written) /\ NamesIn(raw, written \cup {fresh})

\* The new points have the name k; the others are idle or come from the chunk that is repeated.
LEMMA RawNames ==
    ASSUME ChunkTypes, NEW n \in Nat, NEW filled \in 0..n, NEW k \in Names, NEW on \in BOOLEAN, NEW ks,
           NamesIn(last_chunk, ks)
    PROVE  NamesIn(RawChunk(n, filled, on, k), ks \cup {k}) /\ NamesIn(Fill(filled, <<"user", k>>), ks \cup {k})
<1>0. \A j \in Names : <<"user", j>> = <<"user", k>> => j = k
  OBVIOUS
<1>i. \A j \in Names : Idle # <<"user", j>>
  BY DEF Idle
<1>1. <<"user", k>> \in Point /\ Idle \in Point
  BY DEF Point
<1>2. PICK c \in Nat : c = filled
  OBVIOUS
<1>3. PICK m \in Nat : m = n - filled
  OBVIOUS
<1>4. /\ Fill(c, <<"user", k>>) \in Seq(Point) /\ Len(Fill(c, <<"user", k>>)) = c
      /\ \A i \in 1..c : Fill(c, <<"user", k>>)[i] = <<"user", k>>
  BY <1>1, FillSeq, Zenon
<1>5. /\ Fill(m, Idle) \in Seq(Point) /\ Len(Fill(m, Idle)) = m /\ \A i \in 1..m : Fill(m, Idle)[i] = Idle
  BY <1>1, FillSeq, Zenon
<1>6. PICK rest : rest = IF on THEN IdleRange(m) ELSE Fill(m, Idle)
  BY Zenon
<1>7. /\ rest \in Seq(Point) /\ Len(rest) = m
      /\ \A i \in 1..m : \A j \in Names : rest[i] = <<"user", j>> => j \in ks
  <2>1. CASE rest = Fill(m, Idle)
    BY <1>5, <1>i, <2>1, Zenon
  <2>2. CASE on /\ repeat /\ last_chunk # <<>>
    <3>1. rest = [i \in 1..m |-> last_chunk[((i - 1) % Len(last_chunk)) + 1]]
      BY <1>6, <2>2, Zenon DEF IdleRange
    <3>2. last_chunk \in Seq(Point)
      BY DEF ChunkTypes
    <3>3. PICK l \in Nat \ {0} : l = Len(last_chunk)
      BY <2>2, <3>2
    <3>4. \A i \in 1..m : ((i - 1) % l) + 1 \in 1..l
      OBVIOUS
    <3>5. \A i \in 1..m : last_chunk[((i - 1) % l) + 1] \in Point
      BY <3>2, <3>3, <3>4
    <3>6. rest \in [1..m -> Point] /\ \A i \in 1..m : rest[i] = last_chunk[((i - 1) % l) + 1]
      BY <3>1, <3>3, <3>5, Zenon
    <3>7. rest \in Seq(Point) /\ Len(rest) = m
      BY <3>6, FunSeq, Zenon
    <3> QED
      BY <3>3, <3>4, <3>6, <3>7, Zenon DEF NamesIn
  <2> QED
    BY <1>6, <2>1, <2>2, Zenon DEF IdleRange
<1>8. Joined(Point, Fill(c, <<"user", k>>), rest, c, m)
  <2>1. /\ Fill(c, <<"user", k>>) \in Seq(Point) /\ Len(Fill(c, <<"user", k>>)) = c
        /\ rest \in Seq(Point) /\ Len(rest) = m
    BY <1>4, <1>7
  <2> QED
    BY <2>1, JoinSeq, Zenon
<1>9. PICK all : all = Fill(c, <<"user", k>>) \o rest
  BY Zenon
<1>a. Len(all) = c + m /\ \A i \in 1..(c + m) : all[i] = IF i <= c THEN Fill(c, <<"user", k>>)[i] ELSE rest[i - c]
  BY <1>8, <1>9, Zenon DEF Joined
<1>b. ASSUME NEW i \in 1..(c + m), NEW j \in Names, all[i] = <<"user", j>> PROVE j \in ks \cup {k}
  <2>1. CASE i <= c
    <3>1. i \in 1..c
      BY <2>1
    <3> QED
      BY <1>0, <1>4, <1>a, <1>b, <2>1, <3>1, Zenon
  <2>2. CASE ~(i <= c)
    <3>1. i - c \in 1..m
      BY <2>2
    <3> QED
      BY <1>7, <1>a, <1>b, <2>2, <3>1, Zenon
  <2> QED
    BY <2>1, <2>2, Zenon
<1>c. NamesIn(all, ks \cup {k})
  BY <1>a, <1>b, Zenon DEF NamesIn
<1>d. RawChunk(n, filled, on, k) = all
  BY <1>2, <1>3, <1>6, <1>9, Zenon DEF RawChunk
<1>e. NamesIn(Fill(c, <<"user", k>>), ks \cup {k})
  BY <1>0, <1>4, Zenon DEF NamesIn
<1> QED
  BY <1>2, <1>c, <1>d, <1>e, Zenon

LEMMA RepeatKept == ASSUME ContentTypes, RepeatInv, Next PROVE RepeatInv'
<1> USE DEF engineVars, frameVars, seamVars, fillVars, delayVars, chunkVars
<1>0. ChunkTypes
  BY Zenon DEF ContentTypes
<1>1. CASE UNCHANGED <<raw, last_chunk, fresh, written, kind>>
  BY <1>1, Zenon DEF RepeatInv, NamesIn, IsStream
<1>2. CASE OnReconnect
  <2>1. CASE IsStream
    <3>1. raw' = <<>> /\ last_chunk' = <<>>
      BY <1>2, <2>1, Zenon DEF OnReconnect
    <3>2. 1..Len(<<>>) = {}
      OBVIOUS
    <3> QED
      BY <3>1, <3>2, Zenon DEF RepeatInv, NamesIn
  <2>2. CASE ~IsStream
    BY <1>1, <1>2, <2>2, Zenon DEF OnReconnect
  <2> QED
    BY <2>1, <2>2, Zenon
<1>3. ASSUME NEW on \in BOOLEAN, CommitWritten(on) PROVE RepeatInv'
  <2>1. UNCHANGED <<raw, fresh, kind>>
    BY <1>3, Zenon DEF CommitWritten
  <2>2. CASE IsStream /\ on
    BY <1>3, <2>1, <2>2, Zenon DEF CommitWritten, RepeatInv, NamesIn
  <2>3. CASE ~(IsStream /\ on)
    BY <1>1, <1>3, <2>1, <2>3, Zenon DEF CommitWritten
  <2> QED
    BY <2>2, <2>3, Zenon
<1>4. ASSUME NEW n \in Nat, NEW filled \in 0..n, NEW k \in Names, NEW on \in BOOLEAN, IsStream, IsFresh(k),
             raw' \in {RawChunk(n, filled, on, k), Fill(filled, <<"user", k>>)},
             fresh' = k, written' = written \ {k}, UNCHANGED last_chunk
      PROVE  RepeatInv'
  <2>1. NamesIn(last_chunk, written \ {k})
    BY <1>4, Zenon DEF RepeatInv, NamesIn, IsFresh
  <2>2. NamesIn(raw', (written \ {k}) \cup {k})
    <3>1. PICK ks : ks = written \ {k}
      BY Zenon
    <3>2. NamesIn(last_chunk, ks)
      BY <2>1, <3>1, Zenon
    <3>3. NamesIn(RawChunk(n, filled, on, k), ks \cup {k}) /\ NamesIn(Fill(filled, <<"user", k>>), ks \cup {k})
      BY <1>0, <3>2, RawNames, Zenon
    <3> QED
      BY <1>4, <3>1, <3>3, Zenon
  <2>3. NamesIn(last_chunk', written') /\ NamesIn(raw', written' \cup {fresh'})
    BY <1>4, <2>1, <2>2, Zenon
  <2> QED
    BY <2>3, Zenon DEF RepeatInv
<1>5. ASSUME NEW on \in BOOLEAN, Produce(on) PROVE RepeatInv'
  <2>0. UNCHANGED kind
    BY <1>5, Zenon DEF Produce
  <2>1. ASSUME NEW n \in 1..MaxChunk, NEW filled \in 0..n, NEW k \in Names, ProduceChunk(n, filled, on, k)
        PROVE  RepeatInv'
    <3>1. n \in Nat
      BY Amounts
    <3> QED
      BY <1>4, <2>1, <3>1, Zenon DEF ProduceChunk
  <2>2. ASSUME NEW filled \in 1..(MaxChunk - 1), NEW k \in Names, ProduceLast(filled, k) PROVE RepeatInv'
    <3>1. filled \in Nat /\ filled \in 0..filled
      BY Amounts
    <3> QED
      BY <1>4, <2>2, <3>1, Zenon DEF ProduceLast
  <2>3. CASE (\E n \in 1..MaxChunk : ProduceFifoChunk(n)) \/ ProduceFrameSwap
    BY <1>1, <2>0, <2>3, Zenon DEF ProduceFifoChunk, ProduceFrameSwap
  <2> QED
    BY <1>5, <2>1, <2>2, <2>3, Zenon DEF Produce
<1>6. (\E f \in Frames : SubmitFrame(f)) \/ (\E d \in 0..MaxDelay : SetColorDelay(d)) \/ OnDisarm \/ ArmStartupBlank
         \/ ProduceEnd \/ FillStep \/ Present => UNCHANGED <<raw, last_chunk, fresh, written, kind>>
  BY Zenon DEF SubmitFrame, SetColorDelay, OnDisarm, ArmStartupBlank, ProduceEnd, FillStep, Present
<1> QED
  BY <1>1, <1>2, <1>3, <1>5, <1>6, Zenon DEF Next, Application, Driver

-------------------------------------------------------------------------------
(* The sources *)

\* The inductive invariant
ContentInv == ContentTypes /\ DarkInv /\ PathInv /\ SwapInv /\ NewestInv /\ RepeatInv

LEMMA ContentStarts == Init => ContentInv
<1> SUFFICES ASSUME Init PROVE ContentInv
  OBVIOUS
<1>0. <<>> \in Seq(Point) /\ <<>> \in Seq(Colors) /\ Len(<<>>) = 0 /\ 1..0 = {} /\ "idle" # "fill"
  OBVIOUS
<1>1. Flags
  <2>1. IsStream \in BOOLEAN
    BY Zenon DEF IsStream
  <2> QED
    BY <2>1, Zenon DEF Init, EngineInit, Flags
<1>2. FrameTypes
  BY Zenon DEF Init, EngineInit, FrameTypes
<1>3. drawable = <<>> /\ tbuf = <<>> /\ buffer = <<>> /\ cursor = 0 /\ tcursor = 0 /\ want = 0 /\ pc = "idle" /\ dirty = TRUE
  BY Zenon DEF Init, EngineInit
<1>4. PointTypes
  BY <1>0, <1>3, Amounts DEF PointTypes
<1>5. ChunkTypes
  <2>1. (CHOOSE k \in Names : TRUE) \in Names
    BY SourceAssumption, Zenon
  <2> QED
    BY <1>0, <2>1, Zenon DEF Init, ChunkTypes
<1>6. delay \in 0..MaxDelay /\ blank_left = 0 /\ owed = 0 /\ carry = <<>> /\ colors = <<>>
  BY Zenon DEF Init
<1>7. DelayTypes
  BY <1>0, <1>6, Amounts DEF DelayTypes
<1>8. CursorInv /\ DrawnInv
  <2>1. 0 <= 0
    OBVIOUS
  <2> QED
    BY <1>0, <1>3, <2>1, Zenon DEF CursorInv, DrawnInv
<1>9. DarkInv
  <2>1. 0 <= 0 + delay /\ ~(0 > 0)
    BY <1>6, Amounts
  <2> QED
    BY <1>0, <1>3, <1>6, <2>1, Zenon DEF DarkInv, DisarmedDark, AllDark
<1>a. PathInv
  <2>1. Chained(<<>>, trail) /\ LastOr(<<>>, trail) = <<>> /\ ~Draining
    <3>1. ~(0 < 0)
      OBVIOUS
    <3> QED
      BY <1>0, <1>3, <3>1, Zenon DEF Init, EngineInit, Chained, LastOr, Draining
  <2>2. PathFrom(<<>>)
    BY <1>3, <2>1, Zenon DEF PathFrom
  <2> QED
    BY <1>3, <2>1, <2>2, Zenon DEF PathInv
<1>b. SwapInv
  <2>1. "idle" # "filled"
    OBVIOUS
  <2> QED
    BY <1>3, <2>1, Zenon DEF SwapInv
<1>c. NewestInv /\ RepeatInv
  BY <1>0, Zenon DEF Init, EngineInit, NewestInv, NewestKept, RepeatInv, NamesIn
<1> QED
  BY <1>1, <1>2, <1>4, <1>5, <1>7, <1>8, <1>9, <1>a, <1>b, <1>c, Zenon DEF ContentInv, ContentTypes

\* A step that leaves everything as it is
LEMMA ContentStutters == ASSUME ContentInv, UNCHANGED vars PROVE ContentInv' /\ DisarmedDark'
<1> USE DEF vars, engineVars, frameVars, seamVars, fillVars, delayVars, chunkVars
<1>0. Flags /\ FrameTypes /\ PointTypes /\ ChunkTypes /\ DelayTypes /\ CursorInv /\ DrawnInv /\ DarkInv
      /\ PathInv /\ SwapInv /\ NewestInv /\ RepeatInv
  BY Zenon DEF ContentInv, ContentTypes
<1>1. Flags' /\ FrameTypes' /\ PointTypes'
  BY <1>0, Zenon DEF Flags, FrameTypes, PointTypes
<1>2. ChunkTypes' /\ DelayTypes'
  BY <1>0, Zenon DEF ChunkTypes, DelayTypes
<1>3. CursorInv' /\ DrawnInv'
  BY <1>0, Zenon DEF CursorInv, DrawnInv, Drawn
<1>4. DarkInv' /\ DisarmedDark'
  BY <1>0, DarkStays, Zenon DEF DarkInv
<1>5. PathInv'
  BY <1>0, Zenon DEF PathInv, Chained, PathFrom, LastOr, SeamAhead, Draining, AtEnd
<1>6. SwapInv' /\ NewestInv' /\ RepeatInv'
  BY <1>0, Zenon DEF SwapInv, NewestInv, NewestKept, RepeatInv, NamesIn, IsStream
<1> QED
  BY <1>1, <1>2, <1>3, <1>4, <1>5, <1>6, Zenon DEF ContentInv, ContentTypes

LEMMA ContentStep == ContentInv /\ [Next]_vars => ContentInv' /\ [DisarmedDark' /\ StartupDark]_vars
<1>1. ASSUME ContentInv, Next PROVE ContentInv' /\ DisarmedDark' /\ StartupDark
  BY <1>1, PointsTyped, CursorKept, DrawnKept, FlagsKept, FramesKept, ChunksKept, DarkKept, PathKept,
     SwapKept, NewestStays, RepeatKept, Zenon
     DEF ContentInv, ContentTypes, DarkInv
<1> QED
  BY <1>1, ContentStutters, Zenon

\* What the invariant says of the properties
LEMMA ContentHolds == ContentInv => SeamContinuity /\ ContentSound
<1> SUFFICES ASSUME ContentInv PROVE SeamContinuity /\ ContentSound
  OBVIOUS
<1>0. Flags /\ FrameTypes /\ PointTypes /\ ChunkTypes /\ DelayTypes /\ CursorInv
  BY Zenon DEF ContentInv, ContentTypes
<1>1. SeamContinuity
  BY Zenon DEF ContentInv, PathInv, Chained, SeamContinuity
<1>2. TypeOK
  <2>1. cursor \in 0..Len(drawable) /\ tcursor \in 0..Len(tbuf)
    BY <1>0 DEF PointTypes, CursorInv
  <2>2. /\ \A i \in 1..Len(carry) : carry[i] \in {Lit, Dark}
        /\ \A i \in 1..Len(colors) : colors[i] \in {Lit, Dark}
    BY <1>0 DEF DelayTypes, Colors
  <2>3. /\ dirty \in BOOLEAN /\ tself \in BOOLEAN /\ ended \in BOOLEAN
        /\ clean \in BOOLEAN /\ for_armed \in BOOLEAN /\ repeat \in BOOLEAN
    BY <1>0, Zenon DEF Flags
  <2> QED
    BY <1>0, <2>1, <2>2, <2>3, Zenon DEF TypeOK, FrameTypes, PointTypes, ChunkTypes, DelayTypes
<1>3. SwapComposed
  BY Zenon DEF ContentInv, SwapInv, SwapComposed, Composed
<1>4. NewestKept
  BY Zenon DEF ContentInv, NewestInv
<1>5. RepeatsWritten
  BY Zenon DEF ContentInv, RepeatInv, NamesIn, RepeatsWritten
<1> QED
  BY <1>1, <1>2, <1>3, <1>4, <1>5, Zenon DEF ContentSound

\* The sources keep their invariant.
LEMMA ContentAlways == Spec => []ContentInv
  BY ContentStarts, ContentStep, PTL DEF Spec

\* Dark when due, for any frames, delays, windows, chunks and any order of the calls: a slice composed
\* disarmed after the falling cleanup is dark, and so is the whole startup window of an arm with the
\* colour delay on top of it (ColorDelayLine, apply_blanking, on_disarm, arm_startup_blank).
THEOREM ColorsDark == Spec => DarkWhenDue
  BY ContentAlways, ContentStep, PTL DEF Spec, DarkWhenDue

\* The beam never jumps, for any frames, seams, chunk sizes and any order of submissions, chunks and
\* reconnects: from each point of what fill_chunk produces the next one is where the path leads, over
\* the ends of frames, of seams and of chunks.
THEOREM BeamContinuous == Spec => []SeamContinuity
  BY ContentAlways, ContentHolds, PTL

\* What is shown is what was meant, for any frames, capacity, seams and chunks: compose_hardware_frame and
\* clamp_to_capacity give up the seam before the frame, set_pending and the replay after a reconnect
\* keep the newest frame, and a starved chunk repeats only what was written to this device.
THEOREM ContentSafety == Spec => []ContentSound
  BY ContentAlways, ContentHolds, PTL

================================================================================
