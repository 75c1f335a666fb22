---------------------------- MODULE EstimatorProofs ---------------------------
(***************************************************************************)
(* The estimates of a device's queue stay within their bounds, at any rate *)
(* and for any length of time: the acknowledged one, the one between two   *)
(* reports, and the one of a device that says nothing.                     *)
(***************************************************************************)
EXTENDS BufferEstimators, TLAPS

-----------------------------------------------------------------------------
(***************************************************************************)
(* The acknowledged estimate.  AckedInv adds up the packets from each one  *)
(* to the newest and bounds each sum by the sent track and what it has not *)
(* seen.  Every acknowledgement under way bounds what the device will hold *)
(* by what it reports and what was left out of it, so that it may become   *)
(* the anchor; while all is in order, one that leaves something out is not *)
(* of a newest message and anchors nothing.                                *)
(***************************************************************************)

Numbers == 0..(MessageNumbers - 1)

Track == [age : Nat \cup {-1}, size : 0..AckCapacity]
Packet == [number : Numbers, points : Nat, age : 0..MaxDelay]
Reply == [number : Numbers, free : 0..AckCapacity, age : 0..MaxDelay, left : Nat]

\* The types
AckedTypes ==
    /\ sentTrack \in Track /\ ackTrack \in Track
    /\ message_times \in [Numbers -> Nat \cup {-1}] /\ next_number \in Numbers
    /\ packets \in Seq(Packet) /\ ackReplies \in Seq(Reply)
    /\ device \in Nat /\ device <= AckCapacity /\ under_way \in Nat /\ unseen \in Nat /\ disorder \in BOOLEAN

\* A message in the map is no newer than the last send.
TimeOK(m) == message_times[m] # -1 => sentTrack.age # -1 /\ sentTrack.age <= message_times[m]

\* The map knows of no older send of the number.
PacketOK(p) == message_times[p.number] <= p.age

\* What the device will hold is in the report or was left out of it.
ReplyOK(r) ==
    /\ message_times[r.number] <= r.age + MaxDelay
    /\ under_way <= r.left
    /\ device + under_way <= FloorZero((AckCapacity - r.free) - r.age) + r.left

LinksInv ==
    /\ \A m \in Numbers : TimeOK(m)
    /\ \A i \in 1..Len(packets) : PacketOK(packets[i])
    /\ \A i \in 1..Len(ackReplies) : ReplyOK(ackReplies[i])

\* sums[i]: the points of the packets from the i-th one on
Sums(sums) ==
    /\ sums \in [1..(Len(packets) + 1) -> Nat] /\ sums[Len(packets) + 1] = 0
    /\ \A i \in 1..Len(packets) : sums[i] = sums[i + 1] + packets[i].points
    /\ \A i, j \in 1..(Len(packets) + 1) : i <= j => sums[j] <= sums[i]
    /\ under_way = sums[1]

\* Each sum, and with it the device, is bounded by the estimate and by what it has not seen.
Bounded(sums) ==
    /\ \A i \in 1..Len(packets) : sums[i] <= EstimateBy(sentTrack) + packets[i].age + unseen
    /\ under_way + device <= EstimateBy(sentTrack) + MaxDelay + unseen
    /\ under_way + device <= AckCapacity + unseen

SumInv == \E sums : Sums(sums) /\ Bounded(sums)

\* In order: nothing is unseen, and only the newest packet can be of the newest message.
Orderly ==
    /\ unseen = 0
    /\ \A i \in 1..Len(packets) : i < Len(packets) => ~Newest(packets[i].number)
    /\ \A i \in 1..Len(ackReplies) : ackReplies[i].left # 0 => ~Newest(ackReplies[i].number)

OrderInv == ~disorder => Orderly

AckedInv == AckedTypes /\ LinksInv /\ SumInv /\ OrderInv

-----------------------------------------------------------------------------
\* What the assumptions say
LEMMA AckBounds ==
    /\ AckCapacity \in Nat \ {0} /\ LATENCY_POINT_ADJUSTMENT \in Nat /\ MIN_SENDABLE_POINTS \in Nat \ {0}
    /\ MessageNumbers \in Nat \ {0} /\ MaxDelay \in Nat /\ MaxDelay <= LATENCY_POINT_ADJUSTMENT
    /\ STALE_ENTRY_TIMEOUT \in Nat
    /\ OldestAge \in Nat /\ OldestAge >= AckCapacity /\ OldestAge > 2 * MaxDelay
  BY DualTrackAssumption

\* The number after the last one is the first one.
LEMMA NextNumber ==
    ASSUME NEW n \in Numbers
    PROVE  (n + 1) % MessageNumbers \in Numbers
<1>1. MessageNumbers \in Nat \ {0} /\ n + 1 \in Nat
  BY AckBounds DEF Numbers
<1>2. PICK m \in Nat, k \in Nat : m = MessageNumbers /\ m > 0 /\ k = n + 1
  BY <1>1
<1>3. k % m \in 0..(m - 1)
  BY <1>2
<1> QED
  BY <1>2, <1>3 DEF Numbers

\* A difference that does not go below zero
LEMMA FloorIsNat == \A x \in Int : FloorZero(x) \in Nat
  BY DEF FloorZero

\* The values the estimate of a track is made from
LEMMA TrackParts ==
    ASSUME NEW t \in Track
    PROVE  /\ t.age \in Nat \cup {-1} /\ t.size \in 0..AckCapacity /\ t.size \in Nat /\ t.size <= AckCapacity
           /\ EstimateBy(t) \in Nat /\ EstimateBy(t) <= AckCapacity
           /\ t.age = -1 => EstimateBy(t) = 0
           /\ t.age # -1 => EstimateBy(t) = FloorZero(t.size - t.age)
<1>1. t.age \in Nat \cup {-1} /\ t.size \in 0..AckCapacity
  BY DEF Track
<1>2. t.size \in Nat /\ t.size <= AckCapacity
  BY <1>1, AckBounds
<1> QED
  BY <1>1, <1>2, AckBounds DEF EstimateBy, FloorZero

\* The values of a packet
LEMMA PacketParts ==
    ASSUME AckedTypes, NEW i \in 1..Len(packets)
    PROVE  /\ Len(packets) \in Nat /\ packets[i] \in Packet /\ packets[i].number \in Numbers
           /\ packets[i].points \in Nat /\ packets[i].age \in Nat /\ packets[i].age <= MaxDelay
<1>1. packets[i] \in Packet /\ Len(packets) \in Nat
  BY DEF AckedTypes
<1>2. PICK p \in Packet : p = packets[i]
  BY <1>1
<1>3. p.number \in Numbers /\ p.points \in Nat /\ p.age \in 0..MaxDelay
  BY <1>2 DEF Packet
<1>4. p.age \in Nat /\ p.age <= MaxDelay
  BY <1>3, AckBounds
<1> QED
  BY <1>1, <1>2, <1>3, <1>4, Zenon

\* ... and of an acknowledgement
LEMMA ReplyParts ==
    ASSUME AckedTypes, NEW i \in 1..Len(ackReplies)
    PROVE  /\ Len(ackReplies) \in Nat /\ ackReplies[i] \in Reply /\ ackReplies[i].number \in Numbers
           /\ ackReplies[i].free \in Nat /\ ackReplies[i].free <= AckCapacity /\ ackReplies[i].left \in Nat
           /\ ackReplies[i].age \in Nat /\ ackReplies[i].age <= MaxDelay
<1>1. ackReplies[i] \in Reply /\ Len(ackReplies) \in Nat
  BY DEF AckedTypes
<1>2. PICK p \in Reply : p = ackReplies[i]
  BY <1>1
<1>3. p.number \in Numbers /\ p.free \in 0..AckCapacity /\ p.left \in Nat /\ p.age \in 0..MaxDelay
  BY <1>2 DEF Reply
<1>4. p.age \in Nat /\ p.age <= MaxDelay /\ p.free \in Nat /\ p.free <= AckCapacity
  BY <1>3, AckBounds
<1> QED
  BY <1>1, <1>2, <1>3, <1>4, Zenon

\* What a queue of letters holds without one of them
LEMMA WithoutParts ==
    ASSUME NEW S, NEW q \in Seq(S), NEW i \in 1..Len(q)
    PROVE  /\ Without(q, i) \in Seq(S) /\ Len(q) \in Nat /\ Len(q) > 0 /\ Len(Without(q, i)) = Len(q) - 1
           /\ \A j \in 1..(Len(q) - 1) :
                 /\ j \in 1..Len(q) /\ j + 1 \in 1..Len(q)
                 /\ j < i => Without(q, i)[j] = q[j]
                 /\ ~(j < i) => Without(q, i)[j] = q[j + 1]
<1> DEFINE n == Len(q)
<1>1. n \in Nat /\ n > 0 /\ \A j \in 1..n : q[j] \in S
  OBVIOUS
<1>2. \A j \in 1..(n - 1) : j \in 1..n /\ j + 1 \in 1..n
  BY <1>1
<1>3. Without(q, i) = [j \in 1..(n - 1) |-> IF j < i THEN q[j] ELSE q[j + 1]]
  BY DEF Without
<1> HIDE DEF n
<1>4. \A j \in 1..(n - 1) : (IF j < i THEN q[j] ELSE q[j + 1]) \in S
  BY <1>1, <1>2, Zenon
<1>5. Without(q, i) \in [1..(n - 1) -> S]
  BY <1>3, <1>4, Zenon
<1>6. Without(q, i) \in Seq(S) /\ Len(Without(q, i)) = n - 1
  BY <1>1, <1>5
<1>7. \A j \in 1..(n - 1) : /\ j < i => Without(q, i)[j] = q[j]
                            /\ ~(j < i) => Without(q, i)[j] = q[j + 1]
  BY <1>3, Zenon
<1> QED
  BY <1>1, <1>2, <1>6, <1>7, Zenon DEF n

\* ... and with one more
LEMMA AppendParts ==
    ASSUME NEW S, NEW q \in Seq(S), NEW c \in S
    PROVE  /\ Append(q, c) \in Seq(S) /\ Len(q) \in Nat /\ Len(Append(q, c)) = Len(q) + 1
           /\ Append(q, c)[Len(q) + 1] = c /\ \A i \in 1..Len(q) : Append(q, c)[i] = q[i]
  OBVIOUS

\* A new estimator has the invariant.
LEMMA AckedStarts == ASSUME AckedInit PROVE AckedInv
<1>1. /\ sentTrack = NoTrack /\ ackTrack = NoTrack /\ next_number = 0
      /\ message_times = [m \in Numbers |-> -1] /\ packets = <<>> /\ ackReplies = <<>> /\ device = 0
      /\ under_way = 0 /\ unseen = 0 /\ disorder = FALSE
  BY Zenon DEF AckedInit, Numbers
<1>2. NoTrack \in Track
  BY AckBounds DEF NoTrack, Track
<1>3. AckedTypes
  <2>1. 0 \in Numbers /\ message_times \in [Numbers -> Nat \cup {-1}]
    BY <1>1, AckBounds DEF Numbers
  <2>2. packets \in Seq(Packet) /\ ackReplies \in Seq(Reply)
    BY <1>1
  <2>3. 0 <= AckCapacity /\ 0 \in Nat
    BY AckBounds
  <2> QED
    BY <1>1, <1>2, <2>1, <2>2, <2>3, Zenon DEF AckedTypes
<1>4. Len(packets) = 0 /\ Len(ackReplies) = 0 /\ 1..0 = {}
  BY <1>1
<1>5. LinksInv
  <2>1. \A m \in Numbers : message_times[m] = -1
    BY <1>1
  <2> QED
    BY <1>4, <2>1 DEF LinksInv, TimeOK
<1>6. EstimateBy(sentTrack) = 0
  BY <1>1 DEF EstimateBy, NoTrack
<1>7. PICK w : w = [i \in 1..1 |-> 0]
  OBVIOUS
<1>8. Sums(w) /\ Bounded(w)
  BY <1>1, <1>4, <1>6, <1>7, AckBounds DEF Sums, Bounded
<1>9. OrderInv
  BY <1>1, <1>4 DEF OrderInv, Orderly
<1> QED
  BY <1>3, <1>5, <1>8, <1>9, Zenon DEF AckedInv, SumInv

\* The sums when a packet has left
LEMMA SumsWithout ==
    ASSUME AckedTypes, NEW i \in 1..Len(packets), packets' = Without(packets, i),
           under_way' = under_way - packets[i].points, NEW w, Sums(w)
    PROVE  /\ under_way' \in Nat /\ under_way = under_way' + packets[i].points
           /\ Len(packets) = 1 => under_way' = 0
           /\ \E v : /\ Sums(v)'
                     /\ \A j \in 1..Len(packets') : v[j] <= w[j] /\ (~(j < i) => v[j] <= w[j + 1])
<1> DEFINE n == Len(packets)
<1>p. PICK q \in Nat : q = packets[i].points
  BY PacketParts, Zenon
<1>1. /\ packets \in Seq(Packet) /\ n \in Nat /\ n > 0 /\ Len(packets') = n - 1 /\ q \in Nat
      /\ \A j \in 1..(n - 1) :
            /\ j \in 1..n /\ j + 1 \in 1..n
            /\ j < i => packets'[j] = packets[j]
            /\ ~(j < i) => packets'[j] = packets[j + 1]
  BY <1>p, WithoutParts, PacketParts DEF AckedTypes
<1>q. q \in Nat
  BY <1>1, Zenon
<1>2. /\ w \in [1..(n + 1) -> Nat] /\ w[n + 1] = 0
      /\ \A j \in 1..n : w[j] = w[j + 1] + packets[j].points
      /\ \A j, k \in 1..(n + 1) : j <= k => w[k] <= w[j]
      /\ under_way = w[1] /\ under_way' = under_way - q
  BY <1>p DEF Sums
<1>3. PICK v : v = [j \in 1..n |-> IF j <= i THEN w[j] - q ELSE w[j + 1]]
  OBVIOUS
<1>4. i \in 1..n /\ i \in Nat /\ i + 1 \in 1..(n + 1)
  BY <1>1
<1> HIDE DEF n
<1>5. w[i] = w[i + 1] + q /\ w[i] \in Nat /\ w[i + 1] \in Nat
  <2>1. i \in 1..(n + 1)
    BY <1>1, <1>4
  <2> QED
    BY <1>p, <1>2, <1>4, <2>1, Zenon
<1>6. ASSUME NEW j \in 1..n
      PROVE  /\ j \in Nat /\ j \in 1..(n + 1) /\ j + 1 \in 1..(n + 1)
             /\ v[j] \in Nat /\ w[j] \in Nat /\ w[j + 1] \in Nat /\ w[j + 1] <= w[j]
             /\ j <= i => w[j] = v[j] + q
             /\ ~(j <= i) => v[j] = w[j + 1]
             /\ ~(j < i) => v[j] = w[j + 1]
             /\ v[j] <= w[j]
  <2>1. j \in Nat /\ j \in 1..(n + 1) /\ j + 1 \in 1..(n + 1) /\ i \in 1..(n + 1) /\ j <= j + 1
    BY <1>1, <1>4
  <2>2. w[j] \in Nat /\ w[j + 1] \in Nat /\ w[j + 1] <= w[j]
    BY <1>2, <2>1, Zenon
  <2>3. j <= i => w[i] <= w[j]
    BY <1>2, <2>1, Zenon
  <2>4. v[j] = IF j <= i THEN w[j] - q ELSE w[j + 1]
    BY <1>3, Zenon
  <2>5. PICK x \in Nat, y \in Nat, z \in Nat, u \in Nat :
            x = w[j] /\ y = w[j + 1] /\ z = w[i] /\ u = w[i + 1] /\ z = u + q /\ y <= x
    BY <1>5, <2>2
  <2>6. CASE j <= i
    <3>1. v[j] = x - q /\ z <= x
      BY <2>3, <2>4, <2>5, <2>6, Zenon
    <3>2. v[j] \in Nat /\ x = v[j] + q /\ v[j] <= x
      <4>1. z = u + q
        BY <2>5, Zenon
      <4>2. z <= x
        BY <3>1, Zenon
      <4>3. x - q \in Nat /\ x = (x - q) + q /\ x - q <= x
        BY <4>1, <4>2
      <4> QED
        BY <3>1, <4>3, Zenon
    <3>3. ~(j < i) => v[j] = y
      <4>1. SUFFICES ASSUME ~(j < i) PROVE v[j] = y
        BY Zenon
      <4>2. j = i
        BY <1>4, <2>1, <2>6, <4>1
      <4>3. x = z /\ y = u
        BY <2>5, <4>2, Zenon
      <4> QED
        BY <1>q, <2>5, <3>1, <4>3
    <3> QED
      BY <2>1, <2>2, <2>5, <2>6, <3>2, <3>3, Zenon
  <2>7. CASE ~(j <= i)
    <3>1. v[j] = y
      BY <2>4, <2>5, <2>7, Zenon
    <3> QED
      BY <2>1, <2>2, <2>5, <2>7, <3>1, Zenon
  <2> QED
    BY <2>6, <2>7, Zenon
<1>7. v \in [1..n -> Nat] /\ v[n] = 0
  <2>1. DOMAIN v = 1..n /\ v = [j \in 1..n |-> v[j]]
    BY <1>3, Zenon
  <2>2. n \in 1..n /\ ~(n < i)
    BY <1>1, <1>4
  <2>3. v[n] = w[n + 1]
    BY <1>6, <2>2, Zenon
  <2> QED
    BY <1>2, <1>6, <2>1, <2>3, Zenon
<1>8. ASSUME NEW j \in 1..(n - 1) PROVE v[j] = v[j + 1] + packets'[j].points
  <2>1. j \in 1..n /\ j + 1 \in 1..n /\ j \in Nat
    BY <1>1
  <2>2. PICK x \in Nat, y \in Nat : x = v[j] /\ y = v[j + 1]
    BY <1>6, <2>1, Zenon
  <2>3. CASE j < i
    <3>1. w[j] = x + q /\ w[j + 1] = y + q
      <4>1. j <= i /\ j + 1 <= i
        BY <1>4, <2>1, <2>3
      <4> QED
        BY <1>6, <2>1, <2>2, <4>1, Zenon
    <3>2. packets'[j].points = packets[j].points /\ w[j] = w[j + 1] + packets[j].points
      BY <1>1, <1>2, <2>1, <2>3, Zenon
    <3>3. PICK c \in Nat : c = packets[j].points
      BY <2>1, PacketParts DEF n
    <3>4. x = y + c
      <4>1. x + q = (y + q) + c
        BY <3>1, <3>2, <3>3, Zenon
      <4> QED
        BY <1>q, <4>1
    <3> QED
      BY <2>2, <3>2, <3>3, <3>4, Zenon
  <2>4. CASE ~(j < i)
    <3>1. x = w[j + 1] /\ y = w[(j + 1) + 1] /\ packets'[j] = packets[j + 1]
      <4>1. ~(j + 1 < i)
        BY <1>4, <2>1, <2>4
      <4> QED
        BY <1>1, <1>6, <2>1, <2>2, <2>4, <4>1, Zenon
    <3> QED
      BY <1>2, <2>1, <2>2, <3>1, Zenon
  <2> QED
    BY <2>3, <2>4, Zenon
<1>9. ASSUME NEW j \in 1..n, NEW k \in 1..n, j <= k PROVE v[k] <= v[j]
  <2>1. j \in Nat /\ k \in Nat /\ j + 1 <= k + 1
    BY <1>1, <1>9
  <2>2. w[k] <= w[j] /\ w[k + 1] <= w[j + 1]
    BY <1>2, <1>6, <1>9, <2>1, Zenon
  <2>3. PICK a \in Nat, b \in Nat, c \in Nat, d \in Nat :
            a = w[j] /\ b = w[k] /\ c = v[j] /\ d = v[k] /\ b <= a
    BY <1>6, <2>2
  <2>4. CASE k <= i
    <3>1. j <= i
      BY <1>4, <1>9, <2>1, <2>4
    <3>2. a = c + q /\ b = d + q
      BY <1>6, <2>3, <2>4, <3>1, Zenon
    <3>3. d <= c
      <4>1. b <= a
        BY <2>3, Zenon
      <4> QED
        BY <3>2, <4>1
    <3> QED
      BY <2>3, <3>3, Zenon
  <2>5. CASE ~(k <= i) /\ ~(j < i)
    BY <1>6, <2>2, <2>5, Zenon
  <2>6. CASE ~(k <= i) /\ j < i
    <3>1. j <= i /\ i \in 1..(n + 1) /\ k + 1 \in 1..(n + 1) /\ i + 1 <= k + 1 /\ j \in 1..(n + 1)
      BY <1>1, <1>4, <2>1, <2>6
    <3>2. w[i] <= w[j] /\ w[k + 1] <= w[i + 1] /\ v[k] = w[k + 1] /\ w[j] = v[j] + q
      BY <1>2, <1>4, <1>6, <2>6, <3>1, Zenon
    <3>3. PICK x \in Nat, y \in Nat : x = w[i] /\ y = w[i + 1] /\ x = y + q
      BY <1>5
    <3>4. x <= a /\ d <= y /\ a = c + q
      BY <2>3, <3>2, <3>3, Zenon
    <3>5. d <= c
      <4>1. x = y + q
        BY <3>3, Zenon
      <4> QED
        BY <3>4, <4>1
    <3> QED
      BY <2>3, <3>5, Zenon
  <2> QED
    BY <2>4, <2>5, <2>6, Zenon
<1>10. 1 \in 1..n /\ 1 <= i /\ (n - 1) + 1 = n
  BY <1>1, <1>4
<1>11. under_way = v[1] + q /\ v[1] \in Nat
  BY <1>2, <1>6, <1>10, Zenon
<1>12. under_way' = v[1]
  <2>1. PICK x \in Nat : x = v[1]
    BY <1>11
  <2>2. under_way = x + q /\ under_way' = under_way - q
    BY <1>2, <1>11, <2>1, Zenon
  <2>3. (x + q) - q = x
    OBVIOUS
  <2> QED
    BY <2>1, <2>2, <2>3, Zenon
<1>13. Sums(v)'
  BY <1>1, <1>7, <1>8, <1>9, <1>10, <1>12, Zenon DEF Sums
<1>14. \A j \in 1..Len(packets') : v[j] <= w[j] /\ (~(j < i) => v[j] <= w[j + 1])
  <2> SUFFICES ASSUME NEW j \in 1..(n - 1) PROVE v[j] <= w[j] /\ (~(j < i) => v[j] <= w[j + 1])
    BY <1>1, Zenon
  <2>1. j \in 1..n
    BY <1>1
  <2>2. w[j + 1] <= w[j + 1]
    BY <1>6, <2>1
  <2> QED
    BY <1>6, <2>1, <2>2, Zenon
<1>15. ASSUME n = 1 PROVE under_way' = 0
  BY <1>7, <1>12, <1>15, Zenon
<1> QED
  BY <1>p, <1>11, <1>12, <1>13, <1>14, <1>15, Zenon DEF n

\* No message comes into the map, and no more points are on their way into the device.
Fewer ==
    /\ sentTrack'.age = sentTrack.age
    /\ \A m \in Numbers : message_times'[m] \in {-1, message_times[m]}
    /\ under_way' <= under_way /\ device' + under_way' <= device + under_way

\* Then what was said of the messages, of a packet and of an acknowledgement stays true.
LEMMA FewerKeeps ==
    ASSUME AckedTypes, AckedTypes', Fewer
    PROVE  /\ (\A m \in Numbers : TimeOK(m)) => \A m \in Numbers : TimeOK(m)'
           /\ \A p \in Packet : PacketOK(p) => PacketOK(p)'
           /\ \A r \in Reply : ReplyOK(r) => ReplyOK(r)'
           /\ \A k \in Numbers : ~Newest(k) => ~Newest(k)'
<1>1. /\ \A m \in Numbers : message_times[m] \in Nat \cup {-1} /\ message_times'[m] \in Nat \cup {-1}
      /\ MaxDelay \in Nat /\ AckCapacity \in Nat
  BY AckBounds DEF AckedTypes
<1>2. ASSUME NEW m \in Numbers, TimeOK(m) PROVE TimeOK(m)'
  BY <1>2, Zenon DEF TimeOK, Fewer
<1>3. ASSUME NEW p \in Packet, PacketOK(p) PROVE PacketOK(p)'
  <2>1. p.number \in Numbers /\ p.age \in 0..MaxDelay
    BY DEF Packet
  <2>2. PICK s \in Nat \cup {-1}, t \in Nat \cup {-1} : s = message_times[p.number] /\ t = message_times'[p.number]
    BY <1>1, <2>1
  <2>3. s <= p.age /\ (t = -1 \/ t = s)
    BY <1>3, <2>1, <2>2, Zenon DEF Fewer, PacketOK
  <2>4. t <= p.age
    BY <1>1, <2>1, <2>3
  <2> QED
    BY <2>2, <2>4, Zenon DEF PacketOK
<1>4. ASSUME NEW r \in Reply, ReplyOK(r) PROVE ReplyOK(r)'
  <2>1. r.number \in Numbers /\ r.age \in 0..MaxDelay /\ r.free \in 0..AckCapacity /\ r.left \in Nat
    BY DEF Reply
  <2>2. PICK s \in Nat \cup {-1}, t \in Nat \cup {-1} : s = message_times[r.number] /\ t = message_times'[r.number]
    BY <1>1, <2>1
  <2>3. PICK bound \in Nat, left \in Nat, age \in Nat :
            /\ bound = FloorZero((AckCapacity - r.free) - r.age) /\ left = r.left /\ age = r.age
    BY <1>1, <2>1 DEF FloorZero
  <2>4. PICK a \in Nat, b \in Nat, c \in Nat, d \in Nat :
            a = under_way /\ b = under_way' /\ c = device /\ d = device'
    BY DEF AckedTypes
  <2>5. s <= age + MaxDelay /\ (t = -1 \/ t = s) /\ b <= a /\ d + b <= c + a /\ a <= left /\ c + a <= bound + left
    BY <1>4, <2>1, <2>2, <2>3, <2>4, Zenon DEF Fewer, ReplyOK
  <2>6. t <= age + MaxDelay /\ b <= left /\ d + b <= bound + left
    BY <1>1, <2>5
  <2> QED
    BY <2>2, <2>3, <2>4, <2>6, Zenon DEF ReplyOK
<1>5. ASSUME NEW k \in Numbers, ~Newest(k) PROVE ~Newest(k)'
  BY <1>5, Zenon DEF Newest, Fewer
<1> QED
  BY <1>2, <1>3, <1>4, <1>5, Zenon

\* ... also of the packets when one has left
LEMMA PacketsWithout ==
    ASSUME AckedTypes, AckedTypes', LinksInv, Fewer, NEW i \in 1..Len(packets), packets' = Without(packets, i)
    PROVE  /\ \A j \in 1..Len(packets') : PacketOK(packets[j])'
           /\ Orderly => \A j \in 1..Len(packets') : j < Len(packets') => ~Newest(packets[j].number)'
<1> DEFINE n == Len(packets)
<1>1. /\ n \in Nat /\ Len(packets') = n - 1
      /\ \A j \in 1..(n - 1) :
            /\ j \in 1..n /\ j + 1 \in 1..n
            /\ j < i => packets'[j] = packets[j]
            /\ ~(j < i) => packets'[j] = packets[j + 1]
  <2>1. packets \in Seq(Packet)
    BY Zenon DEF AckedTypes
  <2> QED
    BY <2>1, WithoutParts, Zenon
<1>2. ASSUME NEW j \in 1..(n - 1)
      PROVE  PacketOK(packets[j])' /\ (Orderly /\ j < n - 1 => ~Newest(packets[j].number)')
  <2>1. PICK k \in 1..n : packets'[j] = packets[k] /\ (j < n - 1 => k < n)
    <3>1. j \in 1..n /\ j + 1 \in 1..n /\ (j < n - 1 => j < n) /\ (j < n - 1 => j + 1 < n)
      BY <1>1
    <3> QED
      BY <1>1, <3>1, Zenon
  <2>2. PICK p : p = packets[k] /\ p = packets'[j]
    BY <2>1
  <2>3. p \in Packet /\ p.number \in Numbers /\ PacketOK(p)
    BY <2>1, <2>2, PacketParts, Zenon DEF LinksInv
  <2>4. PacketOK(p)'
    BY <2>3, FewerKeeps, Zenon
  <2>5. ASSUME Orderly, j < n - 1 PROVE ~Newest(p.number)'
    <3>1. ~Newest(p.number)
      BY <2>1, <2>2, <2>5, Zenon DEF Orderly
    <3> QED
      BY <2>3, <3>1, FewerKeeps, Zenon
  <2> QED
    BY <2>2, <2>4, <2>5, Zenon DEF PacketOK, Newest
<1> QED
  BY <1>1, <1>2, Zenon DEF PacketOK, Newest

\* ... of the packets when none has left
LEMMA PacketsSame ==
    ASSUME AckedTypes, AckedTypes', LinksInv, Fewer, UNCHANGED packets
    PROVE  /\ \A j \in 1..Len(packets') : PacketOK(packets[j])'
           /\ Orderly => \A j \in 1..Len(packets') : j < Len(packets') => ~Newest(packets[j].number)'
<1>1. ASSUME NEW j \in 1..Len(packets)
      PROVE  PacketOK(packets[j])' /\ (Orderly /\ j < Len(packets) => ~Newest(packets[j].number)')
  <2>1. PICK p : p = packets[j] /\ p = packets'[j]
    BY Zenon
  <2>2. p \in Packet /\ p.number \in Numbers /\ PacketOK(p)
    BY <2>1, PacketParts, Zenon DEF LinksInv
  <2>3. PacketOK(p)'
    BY <2>2, FewerKeeps, Zenon
  <2>4. ASSUME Orderly, j < Len(packets) PROVE ~Newest(p.number)'
    <3>1. ~Newest(p.number)
      BY <2>1, <2>4, Zenon DEF Orderly
    <3> QED
      BY <2>2, <3>1, FewerKeeps, Zenon
  <2> QED
    BY <2>1, <2>3, <2>4, Zenon DEF PacketOK, Newest
<1> QED
  BY <1>1, Zenon DEF PacketOK, Newest

\* Acknowledgements that were under way before
OldReplies == \A j \in 1..Len(ackReplies') : \E k \in 1..Len(ackReplies) : ackReplies'[j] = ackReplies[k]

\* What is left of the acknowledgements still bounds the device.
LEMMA RepliesWithout ==
    ASSUME AckedTypes, NEW i \in 1..Len(ackReplies), ackReplies' = Without(ackReplies, i)
    PROVE  OldReplies /\ ackReplies' \in Seq(Reply)
<1>1. /\ Len(ackReplies') = Len(ackReplies) - 1 /\ ackReplies' \in Seq(Reply)
      /\ \A j \in 1..(Len(ackReplies) - 1) :
            /\ j \in 1..Len(ackReplies) /\ j + 1 \in 1..Len(ackReplies)
            /\ j < i => ackReplies'[j] = ackReplies[j]
            /\ ~(j < i) => ackReplies'[j] = ackReplies[j + 1]
  <2>1. ackReplies \in Seq(Reply)
    BY Zenon DEF AckedTypes
  <2> QED
    BY <2>1, WithoutParts, Zenon
<1> QED
  BY <1>1, Zenon DEF OldReplies

\* ... say no less than before.
LEMMA OldRepliesKeep ==
    ASSUME AckedTypes, AckedTypes', LinksInv, Fewer, OldReplies
    PROVE  /\ \A j \in 1..Len(ackReplies') : ReplyOK(ackReplies[j])'
           /\ Orderly => \A j \in 1..Len(ackReplies') : ackReplies'[j].left # 0 => ~Newest(ackReplies[j].number)'
<1>1. ASSUME NEW j \in 1..Len(ackReplies')
      PROVE  ReplyOK(ackReplies[j])' /\ (Orderly /\ ackReplies'[j].left # 0 => ~Newest(ackReplies[j].number)')
  <2>1. PICK k \in 1..Len(ackReplies) : ackReplies'[j] = ackReplies[k]
    BY Zenon DEF OldReplies
  <2>2. PICK p : p = ackReplies[k] /\ p = ackReplies'[j]
    BY <2>1, Zenon
  <2>3. p \in Reply /\ p.number \in Numbers /\ ReplyOK(p)
    BY <2>2, ReplyParts, Zenon DEF LinksInv
  <2>4. ReplyOK(p)'
    BY <2>3, FewerKeeps, Zenon
  <2>5. ASSUME Orderly, p.left # 0 PROVE ~Newest(p.number)'
    <3>1. ~Newest(p.number)
      BY <2>2, <2>5, Zenon DEF Orderly
    <3> QED
      BY <2>3, <3>1, FewerKeeps, Zenon
  <2> QED
    BY <2>2, <2>4, <2>5, Zenon DEF ReplyOK, Newest
<1> QED
  BY <1>1, Zenon DEF ReplyOK, Newest

\* The bounds when a packet has left
LEMMA BoundedWithout ==
    ASSUME AckedTypes, SumInv, NEW i \in 1..Len(packets), packets' = Without(packets, i),
           under_way' = under_way - packets[i].points, UNCHANGED <<sentTrack, unseen>>,
           device' \in Nat, device' <= device + packets[i].points
    PROVE  /\ SumInv' /\ under_way' \in Nat /\ under_way' <= under_way
           /\ device' + under_way' <= device + under_way
           /\ Len(packets) = 1 => under_way' = 0
<1> DEFINE n == Len(packets)
           E == EstimateBy(sentTrack)
<1>1. PICK w : Sums(w) /\ Bounded(w)
  BY Zenon DEF SumInv
<1>2. PICK v : /\ Sums(v)'
               /\ \A j \in 1..Len(packets') : v[j] <= w[j] /\ (~(j < i) => v[j] <= w[j + 1])
  BY <1>1, SumsWithout, Zenon
<1>3. /\ under_way' \in Nat /\ under_way = under_way' + packets[i].points
      /\ Len(packets) = 1 => under_way' = 0
  BY <1>1, SumsWithout, Zenon
<1>4. PICK p \in Nat : p = packets[i].points
  BY PacketParts, Zenon
<1>5. E \in Nat /\ E' = E /\ device \in Nat /\ unseen \in Nat /\ MaxDelay \in Nat /\ AckCapacity \in Nat
  BY TrackParts, AckBounds DEF AckedTypes, EstimateBy
<1>6. /\ n \in Nat /\ Len(packets') = n - 1
      /\ \A j \in 1..(n - 1) :
            /\ j \in 1..n /\ j + 1 \in 1..n
            /\ j < i => packets'[j] = packets[j]
            /\ ~(j < i) => packets'[j] = packets[j + 1]
  <2>1. packets \in Seq(Packet)
    BY Zenon DEF AckedTypes
  <2> QED
    BY <2>1, WithoutParts, Zenon
<1>7. /\ \A j \in 1..n : w[j] <= E + packets[j].age + unseen
      /\ under_way + device <= E + MaxDelay + unseen /\ under_way + device <= AckCapacity + unseen
  BY <1>1, Zenon DEF Bounded
<1> HIDE DEF E, n
<1>8. PICK a \in Nat, b \in Nat, d \in Nat, e \in Nat, u \in Nat, s \in Nat :
          a = under_way /\ b = under_way' /\ d = device /\ e = device' /\ u = unseen /\ s = E
  BY <1>3, <1>5 DEF AckedTypes
<1>9. a = b + p /\ e <= d + p /\ a + d <= s + MaxDelay + u /\ a + d <= AckCapacity + u
  BY <1>3, <1>4, <1>7, <1>8, Zenon
<1>10. b <= a /\ e + b <= d + a /\ b + e <= s + MaxDelay + u /\ b + e <= AckCapacity + u
  BY <1>5, <1>9
<1>11. ASSUME NEW j \in 1..Len(packets') PROVE v[j] <= E + packets'[j].age + unseen
  <2>1. j \in 1..(n - 1) /\ j \in 1..n /\ j + 1 \in 1..n
    BY <1>6, Zenon
  <2>2. PICK k \in 1..n : packets'[j] = packets[k] /\ v[j] <= w[k]
    BY <1>2, <1>6, <2>1, Zenon
  <2>3. packets[k].age \in Nat
    BY <2>2, PacketParts, Zenon DEF n
  <2>4. w[k] \in Nat /\ v[j] \in Nat
    <3>1. w \in [1..(n + 1) -> Nat] /\ v \in [1..(Len(packets') + 1) -> Nat]
      BY <1>1, <1>2, Zenon DEF Sums, n
    <3>2. k \in 1..(n + 1) /\ j \in 1..(Len(packets') + 1)
      BY <1>6, <2>2
    <3> QED
      BY <3>1, <3>2, Zenon
  <2>5. PICK x \in Nat, y \in Nat, g \in Nat : x = v[j] /\ y = w[k] /\ g = packets[k].age
    BY <2>3, <2>4
  <2>6. x <= y /\ y <= s + g + u
    BY <1>7, <1>8, <2>2, <2>5, Zenon
  <2>7. x <= s + g + u
    BY <2>6
  <2> QED
    BY <1>8, <2>2, <2>5, <2>7, Zenon
<1>12. Bounded(v)'
  BY <1>5, <1>8, <1>10, <1>11, Zenon DEF Bounded, E
<1> QED
  BY <1>2, <1>3, <1>8, <1>10, <1>12, Zenon DEF SumInv, n

\* A packet lost
LEMMA LostKeeps == ASSUME AckedInv, NEW i \in 1..Len(packets), PacketLost(i) PROVE AckedInv'
<1>0. /\ AckedTypes /\ LinksInv /\ SumInv /\ OrderInv
      /\ packets' = Without(packets, i) /\ under_way' = under_way - packets[i].points
      /\ UNCHANGED <<sentTrack, ackTrack, message_times, next_number, ackReplies, device, unseen, disorder>>
  BY Zenon DEF AckedInv, PacketLost, trackVars
<1>1. device' \in Nat /\ device' <= device + packets[i].points
  BY <1>0, PacketParts DEF AckedTypes
<1>2. SumInv' /\ under_way' \in Nat /\ under_way' <= under_way /\ device' + under_way' <= device + under_way
  BY <1>0, <1>1, BoundedWithout, Zenon
<1>3. AckedTypes'
  <2>1. packets' \in Seq(Packet)
    BY <1>0, WithoutParts DEF AckedTypes
  <2> QED
    BY <1>0, <1>2, <2>1, Zenon DEF AckedTypes
<1>4. Fewer /\ OldReplies
  BY <1>0, <1>2, Zenon DEF Fewer, OldReplies
<1>5. LinksInv'
  BY <1>0, <1>3, <1>4, FewerKeeps, PacketsWithout, OldRepliesKeep, Zenon DEF LinksInv
<1>6. OrderInv'
  BY <1>0, <1>3, <1>4, PacketsWithout, OldRepliesKeep, Zenon DEF OrderInv, Orderly
<1> QED
  BY <1>2, <1>3, <1>5, <1>6, Zenon DEF AckedInv

\* A packet that the device takes, with its acknowledgement: while all is in order, it leaves out
\* only packets that were sent later.
LEMMA TakesKeeps == ASSUME AckedInv, NEW i \in 1..Len(packets), DeviceTakes(i) PROVE AckedInv'
<1> DEFINE k == Len(ackReplies)
<1>p. PICK p : p = packets[i]
  OBVIOUS
<1>d. PICK d : d = device'
  OBVIOUS
<1>u. PICK u : u = under_way'
  OBVIOUS
<1>r. PICK reply : reply = [number |-> p.number, free |-> AckCapacity - d, age |-> 0, left |-> u]
  OBVIOUS
<1>0. /\ AckedTypes /\ LinksInv /\ SumInv /\ OrderInv
      /\ packets' = Without(packets, i) /\ under_way' = under_way - packets[i].points
      /\ d = Smaller(device + p.points, AckCapacity)
      /\ ackReplies' = Append(ackReplies, reply) /\ disorder' = (disorder \/ i # 1)
      /\ UNCHANGED <<sentTrack, ackTrack, message_times, next_number, unseen>>
  BY <1>p, <1>d, <1>u, <1>r, Zenon DEF AckedInv, DeviceTakes, trackVars
<1>1. /\ p \in Packet /\ p.number \in Numbers /\ p.points \in Nat /\ p.age \in Nat /\ p.age <= MaxDelay
      /\ PacketOK(p) /\ Len(packets) \in Nat /\ packets \in Seq(Packet) /\ ackReplies \in Seq(Reply)
  BY <1>p, <1>0, PacketParts, Zenon DEF LinksInv, AckedTypes
<1>2. device \in Nat /\ AckCapacity \in Nat /\ MaxDelay \in Nat
  BY <1>0, AckBounds DEF AckedTypes
<1>3. d \in Nat /\ d <= AckCapacity /\ d <= device + p.points
  <2>1. PICK a \in Nat, b \in Nat : a = device /\ b = p.points
    BY <1>1, <1>2
  <2>2. d = Smaller(a + b, AckCapacity)
    BY <1>0, <2>1, Zenon
  <2>3. d \in Nat /\ d <= AckCapacity /\ d <= a + b
    BY <1>2, <2>2 DEF Smaller
  <2> QED
    BY <2>1, <2>3, Zenon
<1>4. /\ SumInv' /\ u \in Nat /\ under_way' <= under_way /\ device' + under_way' <= device + under_way
      /\ Len(packets) = 1 => u = 0
  BY <1>p, <1>d, <1>u, <1>0, <1>3, BoundedWithout, Zenon
<1>5. /\ reply \in Reply /\ reply.number = p.number /\ reply.age = 0 /\ reply.left = u
      /\ reply.free = AckCapacity - d
  <2>1. AckCapacity - d \in 0..AckCapacity /\ 0 \in 0..MaxDelay
    BY <1>2, <1>3
  <2> QED
    BY <1>r, <1>1, <1>4, <2>1, Zenon DEF Reply
<1>6. /\ ackReplies' \in Seq(Reply) /\ k \in Nat /\ Len(ackReplies') = k + 1
      /\ ackReplies'[k + 1] = reply /\ \A j \in 1..k : ackReplies'[j] = ackReplies[j]
  <2>1. /\ Append(ackReplies, reply) \in Seq(Reply) /\ Len(ackReplies) \in Nat
        /\ Len(Append(ackReplies, reply)) = Len(ackReplies) + 1
        /\ Append(ackReplies, reply)[Len(ackReplies) + 1] = reply
        /\ \A j \in 1..Len(ackReplies) : Append(ackReplies, reply)[j] = ackReplies[j]
    BY ONLY <1>1, <1>5, AppendParts
  <2> QED
    BY <1>0, <2>1, Zenon
<1>7. packets' \in Seq(Packet)
  BY <1>0, <1>1, WithoutParts, Zenon
<1>8. AckedTypes'
  BY <1>d, <1>u, <1>0, <1>3, <1>4, <1>6, <1>7, Zenon DEF AckedTypes
<1>9. Fewer
  BY <1>0, <1>4, Zenon DEF Fewer
<1>10. ReplyOK(reply)'
  <2>1. message_times'[reply.number] <= reply.age + MaxDelay
    <3>1. PICK t \in Nat \cup {-1}, g \in Nat : t = message_times[p.number] /\ g = p.age
      BY <1>0, <1>1 DEF AckedTypes
    <3>2. t <= g /\ g <= MaxDelay
      BY <1>1, <3>1, Zenon DEF PacketOK
    <3>3. t <= 0 + MaxDelay
      BY <1>2, <3>2
    <3> QED
      BY <1>0, <1>5, <3>1, <3>3, Zenon
  <2>2. under_way' <= reply.left
    <3>1. u <= u
      BY <1>4
    <3> QED
      BY <1>u, <1>5, <3>1, Zenon
  <2>3. device' + under_way' <= FloorZero((AckCapacity - reply.free) - reply.age) + reply.left
    <3>1. FloorZero((AckCapacity - (AckCapacity - d)) - 0) = d
      BY <1>2, <1>3 DEF FloorZero
    <3>2. d + u <= d + u
      BY <1>3, <1>4
    <3> QED
      BY <1>d, <1>u, <1>5, <3>1, <3>2, Zenon
  <2> QED
    BY <2>1, <2>2, <2>3, Zenon DEF ReplyOK
<1>11. ASSUME ~disorder', reply.left # 0 PROVE ~Newest(reply.number)'
  <2>1. ~disorder /\ i = 1
    BY <1>0, <1>11, Zenon
  <2>2. 1 < Len(packets)
    <3>1. Len(packets) # 1
      BY <1>4, <1>5, <1>11, Zenon
    <3>2. PICK n \in Nat : n = Len(packets) /\ 1 \in 1..n /\ n # 1
      BY <1>1, <2>1, <3>1, Zenon
    <3>3. 1 < n
      BY <3>2
    <3> QED
      BY <3>2, <3>3, Zenon
  <2>3. ~Newest(p.number)
    BY <1>p, <1>0, <2>1, <2>2, Zenon DEF OrderInv, Orderly
  <2> QED
    BY <1>1, <1>5, <1>8, <1>9, <1>0, <2>3, FewerKeeps, Zenon
<1>12. ASSUME NEW j \in 1..Len(ackReplies')
       PROVE  /\ ReplyOK(ackReplies[j])'
              /\ ~disorder' /\ ackReplies'[j].left # 0 => ~Newest(ackReplies[j].number)'
  <2>1. j \in 1..k \/ j = k + 1
    BY <1>6
  <2>2. CASE j = k + 1
    BY <1>6, <1>10, <1>11, <2>2, Zenon DEF ReplyOK, Newest
  <2>3. CASE j \in 1..k
    <3>1. PICK r : r = ackReplies[j] /\ r = ackReplies'[j]
      BY <1>6, <2>3, Zenon
    <3>2. r \in Reply /\ r.number \in Numbers /\ ReplyOK(r)
      BY <1>0, <2>3, <3>1, ReplyParts, Zenon DEF LinksInv
    <3>3. ReplyOK(r)'
      BY <1>0, <1>8, <1>9, <3>2, FewerKeeps, Zenon
    <3>4. ASSUME ~disorder', r.left # 0 PROVE ~Newest(r.number)'
      <4>1. ~Newest(r.number)
        BY <1>0, <2>3, <3>1, <3>4, Zenon DEF OrderInv, Orderly
      <4> QED
        BY <1>0, <1>8, <1>9, <3>2, <4>1, FewerKeeps, Zenon
    <3> QED
      BY <3>1, <3>3, <3>4, Zenon DEF ReplyOK, Newest
  <2> QED
    BY <2>1, <2>2, <2>3, Zenon
<1>13. LinksInv'
  BY <1>0, <1>8, <1>9, <1>12, FewerKeeps, PacketsWithout, Zenon DEF LinksInv
<1>14. OrderInv'
  BY <1>0, <1>8, <1>9, <1>12, PacketsWithout, Zenon DEF OrderInv, Orderly
<1> QED
  BY <1>4, <1>8, <1>13, <1>14, Zenon DEF AckedInv

\* An acknowledgement lost
LEMMA AckLostKeeps == ASSUME AckedInv, NEW i \in 1..Len(ackReplies), AckLost(i) PROVE AckedInv'
<1>0. /\ AckedTypes /\ LinksInv /\ SumInv /\ OrderInv /\ ackReplies' = Without(ackReplies, i)
      /\ UNCHANGED <<sentTrack, ackTrack, message_times, next_number, packets, device, under_way, unseen, disorder>>
  BY Zenon DEF AckedInv, AckLost, trackVars
<1>1. OldReplies /\ ackReplies' \in Seq(Reply)
  BY <1>0, RepliesWithout, Zenon
<1>2. AckedTypes'
  BY <1>0, <1>1, Zenon DEF AckedTypes
<1>3. Fewer
  <2>1. under_way <= under_way /\ device + under_way <= device + under_way
    BY <1>0 DEF AckedTypes
  <2> QED
    BY <1>0, <2>1, Zenon DEF Fewer
<1>4. LinksInv'
  BY <1>0, <1>1, <1>2, <1>3, FewerKeeps, PacketsSame, OldRepliesKeep, Zenon DEF LinksInv
<1>5. OrderInv'
  BY <1>0, <1>1, <1>2, <1>3, PacketsSame, OldRepliesKeep, Zenon DEF OrderInv, Orderly
<1>6. SumInv'
  BY <1>0, Zenon DEF SumInv, Sums, Bounded, EstimateBy
<1> QED
  BY <1>2, <1>4, <1>5, <1>6, Zenon DEF AckedInv

\* An acknowledgement that arrives: when it anchors the sent track, what it left out is `unseen`.
LEMMA AckArrivesKeeps ==
    ASSUME AckedInv, NEW i \in 1..Len(ackReplies), NEW again \in BOOLEAN, AckArrives(i, again)
    PROVE  AckedInv'
<1>r. PICK r : r = ackReplies[i]
  OBVIOUS
<1>s. PICK s : s = message_times[r.number]
  OBVIOUS
<1>z. PICK size : size = AckCapacity - r.free
  OBVIOUS
<1>0. /\ AckedTypes /\ LinksInv /\ SumInv /\ OrderInv
      /\ ackReplies' = (IF again THEN ackReplies ELSE Without(ackReplies, i))
      /\ UNCHANGED <<next_number, packets, device, under_way, disorder>>
      /\ sentTrack' = (IF Newest(r.number) THEN [age |-> s, size |-> size] ELSE sentTrack)
      /\ message_times' = CleanupStaleEntries([message_times EXCEPT ![r.number] = -1])
      /\ ackTrack' = [age |-> 0, size |-> size]
      /\ unseen' = (IF Newest(r.number) THEN r.left ELSE unseen)
  <2>1. [[age |-> 0, size |-> size] EXCEPT !.age = s] = [age |-> s, size |-> size]
    OBVIOUS
  <2>2. /\ ackReplies' = (IF again THEN ackReplies ELSE Without(ackReplies, i)) /\ RecordAck(r.number, r.free)
        /\ unseen' = (IF Newest(r.number) THEN r.left ELSE unseen)
        /\ UNCHANGED <<next_number, packets, device, under_way, disorder>>
    BY <1>r, Zenon DEF AckArrives
  <2>3. /\ sentTrack' = (IF Newest(r.number) THEN [[age |-> 0, size |-> size] EXCEPT !.age = s] ELSE sentTrack)
        /\ message_times' = CleanupStaleEntries([message_times EXCEPT ![r.number] = -1])
        /\ ackTrack' = [age |-> 0, size |-> size]
    BY <1>s, <1>z, <2>2, Zenon DEF RecordAck
  <2> QED
    BY <2>1, <2>2, <2>3, Zenon DEF AckedInv
<1>1. /\ r \in Reply /\ ReplyOK(r) /\ r.number \in Numbers /\ r.left \in Nat
      /\ r.free \in Nat /\ r.free <= AckCapacity /\ r.age \in Nat /\ r.age <= MaxDelay
  BY <1>r, <1>0, ReplyParts, Zenon DEF LinksInv
<1>2. s \in Nat \cup {-1} /\ size \in 0..AckCapacity /\ AckCapacity \in Nat /\ MaxDelay \in Nat
  <2>1. s \in Nat \cup {-1}
    BY <1>0, <1>1, <1>s DEF AckedTypes
  <2>2. PICK f \in Nat : f = r.free /\ f <= AckCapacity
    BY <1>1
  <2>3. AckCapacity - f \in 0..AckCapacity
    BY <2>2, AckBounds
  <2> QED
    BY <1>z, <2>1, <2>2, <2>3, AckBounds, Zenon
<1>3. /\ message_times' \in [Numbers -> Nat \cup {-1}]
      /\ \A m \in Numbers : message_times'[m] \in {-1, message_times[m]}
  <2>1. message_times \in [Numbers -> Nat \cup {-1}]
    BY <1>0, Zenon DEF AckedTypes
  <2>2. PICK t : t = [message_times EXCEPT ![r.number] = -1]
    OBVIOUS
  <2>3. DOMAIN t = Numbers /\ \A m \in Numbers : t[m] \in {-1, message_times[m]}
    BY <2>1, <2>2
  <2>4. message_times' = [m \in Numbers |-> IF t[m] >= STALE_ENTRY_TIMEOUT THEN -1 ELSE t[m]]
    BY <1>0, <2>2, <2>3, Zenon DEF CleanupStaleEntries
  <2>5. \A m \in Numbers : message_times'[m] \in {-1, message_times[m]}
    BY <2>3, <2>4, Zenon
  <2>6. \A m \in Numbers : (IF t[m] >= STALE_ENTRY_TIMEOUT THEN -1 ELSE t[m]) \in Nat \cup {-1}
    BY <2>1, <2>3
  <2> QED
    BY <2>4, <2>5, <2>6, Zenon
<1>4. ASSUME Newest(r.number) PROVE sentTrack.age = s /\ s \in Nat
  <2>1. s # -1 /\ (sentTrack.age = -1 \/ s <= sentTrack.age) /\ sentTrack.age \in Nat \cup {-1}
    BY <1>0, <1>4, <1>s, TrackParts, Zenon DEF Newest, AckedTypes
  <2>2. sentTrack.age # -1 /\ sentTrack.age <= s
    BY <1>0, <1>1, <1>s, <2>1, Zenon DEF LinksInv, TimeOK
  <2> QED
    BY <1>2, <2>1, <2>2
<1>5. ackReplies' \in Seq(Reply) /\ OldReplies
  <2>1. CASE again
    BY <1>0, <2>1, Zenon DEF OldReplies, AckedTypes
  <2>2. CASE ~again
    BY <1>0, <2>2, RepliesWithout, Zenon
  <2> QED
    BY <2>1, <2>2
<1>6. sentTrack'.age = sentTrack.age /\ sentTrack' \in Track
  <2>1. CASE Newest(r.number)
    <3>1. sentTrack' = [age |-> s, size |-> size] /\ sentTrack.age = s /\ s \in Nat
      BY <1>0, <1>4, <2>1, Zenon
    <3> QED
      BY <1>2, <3>1 DEF Track
  <2>2. CASE ~Newest(r.number)
    BY <1>0, <2>2, Zenon DEF AckedTypes
  <2> QED
    BY <2>1, <2>2, Zenon
<1>7. AckedTypes'
  <2>1. ackTrack' \in Track
    BY <1>0, <1>2 DEF Track
  <2>2. unseen' \in Nat
    BY <1>0, <1>1, Zenon DEF AckedTypes
  <2> QED
    BY <1>0, <1>3, <1>5, <1>6, <2>1, <2>2, Zenon DEF AckedTypes
<1>8. Fewer
  <2>1. under_way <= under_way /\ device + under_way <= device + under_way
    BY <1>0 DEF AckedTypes
  <2> QED
    BY <1>0, <1>3, <1>6, <2>1, Zenon DEF Fewer
<1>9. LinksInv'
  BY <1>0, <1>5, <1>7, <1>8, FewerKeeps, PacketsSame, OldRepliesKeep, Zenon DEF LinksInv
<1>10. OrderInv'
  <2>1. ASSUME ~disorder' PROVE unseen' = 0
    <3>1. Orderly
      BY <1>0, <2>1, Zenon DEF OrderInv
    <3> QED
      BY <1>r, <1>0, <3>1, Zenon DEF Orderly
  <2> QED
    BY <1>0, <1>5, <1>7, <1>8, <2>1, PacketsSame, OldRepliesKeep, Zenon DEF OrderInv, Orderly
<1>11. SumInv'
  <2>1. CASE ~Newest(r.number)
    BY <1>0, <2>1, Zenon DEF SumInv, Sums, Bounded, EstimateBy
  <2>2. CASE Newest(r.number)
    <3>1. PICK w : Sums(w)
      BY <1>0, Zenon DEF SumInv
    <3>2. PICK n \in Nat : n = Len(packets) /\ n = Len(packets')
      BY <1>0 DEF AckedTypes
    <3>3. w \in [1..(n + 1) -> Nat] /\ under_way = w[1] /\ \A j, k \in 1..(n + 1) : j <= k => w[k] <= w[j]
      BY <3>1, <3>2, Zenon DEF Sums
    <3>4. EstimateBy(sentTrack') = FloorZero(size - s)
      <4>1. sentTrack'.age = s /\ sentTrack'.size = size /\ s # -1
        BY <1>0, <1>s, <2>2, Zenon DEF Newest
      <4> QED
        BY <4>1, Zenon DEF EstimateBy
    <3>5. PICK e \in Nat, u \in Nat, d \in Nat, left \in Nat, g \in Nat, b \in Nat, t \in Nat :
              /\ e = FloorZero(size - s) /\ u = under_way /\ d = device /\ left = r.left /\ g = r.age
              /\ b = FloorZero(size - r.age) /\ t = s
      <4>1. s \in Nat /\ size \in Nat /\ r.age \in Nat
        BY <1>1, <1>2, <1>4, <2>2
      <4>2. FloorZero(size - s) \in Nat /\ FloorZero(size - r.age) \in Nat
        <5>1. size - s \in Int /\ size - r.age \in Int
          BY <4>1
        <5> QED
          BY <5>1, FloorIsNat, Zenon
      <4>3. under_way \in Nat /\ device \in Nat
        BY <1>0, Zenon DEF AckedTypes
      <4> QED
        BY <1>1, <4>1, <4>2, <4>3, Zenon
    <3>6. t <= g + MaxDelay /\ u <= left /\ d + u <= b + left
      BY <1>s, <1>z, <1>1, <3>5, Zenon DEF ReplyOK
    <3>7. PICK z \in Nat : z = size /\ z <= AckCapacity
      BY <1>2
    <3>8. e = FloorZero(z - t) /\ b = FloorZero(z - g)
      BY <3>5, <3>7, Zenon
    <3>9. u + d <= e + MaxDelay + left /\ u + d <= AckCapacity + left
      BY <1>2, <3>6, <3>7, <3>8 DEF FloorZero
    <3>10. ASSUME NEW j \in 1..n PROVE w[j] <= e + packets[j].age + left
      <4>1. 1 \in 1..(n + 1) /\ j \in 1..(n + 1) /\ 1 <= j
        OBVIOUS
      <4>2. w[j] <= u /\ w[j] \in Nat
        BY <3>3, <3>5, <4>1, Zenon
      <4>3. PICK x \in Nat, y \in Nat : x = w[j] /\ y = packets[j].age
        BY <1>0, <3>2, <4>2, PacketParts
      <4>4. x <= u
        BY <4>2, <4>3, Zenon
      <4>5. x <= e + y + left
        BY <3>6, <4>4
      <4> QED
        BY <4>3, <4>5, Zenon
    <3>11. Sums(w)'
      BY <1>0, <3>1, Zenon DEF Sums
    <3>12. Bounded(w)'
      BY <1>0, <2>2, <3>2, <3>4, <3>5, <3>9, <3>10, Zenon DEF Bounded
    <3> QED
      BY <3>11, <3>12, Zenon DEF SumInv
  <2> QED
    BY <2>1, <2>2, Zenon
<1> QED
  BY <1>7, <1>9, <1>10, <1>11, Zenon DEF AckedInv

\* A reset: what is under way is not seen.
LEMMA ResetKeeps == ASSUME AckedInv, ResetTracks PROVE AckedInv'
<1>0. /\ AckedTypes /\ LinksInv /\ SumInv /\ OrderInv
      /\ sentTrack' = NoTrack /\ ackTrack' = NoTrack /\ device' = 0 /\ unseen' = under_way
      /\ message_times' = [m \in DOMAIN message_times |-> -1]
      /\ disorder' = (disorder \/ packets # <<>>)
      /\ UNCHANGED <<next_number, packets, ackReplies, under_way>>
  BY Zenon DEF AckedInv, ResetTracks
<1>1. NoTrack \in Track /\ NoTrack.age = -1 /\ AckCapacity \in Nat /\ MaxDelay \in Nat /\ 0 <= AckCapacity
  BY AckBounds DEF NoTrack, Track
<1>2. message_times' = [m \in Numbers |-> -1]
  BY <1>0, Zenon DEF AckedTypes
<1>3. \A m \in Numbers : message_times'[m] = -1
  BY <1>2, Zenon
<1>4. AckedTypes'
  <2>1. message_times' \in [Numbers -> Nat \cup {-1}] /\ 0 \in Nat
    BY <1>2
  <2> QED
    BY <1>0, <1>1, <2>1, Zenon DEF AckedTypes
<1>5. \A k \in Numbers : ~Newest(k)'
  BY <1>3, Zenon DEF Newest
<1>6. ASSUME NEW i \in 1..Len(packets) PROVE PacketOK(packets[i])' /\ ~Newest(packets[i].number)'
  <2>1. PICK p : p = packets[i] /\ p = packets'[i]
    BY <1>0, Zenon
  <2>2. p.number \in Numbers /\ p.age \in Nat
    BY <1>0, <2>1, PacketParts, Zenon
  <2>3. -1 <= p.age /\ message_times'[p.number] = -1
    BY <1>3, <2>2
  <2>4. PacketOK(p)' /\ ~Newest(p.number)'
    BY <1>5, <2>2, <2>3, Zenon DEF PacketOK
  <2> QED
    BY <2>1, <2>4, Zenon DEF PacketOK, Newest
<1>7. ASSUME NEW i \in 1..Len(ackReplies) PROVE ReplyOK(ackReplies[i])' /\ ~Newest(ackReplies[i].number)'
  <2>1. PICK r : r = ackReplies[i] /\ r = ackReplies'[i]
    BY <1>0, Zenon
  <2>2. /\ r.number \in Numbers /\ r.age \in Nat /\ r.free \in Nat /\ r.left \in Nat /\ ReplyOK(r)
    BY <1>0, <2>1, ReplyParts, Zenon DEF LinksInv
  <2>3. PICK b \in Nat, u \in Nat, left \in Nat :
            b = FloorZero((AckCapacity - r.free) - r.age) /\ u = under_way /\ left = r.left
    <3>1. FloorZero((AckCapacity - r.free) - r.age) \in Nat
      <4>1. (AckCapacity - r.free) - r.age \in Int
        BY <1>1, <2>2
      <4> QED
        BY <4>1, FloorIsNat, Zenon
    <3>2. under_way \in Nat
      BY <1>0, Zenon DEF AckedTypes
    <3> QED
      BY <2>2, <3>1, <3>2, Zenon
  <2>4. u <= left
    BY <2>2, <2>3, Zenon DEF ReplyOK
  <2>5. 0 + u <= b + left
    BY <2>4
  <2>6. -1 <= r.age + MaxDelay /\ message_times'[r.number] = -1
    BY <1>1, <1>3, <2>2
  <2>7. ReplyOK(r)' /\ ~Newest(r.number)'
    BY <1>0, <1>5, <2>2, <2>3, <2>4, <2>5, <2>6, Zenon DEF ReplyOK
  <2> QED
    BY <2>1, <2>7, Zenon DEF ReplyOK, Newest
<1>8. LinksInv'
  BY <1>0, <1>3, <1>6, <1>7, Zenon DEF LinksInv, TimeOK, PacketOK, ReplyOK
<1>w. PICK w : Sums(w)
  BY <1>0, Zenon DEF SumInv
<1>n. PICK n \in Nat : n = Len(packets) /\ n = Len(packets')
  BY <1>0 DEF AckedTypes
<1>9. OrderInv'
  <2>1. ASSUME ~disorder' PROVE unseen' = 0
    <3>1. packets = <<>>
      BY <1>0, <2>1, Zenon
    <3>2. Len(packets) + 1 = 1
      BY <3>1
    <3>3. w[Len(packets) + 1] = 0 /\ under_way = w[1]
      BY <1>w, Zenon DEF Sums
    <3> QED
      BY <1>0, <3>2, <3>3, Zenon
  <2> QED
    BY <1>0, <1>6, <1>7, <2>1, Zenon DEF OrderInv, Orderly, Newest
<1>10. SumInv'
  <2>1. w \in [1..(n + 1) -> Nat] /\ under_way = w[1] /\ \A j, k \in 1..(n + 1) : j <= k => w[k] <= w[j]
    BY <1>w, <1>n, Zenon DEF Sums
  <2>2. EstimateBy(sentTrack') = 0
    BY <1>0, <1>1, Zenon DEF EstimateBy
  <2>3. PICK u \in Nat : u = under_way
    BY <1>0 DEF AckedTypes
  <2>4. u + 0 <= 0 + MaxDelay + u /\ u + 0 <= AckCapacity + u
    BY <1>1
  <2>5. ASSUME NEW j \in 1..n PROVE w[j] <= 0 + packets[j].age + u
    <3>1. 1 \in 1..(n + 1) /\ j \in 1..(n + 1) /\ 1 <= j
      OBVIOUS
    <3>2. w[j] <= u /\ w[j] \in Nat
      BY <2>1, <2>3, <3>1, Zenon
    <3>3. PICK x \in Nat, y \in Nat : x = w[j] /\ y = packets[j].age
      BY <1>0, <1>n, <3>2, PacketParts
    <3>4. x <= u
      BY <3>2, <3>3, Zenon
    <3>5. x <= 0 + y + u
      BY <3>4
    <3> QED
      BY <3>3, <3>5, Zenon
  <2>6. Sums(w)'
    BY <1>0, <1>w, Zenon DEF Sums
  <2>7. Bounded(w)'
    BY <1>0, <1>n, <2>2, <2>3, <2>4, <2>5, Zenon DEF Bounded
  <2> QED
    BY <2>6, <2>7, Zenon DEF SumInv
<1> QED
  BY <1>4, <1>8, <1>9, <1>10, Zenon DEF AckedInv

\* The room that max_points_to_add leaves
LEMMA Room ==
    ASSUME AckedTypes, NEW points \in 1..AckCapacity, points <= MaxPointsToAdd
    PROVE  /\ EstimatedBufferFullness \in Nat /\ EstimateBy(sentTrack) \in Nat
           /\ EstimateBy(sentTrack) <= EstimatedBufferFullness
           /\ EstimatedBufferFullness + points + LATENCY_POINT_ADJUSTMENT <= AckCapacity
<1> DEFINE a == EstimateBy(sentTrack)
           b == EstimateBy(ackTrack)
<1>1. a \in Nat /\ b \in Nat /\ AckCapacity \in Nat /\ LATENCY_POINT_ADJUSTMENT \in Nat
  BY TrackParts, AckBounds DEF AckedTypes
<1>2. EstimatedBufferFullness = Larger(a, b)
  BY Zenon DEF EstimatedBufferFullness
<1> HIDE DEF a, b
<1>3. PICK e \in Nat : e = EstimatedBufferFullness /\ a <= e
  BY <1>1, <1>2 DEF Larger
<1>4. points <= FloorZero(FloorZero(AckCapacity - e) - LATENCY_POINT_ADJUSTMENT)
  BY <1>3, Zenon DEF MaxPointsToAdd
<1>5. e + points + LATENCY_POINT_ADJUSTMENT <= AckCapacity
  BY <1>1, <1>3, <1>4 DEF FloorZero
<1> QED
  BY <1>1, <1>3, <1>5, Zenon DEF a

\* The sums when one more packet is under way
LEMMA SumsAppend ==
    ASSUME AckedTypes, NEW p \in Packet, packets' = Append(packets, p), under_way' = under_way + p.points, NEW w, Sums(w)
    PROVE  \E v : /\ Sums(v)' /\ v[Len(packets) + 1] = p.points
                  /\ \A i \in 1..Len(packets) : v[i] = w[i] + p.points /\ w[i] \in Nat
<1> DEFINE n == Len(packets)
<1>1. /\ n \in Nat /\ Len(packets') = n + 1 /\ packets'[n + 1] = p
      /\ \A i \in 1..n : packets'[i] = packets[i] /\ packets[i].points \in Nat
  <2>1. \A i \in 1..n : packets[i].points \in Nat
    BY PacketParts, Zenon
  <2> QED
    BY <2>1, AppendParts DEF AckedTypes
<1>2. /\ w \in [1..(n + 1) -> Nat] /\ w[n + 1] = 0 /\ under_way = w[1]
      /\ \A i \in 1..n : w[i] = w[i + 1] + packets[i].points
      /\ \A i, j \in 1..(n + 1) : i <= j => w[j] <= w[i]
  BY Zenon DEF Sums
<1>p. PICK q \in Nat : q = p.points
  BY DEF Packet
<1>3. PICK v : v = [i \in 1..(n + 2) |-> IF i = n + 2 THEN 0 ELSE w[i] + q]
  OBVIOUS
<1> HIDE DEF n
<1>4. /\ v \in [1..(n + 2) -> Nat] /\ v[n + 2] = 0
      /\ \A i \in 1..(n + 1) : v[i] = w[i] + q /\ w[i] \in Nat
  BY <1>1, <1>2, <1>3, <1>p
<1>5. ASSUME NEW i \in 1..(n + 1) PROVE v[i] = v[i + 1] + packets'[i].points
  <2>1. CASE i = n + 1
    <3>1. v[i] = 0 + q /\ v[i + 1] = 0 /\ packets'[i].points = q
      <4>1. (n + 1) + 1 = n + 2
        BY <1>1
      <4> QED
        BY <1>1, <1>2, <1>4, <1>p, <2>1, <4>1, Zenon
    <3>2. 0 + q = q
      OBVIOUS
    <3> QED
      BY <3>1, <3>2, Zenon
  <2>2. CASE i # n + 1
    <3>1. i \in 1..n /\ i + 1 \in 1..(n + 1)
      BY <1>1, <2>2
    <3>2. v[i] = w[i] + q /\ v[i + 1] = w[i + 1] + q /\ w[i] = w[i + 1] + packets[i].points
      BY <1>2, <1>4, <3>1, Zenon
    <3>3. packets'[i].points = packets[i].points /\ packets[i].points \in Nat /\ w[i + 1] \in Nat
      BY <1>1, <1>4, <3>1, Zenon
    <3>4. PICK a \in Nat, b \in Nat : a = w[i + 1] /\ b = packets[i].points
      BY <3>3
    <3>5. (a + b) + q = (a + q) + b
      OBVIOUS
    <3> QED
      BY <3>2, <3>3, <3>4, <3>5, Zenon
  <2> QED
    BY <2>1, <2>2
<1>6. ASSUME NEW i \in 1..(n + 2), NEW j \in 1..(n + 2), i <= j PROVE v[j] <= v[i]
  <2>1. v[i] \in Nat /\ v[j] \in Nat
    BY <1>4, Zenon
  <2>2. CASE j = n + 2
    BY <1>4, <2>1, <2>2
  <2>3. CASE j # n + 2
    <3>1. i \in 1..(n + 1) /\ j \in 1..(n + 1)
      BY <1>1, <1>6, <2>3
    <3>2. w[j] <= w[i] /\ v[i] = w[i] + q /\ v[j] = w[j] + q /\ w[i] \in Nat /\ w[j] \in Nat
      BY <1>2, <1>4, <1>6, <3>1, Zenon
    <3>3. PICK a \in Nat, b \in Nat : a = w[i] /\ b = w[j]
      BY <3>2
    <3>4. b <= a
      BY <3>2, <3>3, Zenon
    <3>5. b + q <= a + q
      BY <3>4
    <3> QED
      BY <3>2, <3>3, <3>5, Zenon
  <2> QED
    BY <2>2, <2>3
<1>7. v[n + 1] = q /\ v[1] = w[1] + q
  <2>1. n + 1 \in 1..(n + 1) /\ 1 \in 1..(n + 1) /\ 0 + q = q
    BY <1>1
  <2> QED
    BY <1>2, <1>4, <2>1, Zenon
<1>8. Sums(v)'
  <2>1. (n + 1) + 1 = n + 2
    BY <1>1
  <2> QED
    BY <1>p, <1>1, <1>2, <1>4, <1>5, <1>6, <1>7, <2>1, Zenon DEF Sums
<1>9. \A i \in 1..n : v[i] = w[i] + q /\ w[i] \in Nat
  BY <1>1, <1>4
<1> QED
  BY <1>7, <1>8, <1>9, <1>p, Zenon DEF n

\* A packet sent by a user who goes by the estimate
LEMMA SendKeeps ==
    ASSUME AckedInv, NEW points \in 1..AckCapacity, SendPacket(points)
    PROVE  AckedInv'
<1> DEFINE n == Len(packets)
           e == EstimatedBufferFullness
<1>p. PICK p : p = [number |-> next_number, points |-> points, age |-> 0]
  OBVIOUS
<1>0. /\ AckedTypes /\ LinksInv /\ SumInv /\ OrderInv /\ points <= MaxPointsToAdd
      /\ sentTrack' = [age |-> 0, size |-> Smaller(e + points, AckCapacity)]
      /\ message_times' = [message_times EXCEPT ![next_number] = 0]
      /\ next_number' = (next_number + 1) % MessageNumbers
      /\ packets' = Append(packets, p) /\ UNCHANGED <<ackTrack, device, unseen>>
      /\ ackReplies' = [i \in DOMAIN ackReplies |-> [ackReplies[i] EXCEPT !.left = @ + points]]
      /\ under_way' = under_way + points
      /\ disorder' = (disorder \/ sentTrack.age = 0 \/ InUse(next_number))
  BY <1>p, Zenon DEF AckedInv, SendPacket, RecordPacket
<1>1. /\ AckCapacity \in Nat /\ MaxDelay \in Nat /\ points \in Nat /\ next_number \in Numbers
      /\ MaxDelay <= LATENCY_POINT_ADJUSTMENT /\ LATENCY_POINT_ADJUSTMENT \in Nat /\ device \in Nat
      /\ under_way \in Nat /\ unseen \in Nat
  BY <1>0, AckBounds DEF AckedTypes
<1>2. /\ e \in Nat /\ EstimateBy(sentTrack) \in Nat /\ EstimateBy(sentTrack) <= e
      /\ e + points + LATENCY_POINT_ADJUSTMENT <= AckCapacity
  BY <1>0, Room, Zenon
<1> HIDE DEF e
<1>3. sentTrack' = [age |-> 0, size |-> e + points] /\ e + points \in 0..AckCapacity
  <2>1. Smaller(e + points, AckCapacity) = e + points /\ e + points \in 0..AckCapacity
    BY <1>1, <1>2 DEF Smaller
  <2> QED
    BY <1>0, <2>1, Zenon
<1>4. p \in Packet /\ p.number = next_number /\ p.points = points /\ p.age = 0
  <2>1. 0 \in 0..MaxDelay
    BY <1>1
  <2> QED
    BY <1>p, <1>1, <2>1, Zenon DEF Packet
<1>5. /\ packets' \in Seq(Packet) /\ n \in Nat /\ Len(packets') = n + 1 /\ packets'[n + 1] = p
      /\ \A i \in 1..n : packets'[i] = packets[i]
  BY <1>0, <1>4, AppendParts DEF AckedTypes
<1>6. next_number' \in Numbers
  BY <1>0, <1>1, NextNumber, Zenon
<1>7. /\ message_times' \in [Numbers -> Nat \cup {-1}] /\ message_times'[next_number] = 0
      /\ \A m \in Numbers : m # next_number => message_times'[m] = message_times[m]
      /\ \A m \in Numbers : message_times[m] \in Nat \cup {-1}
  <2>1. message_times \in [Numbers -> Nat \cup {-1}]
    BY <1>0, Zenon DEF AckedTypes
  <2> QED
    BY <1>0, <1>1, <2>1
<1>8. sentTrack' \in Track /\ sentTrack'.age = 0 /\ EstimateBy(sentTrack') = e + points
  <2>1. PICK t : t = sentTrack'
    OBVIOUS
  <2>2. t = [age |-> 0, size |-> e + points]
    BY <1>3, <2>1, Zenon
  <2>3. t.age = 0 /\ t.size = e + points
    BY <2>2, Zenon
  <2>4. t \in Track
    BY <1>3, <2>2 DEF Track
  <2>5. EstimateBy(t) = e + points
    BY <1>1, <1>2, <2>3 DEF EstimateBy, FloorZero
  <2> QED
    BY <2>1, <2>3, <2>4, <2>5, Zenon
<1>9. /\ ackReplies' \in Seq(Reply) /\ Len(ackReplies') = Len(ackReplies)
      /\ \A i \in 1..Len(ackReplies) :
            ackReplies'[i] = [number |-> ackReplies[i].number, free |-> ackReplies[i].free,
                              age |-> ackReplies[i].age, left |-> ackReplies[i].left + points]
  <2> DEFINE k == Len(ackReplies)
  <2>1. /\ ackReplies \in Seq(Reply) /\ k \in Nat /\ DOMAIN ackReplies = 1..k
    BY <1>0 DEF AckedTypes
  <2>2. ASSUME NEW i \in 1..k
        PROVE  LET r == ackReplies[i]
               IN /\ [r EXCEPT !.left = @ + points] =
                         [number |-> r.number, free |-> r.free, age |-> r.age, left |-> r.left + points]
                  /\ [r EXCEPT !.left = @ + points] \in Reply
    <3>1. PICK r \in Reply : r = ackReplies[i]
      BY <1>0, <2>2, ReplyParts, Zenon
    <3>2. r.number \in Numbers /\ r.free \in 0..AckCapacity /\ r.age \in 0..MaxDelay /\ r.left \in Nat
      BY <3>1 DEF Reply
    <3>3. [r EXCEPT !.left = @ + points] =
              [number |-> r.number, free |-> r.free, age |-> r.age, left |-> r.left + points]
      BY <3>1 DEF Reply
    <3>4. r.left + points \in Nat
      BY <1>1, <3>2
    <3>5. [r EXCEPT !.left = @ + points] \in Reply
      BY <3>2, <3>3, <3>4, Zenon DEF Reply
    <3> QED
      BY <3>1, <3>3, <3>5, Zenon
  <2>3. ackReplies' = [i \in 1..k |-> [ackReplies[i] EXCEPT !.left = @ + points]]
    BY <1>0, <2>1, Zenon
  <2> HIDE DEF k
  <2>4. ackReplies' \in [1..k -> Reply]
    BY <2>2, <2>3, Zenon
  <2>5. ackReplies' \in Seq(Reply) /\ Len(ackReplies') = k
    BY <2>1, <2>4
  <2>6. \A i \in 1..k : ackReplies'[i] = [number |-> ackReplies[i].number, free |-> ackReplies[i].free,
                                          age |-> ackReplies[i].age, left |-> ackReplies[i].left + points]
    BY <2>2, <2>3, Zenon
  <2> QED
    BY <2>5, <2>6, Zenon DEF k
<1>10. AckedTypes'
  <2>1. under_way' \in Nat
    BY <1>0, <1>1
  <2>2. disorder' \in BOOLEAN
    BY <1>0, Zenon
  <2> QED
    BY <1>0, <1>5, <1>6, <1>7, <1>8, <1>9, <2>1, <2>2, Zenon DEF AckedTypes
<1>11. ASSUME NEW m \in Numbers PROVE TimeOK(m)'
  <2>1. message_times'[m] \in Nat \cup {-1} /\ 0 # -1
    BY <1>7
  <2>2. message_times'[m] # -1 => 0 <= message_times'[m]
    BY <2>1
  <2> QED
    BY <1>8, <2>1, <2>2, Zenon DEF TimeOK
<1>12. ASSUME NEW k \in Numbers, ~disorder', ~InUse(next_number) => k # next_number PROVE ~Newest(k)'
  <2>1. k # next_number /\ sentTrack.age # 0
    BY <1>0, <1>12, Zenon
  <2>2. message_times'[k] = message_times[k] /\ TimeOK(k) /\ sentTrack.age \in Nat \cup {-1}
    BY <1>0, <1>7, <2>1, TrackParts, Zenon DEF LinksInv, AckedTypes
  <2>3. message_times[k] # -1 => sentTrack.age # -1 /\ sentTrack.age <= message_times[k]
    BY <2>2, Zenon DEF TimeOK
  <2>4. PICK t \in Nat \cup {-1}, s \in Nat \cup {-1} : t = message_times[k] /\ s = sentTrack.age
    BY <1>7, <2>2
  <2>5. s # 0 /\ (t # -1 => s # -1 /\ s <= t)
    BY <2>1, <2>3, <2>4, Zenon
  <2>6. t # -1 => ~(t <= 0)
    BY <2>5
  <2>7. 0 # -1
    OBVIOUS
  <2> QED
    BY <1>8, <2>2, <2>4, <2>6, <2>7, Zenon DEF Newest
<1>13. \A j \in 1..Len(packets) : ~InUse(next_number) => packets[j].number # next_number
  <2>1. DOMAIN packets = 1..Len(packets)
    BY <1>0 DEF AckedTypes
  <2> QED
    BY <2>1, Zenon DEF InUse
<1>14. \A j \in 1..Len(ackReplies) : ~InUse(next_number) => ackReplies[j].number # next_number
  <2>1. DOMAIN ackReplies = 1..Len(ackReplies)
    BY <1>0 DEF AckedTypes
  <2> QED
    BY <2>1, Zenon DEF InUse
<1>15. ASSUME NEW i \in 1..Len(packets')
       PROVE  PacketOK(packets[i])' /\ (~disorder' /\ i < Len(packets') => ~Newest(packets[i].number)')
  <2>1. CASE i = n + 1
    <3>1. ~(i < Len(packets')) /\ 0 <= 0
      BY <1>5, <2>1
    <3> QED
      BY <1>4, <1>5, <1>7, <2>1, <3>1, Zenon DEF PacketOK
  <2>2. CASE i \in 1..n
    <3>1. PICK q : q = packets[i] /\ q = packets'[i] /\ PacketOK(q)
      BY <1>0, <1>5, <2>2, Zenon DEF LinksInv
    <3>2. q.number \in Numbers /\ q.age \in Nat
      BY <1>0, <2>2, <3>1, PacketParts, Zenon
    <3>3. message_times'[q.number] <= q.age
      <4>1. message_times'[q.number] = 0 \/ message_times'[q.number] = message_times[q.number]
        BY <1>7, <3>2, Zenon
      <4>2. 0 <= q.age
        BY <3>2
      <4> QED
        BY <3>1, <4>1, <4>2, Zenon DEF PacketOK
    <3>4. ASSUME ~disorder' PROVE ~Newest(q.number)'
      BY <1>12, <1>13, <2>2, <3>1, <3>2, <3>4, Zenon
    <3> QED
      BY <3>1, <3>3, <3>4, Zenon DEF PacketOK, Newest
  <2> QED
    BY <1>5, <2>1, <2>2
<1>16. ASSUME NEW i \in 1..Len(ackReplies')
       PROVE  ReplyOK(ackReplies[i])' /\ (~disorder' => ~Newest(ackReplies[i].number)')
  <2>1. PICK r, q : r = ackReplies[i] /\ q = ackReplies'[i]
    OBVIOUS
  <2>2. /\ r.number \in Numbers /\ r.age \in Nat /\ r.free \in Nat /\ r.left \in Nat /\ ReplyOK(r)
        /\ q = [number |-> r.number, free |-> r.free, age |-> r.age, left |-> r.left + points]
    BY <1>0, <1>9, <2>1, ReplyParts, Zenon DEF LinksInv
  <2>3. q.number = r.number /\ q.free = r.free /\ q.age = r.age /\ q.left = r.left + points
    BY <2>2, Zenon
  <2>4. message_times'[r.number] <= r.age + MaxDelay
    <3>1. message_times'[r.number] = 0 \/ message_times'[r.number] = message_times[r.number]
      BY <1>7, <2>2, Zenon
    <3>2. 0 <= r.age + MaxDelay
      BY <1>1, <2>2
    <3> QED
      BY <2>2, <3>1, <3>2, Zenon DEF ReplyOK
  <2>5. FloorZero((AckCapacity - r.free) - r.age) \in Nat
    <3>1. (AckCapacity - r.free) - r.age \in Int
      BY <1>1, <2>2
    <3> QED
      BY <3>1, FloorIsNat, Zenon
  <2>6. PICK b \in Nat, u \in Nat, d \in Nat, left \in Nat :
            b = FloorZero((AckCapacity - r.free) - r.age) /\ u = under_way /\ d = device /\ left = r.left
    BY <1>1, <2>2, <2>5
  <2>7. u <= left /\ d + u <= b + left
    BY <2>2, <2>6, Zenon DEF ReplyOK
  <2>8. u + points <= left + points /\ d + (u + points) <= b + (left + points)
    BY <1>1, <2>7
  <2>9. ReplyOK(q)'
    BY <1>0, <2>3, <2>4, <2>6, <2>8, Zenon DEF ReplyOK
  <2>10. ASSUME ~disorder' PROVE ~Newest(q.number)'
    BY <1>9, <1>12, <1>14, <2>1, <2>2, <2>3, <2>10, Zenon
  <2> QED
    BY <2>1, <2>9, <2>10, Zenon DEF ReplyOK, Newest
<1>17. LinksInv'
  BY <1>11, <1>15, <1>16, Zenon DEF LinksInv, PacketOK, ReplyOK
<1>18. OrderInv'
  BY <1>0, <1>15, <1>16, Zenon DEF OrderInv, Orderly, Newest
<1>19. SumInv'
  <2>1. PICK w : Sums(w) /\ Bounded(w)
    BY <1>0, Zenon DEF SumInv
  <2>2. PICK v : /\ Sums(v)' /\ v[n + 1] = points
                 /\ \A i \in 1..n : v[i] = w[i] + points /\ w[i] \in Nat
    <3>1. under_way' = under_way + p.points
      BY <1>0, <1>4, Zenon
    <3>2. \E v : /\ Sums(v)' /\ v[n + 1] = p.points
                 /\ \A i \in 1..n : v[i] = w[i] + p.points /\ w[i] \in Nat
      BY <1>0, <1>4, <2>1, <3>1, SumsAppend, Zenon
    <3> QED
      BY <1>4, <3>2, Zenon
  <2>3. PICK a \in Nat, u \in Nat, d \in Nat, un \in Nat, f \in Nat :
            a = EstimateBy(sentTrack) /\ u = under_way /\ d = device /\ un = unseen /\ f = e
    BY <1>1, <1>2
  <2>4. /\ \A i \in 1..n : w[i] <= a + packets[i].age + un
        /\ u + d <= a + MaxDelay + un /\ u + d <= AckCapacity + un /\ a <= f
        /\ f + points + LATENCY_POINT_ADJUSTMENT <= AckCapacity
    BY <1>2, <2>1, <2>3, Zenon DEF Bounded
  <2>5. u + d <= a + MaxDelay + un /\ a <= f /\ f + points + LATENCY_POINT_ADJUSTMENT <= AckCapacity
    BY <2>4, Zenon
  <2>6. (u + points) + d <= (f + points) + MaxDelay + un /\ (u + points) + d <= AckCapacity + un
    BY <1>1, <2>5
  <2>7. ASSUME NEW i \in 1..(n + 1) PROVE v[i] <= (f + points) + packets'[i].age + un
    <3>1. CASE i = n + 1
      <4>1. points <= (f + points) + 0 + un
        BY <1>1
      <4> QED
        BY <1>4, <1>5, <2>2, <3>1, <4>1, Zenon
    <3>2. CASE i \in 1..n
      <4>1. v[i] = w[i] + points /\ w[i] \in Nat /\ w[i] <= a + packets[i].age + un /\ packets'[i] = packets[i]
        BY <1>5, <2>2, <2>4, <3>2, Zenon
      <4>2. PICK g \in Nat, x \in Nat : g = packets[i].age /\ x = w[i]
        BY <1>0, <3>2, <4>1, PacketParts
      <4>3. x <= a + g + un
        BY <4>1, <4>2, Zenon
      <4>4. x + points <= (f + points) + g + un
        BY <1>1, <2>5, <4>3
      <4> QED
        BY <4>1, <4>2, <4>4, Zenon
    <3> QED
      BY <1>5, <3>1, <3>2
  <2>8. Bounded(v)'
    BY <1>0, <1>5, <1>8, <2>3, <2>6, <2>7, Zenon DEF Bounded
  <2> QED
    BY <2>2, <2>8, Zenon DEF SumInv
<1> QED
  BY <1>10, <1>17, <1>18, <1>19, Zenon DEF AckedInv

\* An age a tick later
LEMMA OlderParts ==
    ASSUME NEW a \in Nat \cup {-1}
    PROVE  /\ Older(a) \in Nat \cup {-1} /\ (Older(a) = -1 <=> a = -1)
           /\ a # -1 => /\ a \in Nat /\ Older(a) \in Nat /\ Older(a) <= a + 1
                        /\ a < OldestAge => Older(a) = a + 1
                        /\ a >= OldestAge => Older(a) = OldestAge
<1>1. OldestAge \in Nat
  BY AckBounds
<1> QED
  BY <1>1 DEF Older, Smaller

\* The estimate of a track sinks by one point a tick at most.
LEMMA EstimateSinks ==
    ASSUME NEW t \in Track, NEW u, u = [t EXCEPT !.age = Older(@)]
    PROVE  /\ u \in Track /\ u.age = Older(t.age)
           /\ EstimateBy(u) \in Nat /\ EstimateBy(t) \in Nat /\ EstimateBy(t) <= EstimateBy(u) + 1
<1>1. /\ t.age \in Nat \cup {-1} /\ t.size \in 0..AckCapacity /\ t.size \in Nat /\ t.size <= AckCapacity
      /\ EstimateBy(t) \in Nat
      /\ t.age = -1 => EstimateBy(t) = 0
      /\ t.age # -1 => EstimateBy(t) = FloorZero(t.size - t.age)
  BY TrackParts, Zenon
<1>2. Older(t.age) \in Nat \cup {-1} /\ (Older(t.age) = -1 <=> t.age = -1)
  BY <1>1, OlderParts, Zenon
<1>3. u = [age |-> Older(t.age), size |-> t.size]
  BY DEF Track
<1>4. u \in Track /\ u.age = Older(t.age) /\ u.size = t.size
  BY <1>1, <1>2, <1>3, Zenon DEF Track
<1>5. EstimateBy(u) \in Nat
  BY <1>4, TrackParts, Zenon
<1>6. EstimateBy(t) <= EstimateBy(u) + 1
  <2>1. CASE t.age = -1
    BY <1>1, <1>5, <2>1
  <2>2. CASE t.age # -1
    <3>1. PICK a \in Nat, z \in Nat : a = t.age /\ z = t.size
      BY <1>1, <2>2
    <3>2. PICK b \in Nat : b = Older(a) /\ b <= a + 1 /\ (a < OldestAge => b = a + 1) /\ (a >= OldestAge => b = OldestAge)
      BY <2>2, <3>1, OlderParts
    <3>3. EstimateBy(t) = FloorZero(z - a)
      BY <1>1, <2>2, <3>1, Zenon
    <3>4. EstimateBy(u) = FloorZero(z - b)
      <4>1. u.age = b /\ u.size = z /\ u.age # -1
        BY <1>2, <1>4, <2>2, <3>1, <3>2, Zenon
      <4> QED
        BY <4>1, Zenon DEF EstimateBy
    <3>5. FloorZero(z - a) <= FloorZero(z - b) + 1
      BY <3>2 DEF FloorZero
    <3> QED
      BY <3>3, <3>4, <3>5, Zenon
  <2> QED
    BY <2>1, <2>2
<1> QED
  BY <1>1, <1>4, <1>5, <1>6, Zenon

\* Letters that have not been under way for MaxDelay may grow older.
Letters(A) == \A c \in A : c.age < MaxDelay => [c EXCEPT !.age = @ + 1] \in A
InTime(q) == \A i \in DOMAIN q : q[i].age < MaxDelay

\* A queue of such letters a tick later
LEMMA AgedLetters ==
    ASSUME NEW A, NEW q \in Seq(A), Letters(A), InTime(q)
    PROVE  /\ Aged(q) \in Seq(A) /\ Len(q) \in Nat /\ Len(Aged(q)) = Len(q)
           /\ \A i \in 1..Len(q) : Aged(q)[i] = [q[i] EXCEPT !.age = @ + 1] /\ q[i] \in A /\ q[i].age < MaxDelay
<1> DEFINE n == Len(q)
<1>1. n \in Nat /\ DOMAIN q = 1..n /\ \A i \in 1..n : q[i] \in A
  OBVIOUS
<1>2. \A i \in 1..n : [q[i] EXCEPT !.age = @ + 1] \in A /\ q[i].age < MaxDelay
  BY <1>1, Zenon DEF Letters, InTime
<1>3. Aged(q) = [i \in 1..n |-> [q[i] EXCEPT !.age = @ + 1]]
  BY <1>1, Zenon DEF Aged
<1> HIDE DEF n
<1>4. Aged(q) \in [1..n -> A]
  BY <1>2, <1>3, Zenon
<1>5. Aged(q) \in Seq(A) /\ Len(Aged(q)) = n
  BY <1>1, <1>4
<1>6. \A i \in 1..n : Aged(q)[i] = [q[i] EXCEPT !.age = @ + 1]
  BY <1>3, Zenon
<1> QED
  BY <1>1, <1>2, <1>5, <1>6, Zenon DEF n

\* The fields of a packet a tick later
LEMMA AgedPacket ==
    ASSUME NEW c \in Packet
    PROVE  /\ c.number \in Numbers /\ c.points \in Nat /\ c.age \in 0..MaxDelay
           /\ [c EXCEPT !.age = @ + 1] = [number |-> c.number, points |-> c.points, age |-> c.age + 1]
           /\ c.age < MaxDelay => [c EXCEPT !.age = @ + 1] \in Packet
<1>1. c.number \in Numbers /\ c.points \in Nat /\ c.age \in 0..MaxDelay
  BY DEF Packet
<1>2. [c EXCEPT !.age = @ + 1] = [number |-> c.number, points |-> c.points, age |-> c.age + 1]
  BY DEF Packet
<1>3. c.age < MaxDelay => c.age + 1 \in 0..MaxDelay
  BY <1>1, AckBounds
<1> QED
  BY <1>1, <1>2, <1>3, Zenon DEF Packet

\* ... and of an acknowledgement
LEMMA AgedReply ==
    ASSUME NEW c \in Reply
    PROVE  /\ c.number \in Numbers /\ c.free \in 0..AckCapacity /\ c.age \in 0..MaxDelay /\ c.left \in Nat
           /\ [c EXCEPT !.age = @ + 1] = [number |-> c.number, free |-> c.free, age |-> c.age + 1, left |-> c.left]
           /\ c.age < MaxDelay => [c EXCEPT !.age = @ + 1] \in Reply
<1>1. c.number \in Numbers /\ c.free \in 0..AckCapacity /\ c.age \in 0..MaxDelay /\ c.left \in Nat
  BY DEF Reply
<1>2. [c EXCEPT !.age = @ + 1] = [number |-> c.number, free |-> c.free, age |-> c.age + 1, left |-> c.left]
  BY DEF Reply
<1>3. c.age < MaxDelay => c.age + 1 \in 0..MaxDelay
  BY <1>1, AckBounds
<1> QED
  BY <1>1, <1>2, <1>3, Zenon DEF Reply

\* A message that was overtaken by a later send stays so, while its age is counted.
LEMMA OldStaysOld ==
    ASSUME NEW s \in Nat \cup {-1}, NEW t \in Nat \cup {-1}, t < OldestAge, t = -1 \/ (s # -1 /\ ~(t <= s))
    PROVE  Older(t) = -1 \/ (Older(s) # -1 /\ ~(Older(t) <= Older(s)))
<1>1. OldestAge \in Nat
  BY AckBounds
<1>2. CASE t = -1
  BY <1>2, Zenon DEF Older
<1>3. CASE t # -1
  <2>1. t \in Nat /\ s \in Nat /\ s < t /\ t < OldestAge
    BY <1>1, <1>3
  <2>2. Older(t) = t + 1 /\ Older(s) = s + 1
    BY <1>1, <2>1 DEF Older, Smaller
  <2> QED
    BY <2>1, <2>2
<1> QED
  BY <1>2, <1>3

\* A tick: everything under way grows older, and the device plays a point.
LEMMA TicksKeep == ASSUME AckedInv, ClockTicks PROVE AckedInv'
<1>0. /\ AckedTypes /\ LinksInv /\ SumInv /\ OrderInv /\ UNCHANGED <<next_number, under_way, unseen, disorder>>
      /\ \A i \in DOMAIN packets : packets[i].age < MaxDelay
      /\ \A i \in DOMAIN ackReplies : ackReplies[i].age < MaxDelay
      /\ sentTrack' = [sentTrack EXCEPT !.age = Older(@)]
      /\ ackTrack' = [ackTrack EXCEPT !.age = Older(@)]
      /\ message_times' = [m \in DOMAIN message_times |-> Older(message_times[m])]
      /\ packets' = Aged(packets) /\ ackReplies' = Aged(ackReplies) /\ device' = FloorZero(device - 1)
  BY Zenon DEF AckedInv, ClockTicks
<1>1. /\ AckCapacity \in Nat /\ MaxDelay \in Nat /\ OldestAge \in Nat /\ OldestAge > 2 * MaxDelay
      /\ device \in Nat /\ device <= AckCapacity /\ packets \in Seq(Packet) /\ ackReplies \in Seq(Reply)
      /\ sentTrack \in Track /\ ackTrack \in Track /\ under_way \in Nat /\ unseen \in Nat
  BY <1>0, AckBounds DEF AckedTypes
<1>2. /\ sentTrack' \in Track /\ sentTrack'.age = Older(sentTrack.age) /\ ackTrack' \in Track
      /\ EstimateBy(sentTrack') \in Nat /\ EstimateBy(sentTrack) \in Nat
      /\ EstimateBy(sentTrack) <= EstimateBy(sentTrack') + 1
  BY <1>0, <1>1, EstimateSinks, Zenon
<1>3. /\ packets' \in Seq(Packet) /\ Len(packets) \in Nat /\ Len(packets') = Len(packets)
      /\ \A i \in 1..Len(packets) : /\ packets'[i] = [packets[i] EXCEPT !.age = @ + 1]
                                    /\ packets[i] \in Packet /\ packets[i].age < MaxDelay
  <2>1. Letters(Packet) /\ InTime(packets)
    BY <1>0, AgedPacket, Zenon DEF Letters, InTime
  <2>2. /\ Aged(packets) \in Seq(Packet) /\ Len(packets) \in Nat /\ Len(Aged(packets)) = Len(packets)
        /\ \A i \in 1..Len(packets) : /\ Aged(packets)[i] = [packets[i] EXCEPT !.age = @ + 1]
                                    /\ packets[i] \in Packet /\ packets[i].age < MaxDelay
    BY ONLY <1>1, <2>1, AgedLetters, Zenon
  <2> QED
    BY <1>0, <2>2, Zenon
<1>4. /\ ackReplies' \in Seq(Reply) /\ Len(ackReplies') = Len(ackReplies)
      /\ \A i \in 1..Len(ackReplies) : /\ ackReplies'[i] = [ackReplies[i] EXCEPT !.age = @ + 1]
                                       /\ ackReplies[i] \in Reply /\ ackReplies[i].age < MaxDelay
  <2>1. Letters(Reply) /\ InTime(ackReplies)
    BY <1>0, AgedReply, Zenon DEF Letters, InTime
  <2>2. /\ Aged(ackReplies) \in Seq(Reply) /\ Len(ackReplies) \in Nat /\ Len(Aged(ackReplies)) = Len(ackReplies)
        /\ \A i \in 1..Len(ackReplies) : /\ Aged(ackReplies)[i] = [ackReplies[i] EXCEPT !.age = @ + 1]
                                    /\ ackReplies[i] \in Reply /\ ackReplies[i].age < MaxDelay
    BY ONLY <1>1, <2>1, AgedLetters, Zenon
  <2> QED
    BY <1>0, <2>2, Zenon
<1>5. /\ message_times' \in [Numbers -> Nat \cup {-1}]
      /\ \A m \in Numbers : message_times'[m] = Older(message_times[m]) /\ message_times[m] \in Nat \cup {-1}
  <2>1. message_times \in [Numbers -> Nat \cup {-1}]
    BY <1>0, Zenon DEF AckedTypes
  <2>2. message_times' = [m \in Numbers |-> Older(message_times[m])]
    BY <1>0, <2>1, Zenon
  <2>3. \A m \in Numbers : message_times[m] \in Nat \cup {-1}
    BY <2>1, Zenon
  <2>4. \A m \in Numbers : Older(message_times[m]) \in Nat \cup {-1}
    BY <2>3, OlderParts, Zenon
  <2> QED
    BY <2>2, <2>3, <2>4, Zenon
<1>6. device' \in Nat /\ device' <= device /\ device' <= AckCapacity /\ (device > 0 => device' = device - 1)
  BY <1>0, <1>1 DEF FloorZero
<1>7. AckedTypes'
  BY <1>0, <1>1, <1>2, <1>3, <1>4, <1>5, <1>6, Zenon DEF AckedTypes
<1>8. sentTrack.age \in Nat \cup {-1}
  BY <1>1, TrackParts, Zenon
<1>9. ASSUME NEW m \in Numbers PROVE TimeOK(m)'
  <2>1. PICK a, b, s : a = message_times[m] /\ b = message_times'[m] /\ s = sentTrack.age
    OBVIOUS
  <2>2. /\ a \in Nat \cup {-1} /\ b = Older(a) /\ s \in Nat \cup {-1} /\ sentTrack'.age = Older(s)
    BY <1>2, <1>5, <1>8, <2>1, Zenon
  <2>3. a # -1 => s # -1 /\ s <= a
    BY <1>0, <2>1, Zenon DEF LinksInv, TimeOK
  <2>4. SUFFICES ASSUME b # -1 PROVE Older(s) # -1 /\ Older(s) <= b
    BY <2>1, <2>2, Zenon DEF TimeOK
  <2>5. a # -1 /\ s # -1 /\ a \in Nat /\ s \in Nat /\ s <= a
    BY <2>2, <2>3, <2>4, OlderParts, Zenon
  <2>6. /\ b \in Nat /\ (a < OldestAge => b = a + 1) /\ (a >= OldestAge => b = OldestAge)
        /\ Older(s) \in Nat /\ (s < OldestAge => Older(s) = s + 1) /\ (s >= OldestAge => Older(s) = OldestAge)
    BY <2>2, <2>5, OlderParts, Zenon
  <2> QED
    BY <1>1, <2>5, <2>6
<1>10. ASSUME NEW k \in Numbers, message_times[k] < OldestAge, ~Newest(k) PROVE ~Newest(k)'
  <2>1. PICK t \in Nat \cup {-1}, s \in Nat \cup {-1} : t = message_times[k] /\ s = sentTrack.age
    BY <1>5, <1>8
  <2>2. t < OldestAge /\ (t = -1 \/ (s # -1 /\ ~(t <= s)))
    BY <1>10, <2>1, Zenon DEF Newest
  <2>3. Older(t) = -1 \/ (Older(s) # -1 /\ ~(Older(t) <= Older(s)))
    BY <2>2, OldStaysOld, Zenon
  <2>4. message_times'[k] = Older(t) /\ sentTrack'.age = Older(s)
    BY <1>2, <1>5, <2>1, Zenon
  <2> QED
    BY <2>3, <2>4, Zenon DEF Newest
<1>11. ASSUME NEW i \in 1..Len(packets')
       PROVE  /\ PacketOK(packets[i])'
              /\ ~disorder' /\ i < Len(packets') => ~Newest(packets[i].number)'
  <2>1. PICK p, q : p = packets[i] /\ q = packets'[i]
    OBVIOUS
  <2>2. p \in Packet /\ q = [p EXCEPT !.age = @ + 1] /\ p.age < MaxDelay /\ PacketOK(p)
    BY <1>0, <1>3, <2>1, Zenon DEF LinksInv
  <2>3. p.number \in Numbers /\ p.age \in 0..MaxDelay /\ q = [number |-> p.number, points |-> p.points, age |-> p.age + 1]
    BY <2>2, AgedPacket, Zenon
  <2>4. q.number = p.number /\ q.age = p.age + 1
    BY <2>3, Zenon
  <2>5. PICK a \in Nat, t \in Nat \cup {-1} : a = p.age /\ t = message_times[p.number] /\ a < MaxDelay
    <3>1. p.age \in Nat
      BY <1>1, <2>3
    <3>2. message_times[p.number] \in Nat \cup {-1}
      BY <1>5, <2>3, Zenon
    <3> QED
      BY <2>2, <3>1, <3>2, Zenon
  <2>6. t <= a /\ message_times'[p.number] = Older(t)
    BY <1>5, <2>2, <2>3, <2>5, Zenon DEF PacketOK
  <2>7. t <= OldestAge - 1 /\ Older(t) <= a + 1 /\ t < OldestAge
    <3>1. t <= a /\ a < MaxDelay
      BY <2>5, <2>6, Zenon
    <3> QED
      BY <1>1, <3>1 DEF Older, Smaller
  <2>8. PacketOK(q)'
    BY <2>4, <2>5, <2>6, <2>7, Zenon DEF PacketOK
  <2>9. ASSUME ~disorder', i < Len(packets') PROVE ~Newest(q.number)'
    <3>1. ~Newest(p.number)
      BY <1>0, <1>3, <2>1, <2>9, Zenon DEF OrderInv, Orderly
    <3> QED
      BY <1>10, <2>3, <2>4, <2>5, <2>7, <3>1, Zenon
  <2> QED
    BY <2>1, <2>8, <2>9, Zenon DEF PacketOK, Newest
<1>12. ASSUME NEW i \in 1..Len(ackReplies')
       PROVE  /\ ReplyOK(ackReplies[i])'
              /\ ~disorder' /\ ackReplies'[i].left # 0 => ~Newest(ackReplies[i].number)'
  <2>1. PICK p, q : p = ackReplies[i] /\ q = ackReplies'[i]
    OBVIOUS
  <2>2. p \in Reply /\ q = [p EXCEPT !.age = @ + 1] /\ p.age < MaxDelay /\ ReplyOK(p)
    BY <1>0, <1>4, <2>1, Zenon DEF LinksInv
  <2>3. /\ p.number \in Numbers /\ p.age \in 0..MaxDelay /\ p.free \in 0..AckCapacity /\ p.left \in Nat
        /\ q = [number |-> p.number, free |-> p.free, age |-> p.age + 1, left |-> p.left]
    BY <2>2, AgedReply, Zenon
  <2>4. q.number = p.number /\ q.free = p.free /\ q.age = p.age + 1 /\ q.left = p.left
    BY <2>3, Zenon
  <2>5. PICK a \in Nat, f \in Nat, left \in Nat, t \in Nat \cup {-1} :
            /\ a = p.age /\ f = p.free /\ left = p.left /\ t = message_times[p.number]
            /\ a < MaxDelay /\ f <= AckCapacity
    <3>1. PICK t : t = message_times[p.number]
      OBVIOUS
    <3>2. t \in Nat \cup {-1} /\ p.left \in Nat /\ p.age < MaxDelay
      BY <1>5, <2>2, <2>3, <3>1, Zenon
    <3>3. p.age \in Nat /\ p.free \in Nat /\ p.free <= AckCapacity
      BY <1>1, <2>3
    <3> QED
      BY <3>1, <3>2, <3>3, Zenon
  <2>6. PICK d \in Nat, u \in Nat : d = device /\ u = under_way
    BY <1>1
  <2>7. /\ t <= a + MaxDelay /\ message_times'[p.number] = Older(t)
        /\ u <= left /\ d + u <= FloorZero((AckCapacity - f) - a) + left
    BY <1>5, <2>2, <2>3, <2>5, <2>6, Zenon DEF ReplyOK
  <2>8. t < OldestAge /\ Older(t) <= (a + 1) + MaxDelay
    <3>1. t <= a + MaxDelay /\ a < MaxDelay
      BY <2>5, <2>7, Zenon
    <3> QED
      BY <1>1, <3>1 DEF Older, Smaller
  <2>9. FloorZero(d - 1) + u <= FloorZero((AckCapacity - f) - (a + 1)) + left
    <3>1. PICK x \in Int : x = (AckCapacity - f) - a /\ (AckCapacity - f) - (a + 1) = x - 1
      BY <1>1
    <3>2. u <= left /\ d + u <= FloorZero(x) + left
      BY <2>7, <3>1, Zenon
    <3>3. FloorZero(d - 1) + u <= FloorZero(x - 1) + left
      BY <3>2 DEF FloorZero
    <3> QED
      BY <3>1, <3>3, Zenon
  <2>10. ReplyOK(q)'
    BY <1>0, <2>4, <2>5, <2>6, <2>7, <2>8, <2>9, Zenon DEF ReplyOK
  <2>11. ASSUME ~disorder', q.left # 0 PROVE ~Newest(q.number)'
    <3>1. ~Newest(p.number)
      BY <1>0, <1>4, <2>1, <2>4, <2>11, Zenon DEF OrderInv, Orderly
    <3> QED
      BY <1>10, <2>3, <2>4, <2>5, <2>8, <3>1, Zenon
  <2> QED
    BY <2>1, <2>10, <2>11, Zenon DEF ReplyOK, Newest
<1>13. LinksInv'
  BY <1>9, <1>11, <1>12, Zenon DEF LinksInv, PacketOK, ReplyOK
<1>14. OrderInv'
  BY <1>0, <1>11, <1>12, Zenon DEF OrderInv, Orderly, Newest
<1>15. SumInv'
  <2> DEFINE n == Len(packets)
  <2>1. PICK w : Sums(w) /\ Bounded(w)
    BY <1>0, Zenon DEF SumInv
  <2>2. /\ w \in [1..(n + 1) -> Nat] /\ w[n + 1] = 0 /\ under_way = w[1]
        /\ \A i \in 1..n : w[i] = w[i + 1] + packets[i].points
        /\ \A i, j \in 1..(n + 1) : i <= j => w[j] <= w[i]
    BY <2>1, Zenon DEF Sums
  <2>3. PICK a \in Nat, b \in Nat, d \in Nat, e \in Nat, u \in Nat, un \in Nat :
            /\ a = EstimateBy(sentTrack) /\ b = EstimateBy(sentTrack') /\ d = device /\ e = device'
            /\ u = under_way /\ un = unseen
    BY <1>1, <1>2, <1>6
  <2>4. /\ \A i \in 1..n : w[i] <= a + packets[i].age + un
        /\ u + d <= a + MaxDelay + un /\ u + d <= AckCapacity + un
    BY <2>1, <2>3, Zenon DEF Bounded
  <2>5. a <= b + 1 /\ e <= d /\ (d > 0 => e = d - 1) /\ u + d <= a + MaxDelay + un /\ u + d <= AckCapacity + un
    BY <1>2, <1>6, <2>3, <2>4, Zenon
  <2>6. ASSUME NEW i \in 1..n
        PROVE  /\ packets'[i].points = packets[i].points /\ packets'[i].age = packets[i].age + 1
               /\ packets[i].age \in Nat /\ packets[i].age < MaxDelay /\ w[i] \in Nat
    <3>1. PICK p, q : p = packets[i] /\ q = packets'[i]
      OBVIOUS
    <3>2. p \in Packet /\ q = [p EXCEPT !.age = @ + 1] /\ p.age < MaxDelay
      BY <1>3, <3>1, Zenon
    <3>3. p.age \in 0..MaxDelay /\ q = [number |-> p.number, points |-> p.points, age |-> p.age + 1]
      BY <3>2, AgedPacket, Zenon
    <3>4. q.points = p.points /\ q.age = p.age + 1
      BY <3>3, Zenon
    <3>5. p.age \in Nat
      BY <1>1, <3>3
    <3>6. w[i] \in Nat
      BY <1>3, <2>2
    <3> QED
      BY <3>1, <3>2, <3>4, <3>5, <3>6, Zenon
  <2>l. Len(packets') = n
    BY <1>3, Zenon
  <2>n. n \in Nat
    BY <1>3, Zenon
  <2> HIDE DEF n
  <2>7. Sums(w)'
    <3>1. \A i \in 1..n : w[i] = w[i + 1] + packets'[i].points
      BY <2>2, <2>6, Zenon
    <3> QED
      BY <1>0, <2>2, <2>l, <3>1, Zenon DEF Sums
  <2>8. ASSUME NEW i \in 1..n PROVE w[i] <= b + packets'[i].age + un
    <3>1. PICK x \in Nat, g \in Nat : x = w[i] /\ g = packets[i].age
      BY <2>6
    <3>2. x <= a + g + un /\ packets'[i].age = g + 1
      BY <2>4, <2>6, <3>1, Zenon
    <3>3. x <= b + (g + 1) + un
      BY <2>5, <3>2
    <3> QED
      BY <3>1, <3>2, <3>3, Zenon
  <2>9. u + e <= b + MaxDelay + un /\ u + e <= AckCapacity + un
    <3>1. u + e <= AckCapacity + un
      BY <1>1, <2>5
    <3>2. CASE d > 0
      BY <1>1, <2>5, <3>1, <3>2
    <3>3. CASE d = 0 /\ n = 0
      <4>1. n + 1 = 1
        BY <3>3
      <4>2. u = 0
        BY <2>2, <2>3, <4>1, Zenon
      <4>3. e = 0
        BY <2>5, <3>3
      <4> QED
        BY <1>1, <3>1, <4>2, <4>3
    <3>4. CASE d = 0 /\ n # 0
      <4>1. 1 \in 1..n
        BY <2>n, <3>4
      <4>2. PICK g \in Nat : g = packets[1].age /\ g < MaxDelay
        BY <2>6, <4>1
      <4>3. u <= a + g + un
        BY <2>2, <2>3, <2>4, <4>1, <4>2, Zenon
      <4>4. e = 0 /\ g < MaxDelay
        BY <2>5, <3>4, <4>2
      <4> QED
        BY <1>1, <2>5, <3>1, <4>3, <4>4
    <3> QED
      BY <3>2, <3>3, <3>4
  <2>10. Bounded(w)'
    BY <1>0, <2>3, <2>8, <2>9, <2>l, Zenon DEF Bounded
  <2> QED
    BY <2>7, <2>10, Zenon DEF SumInv
<1> QED
  BY <1>7, <1>13, <1>14, <1>15, Zenon DEF AckedInv

\* Every step of the acknowledged estimator keeps the invariant.
LEMMA AckedStep == AckedInv /\ [AckedNext]_ackedVars => AckedInv'
<1> SUFFICES ASSUME AckedInv, [AckedNext]_ackedVars PROVE AckedInv'
  OBVIOUS
<1>1. CASE UNCHANGED ackedVars
  BY <1>1, Zenon DEF ackedVars, trackVars, AckedInv, AckedTypes, LinksInv, SumInv, OrderInv, Orderly, TimeOK,
                     PacketOK, ReplyOK, Newest, Sums, Bounded, EstimateBy
<1>2. DOMAIN packets = 1..Len(packets) /\ DOMAIN ackReplies = 1..Len(ackReplies)
  BY DEF AckedInv, AckedTypes
<1> QED
  BY <1>1, <1>2, SendKeeps, TakesKeeps, LostKeeps, AckArrivesKeeps, AckLostKeeps, ResetKeeps, TicksKeep, Zenon
     DEF AckedNext

\* The invariant is stronger than NeverOverrun.
LEMMA AckedInvSafe == AckedInv => NeverOverrun
<1> SUFFICES ASSUME AckedInv PROVE NeverOverrun
  OBVIOUS
<1>0. AckedTypes /\ SumInv /\ OrderInv
  BY Zenon DEF AckedInv
<1>1. PICK w : Bounded(w)
  BY <1>0, Zenon DEF SumInv
<1>2. PICK d \in Nat, u \in Nat, n \in Nat, a \in Nat, b \in Nat :
          d = device /\ u = under_way /\ n = unseen /\ a = EstimateBy(sentTrack) /\ b = EstimateBy(ackTrack)
  BY <1>0, TrackParts DEF AckedTypes
<1>3. u + d <= a + MaxDelay + n /\ u + d <= AckCapacity + n
  BY <1>1, <1>2, Zenon DEF Bounded
<1>4. EstimatedBufferFullness = Larger(a, b)
  BY <1>2, Zenon DEF EstimatedBufferFullness
<1>5. d + u <= AckCapacity + n /\ d <= Larger(a, b) + MaxDelay + n
  BY <1>3, AckBounds DEF Larger
<1>6. unseen > 0 => disorder
  <2>1. ASSUME unseen > 0, ~disorder PROVE FALSE
    <3>1. unseen = 0
      BY <1>0, <2>1, Zenon DEF OrderInv, Orderly
    <3> QED
      BY <2>1, <3>1
  <2> QED
    BY <2>1, Zenon
<1> QED
  BY <1>2, <1>4, <1>5, <1>6, Zenon DEF NeverOverrun

-----------------------------------------------------------------------------
(***************************************************************************)
(* The software decay estimate stays within one point of the device's     *)
(* queue for every rate, every number of sends and every length of time.   *)
(***************************************************************************)

\* What integer division by the time of a point leaves behind
LEMMA DivisionRest ==
    ASSUME NEW a \in Nat, NEW p \in Nat \ {0}
    PROVE  /\ a \div p \in Nat
           /\ a - (a \div p) * p \in Nat
           /\ a - (a \div p) * p < p
  BY SMTT(30)

\* A point count below another takes at least a point's time less.
LEMMA WholePoints ==
    ASSUME NEW a \in Nat, NEW c \in Nat, NEW p \in Nat \ {0}
    PROVE  /\ a * p \in Nat
           /\ a < c => a * p + p <= c * p
           /\ a >= c => (a - c) * p = a * p - c * p
           /\ a > c => (a - c) * p >= p
  BY SMTT(30)

\* The invariant holds when the estimator is new.
LEMMA DecayStarts ==
    DecayInit => DecayInv
  BY DecayAssumption DEF DecayInit, DecayInv, DecayTypeOK, BookedTime

\* Every step of the estimator and of the device keeps the invariant.
LEMMA DecayStep ==
    DecayInv /\ [DecayNext]_decayVars => DecayInv'
  <1> SUFFICES ASSUME DecayInv, [DecayNext]_decayVars PROVE DecayInv'
      OBVIOUS
  <1> USE DecayAssumption
  <1>1. CASE ResetDecay
      BY <1>1 DEF ResetDecay, DecayInv, DecayTypeOK, BookedTime
  <1>2. CASE TimePasses
      <2>1. fullness_at_anchor * PointTime \in Nat
          BY WholePoints DEF DecayInv, DecayTypeOK
      <2>2. QED
          BY <1>2, <2>1 DEF TimePasses, DecayInv, DecayTypeOK, BookedTime, SaturatingLess
  <1>3. ASSUME NEW n \in 1..MostQueued, SendPoints(n) PROVE DecayInv'
      <2> DEFINE c == Consumed
                 a == fullness_at_anchor
      <2>1. a \in Nat /\ since_anchor \in Nat /\ undrained \in Nat /\ n \in Nat /\ n > 0
          BY DEF DecayInv, DecayTypeOK
      <2>2. /\ c \in Nat
            /\ since_anchor - c * PointTime \in Nat
            /\ since_anchor - c * PointTime < PointTime
          BY <2>1, DivisionRest DEF Consumed
      <2>3. /\ a * PointTime \in Nat /\ c * PointTime \in Nat /\ n * PointTime \in Nat
            /\ n * PointTime >= PointTime
          BY <2>1, <2>2, WholePoints
      <2>4. /\ fullness_at_anchor' = SaturatingLess(a, c) + n
            /\ since_anchor' = since_anchor - c * PointTime
            /\ undrained' = undrained + n * PointTime
          BY <1>3 DEF SendPoints, RecordSend
      <2>5. DecayTypeOK'
          BY <2>1, <2>2, <2>3, <2>4 DEF DecayTypeOK, SaturatingLess
      <2>6. CASE a >= c
          <3>1. fullness_at_anchor' * PointTime = a * PointTime - c * PointTime + n * PointTime
              BY <2>1, <2>2, <2>4, <2>6, SMTT(30) DEF SaturatingLess
          <3>2. BookedTime' = BookedTime + n * PointTime
              BY <2>1, <2>2, <2>3, <2>4, <3>1 DEF BookedTime
          <3>3. BookedTime <= undrained /\ (undrained > 0 => undrained - BookedTime < PointTime)
              BY DEF DecayInv
          <3>4. a * PointTime >= c * PointTime
              BY <2>1, <2>2, <2>6, WholePoints
          <3>5. BookedTime \in Int /\ BookedTime > -PointTime
              BY <2>1, <2>2, <2>3, <3>4 DEF BookedTime
          <3>6. QED
              BY <2>1, <2>3, <2>4, <2>5, <3>2, <3>3, <3>5 DEF DecayInv
      <2>7. CASE a < c
          <3>1. BookedTime \in Int /\ BookedTime <= -PointTime
              BY <2>1, <2>2, <2>3, <2>7, WholePoints DEF BookedTime
          <3>2. undrained = 0
              BY <2>1, <3>1 DEF DecayInv
          <3>3. fullness_at_anchor' = n
              BY <2>1, <2>2, <2>4, <2>7 DEF SaturatingLess
          <3>4. BookedTime' = n * PointTime - (since_anchor - c * PointTime)
              BY <2>4, <3>3 DEF BookedTime
          <3>5. QED
              BY <2>1, <2>2, <2>3, <2>4, <2>5, <3>2, <3>4 DEF DecayInv
      <2>8. QED
          BY <2>1, <2>2, <2>6, <2>7
  <1>4. CASE UNCHANGED decayVars
      BY <1>4 DEF decayVars, DecayInv, DecayTypeOK, BookedTime
  <1>5. QED
      BY <1>1, <1>2, <1>3, <1>4 DEF DecayNext

\* The invariant is what the estimate's exactness rests on.
LEMMA DecayInvExact ==
    DecayInv => EstimateExact
  <1> SUFFICES ASSUME DecayInv PROVE EstimateExact
      OBVIOUS
  <1> USE DecayAssumption
  <1> DEFINE c == Consumed
             a == fullness_at_anchor
  <1>1. a \in Nat /\ since_anchor \in Nat /\ undrained \in Nat
      BY DEF DecayInv, DecayTypeOK
  <1>2. c \in Nat /\ since_anchor - c * PointTime \in Nat /\ since_anchor - c * PointTime < PointTime
      BY <1>1, DivisionRest DEF Consumed
  <1>3. a * PointTime \in Nat /\ c * PointTime \in Nat
      BY <1>1, <1>2, WholePoints
  <1>4. CASE a > c
      <2>1. EstimatedFullness = a - c
          BY <1>1, <1>2, <1>4 DEF EstimatedFullness, SaturatingLess
      <2>2. (a - c) * PointTime = a * PointTime - c * PointTime /\ (a - c) * PointTime >= PointTime
          BY <1>1, <1>2, <1>4, WholePoints
      <2>3. EstimatedFullness * PointTime = a * PointTime - c * PointTime
            /\ EstimatedFullness * PointTime >= PointTime
          BY <2>1, <2>2
      <2>4. BookedTime > 0
          BY <1>1, <1>2, <1>3, <2>2 DEF BookedTime
      <2>5. QED
          BY <1>1, <1>2, <1>3, <2>3, <2>4 DEF EstimateExact, DecayInv, BookedTime
  <1>5. CASE a <= c
      <2>1. EstimatedFullness = 0
          BY <1>1, <1>2, <1>5 DEF EstimatedFullness, SaturatingLess
      <2>2. a * PointTime <= c * PointTime
          BY <1>1, <1>2, <1>5, WholePoints
      <2>3. BookedTime \in Int /\ BookedTime <= 0
          BY <1>1, <1>2, <1>3, <2>2 DEF BookedTime
      <2>4. undrained < PointTime
          BY <1>1, <2>3 DEF DecayInv
      <2>5. QED
          BY <1>1, <2>1, <2>4 DEF EstimateExact
  <1>6. QED
      BY <1>1, <1>2, <1>4, <1>5

\* The estimate of a device without telemetry does not drift: for every rate, and however the sends
\* and the passing of time interleave, it is less than one point from the truth.
THEOREM DecayNeverDrifts ==
    DecaySpec => []EstimateExact
  <1>1. DecaySpec => []DecayInv
      BY DecayStarts, DecayStep, PTL DEF DecaySpec
  <1>2. QED
      BY <1>1, DecayInvExact, PTL

-----------------------------------------------------------------------------
(***************************************************************************)
(* The estimate between two reports.  BiasPerSend says nothing of a device *)
(* that stopped by itself and nothing of the time that was not yet counted, *)
(* so it is not inductive.  StatusInv bounds the time left by the books    *)
(* from both sides: it is never less than what the device needs, and every *)
(* send since the report can have rounded it up by one point.              *)
(***************************************************************************)

AnchorTime == anchor.fullness * StatusPointTime

StatusTypes ==
    /\ anchor \in [fullness : Nat, since : Nat \cup {-1}, playing : BOOLEAN]
    /\ ring \in Nat /\ running \in BOOLEAN /\ unheard \in Nat

StatusBooks ==
    /\ running => ring > 0 /\ anchor.playing
    /\ anchor.since = -1 => anchor.fullness = 0 /\ ~anchor.playing /\ ring = 0
    /\ ~anchor.playing => ring <= AnchorTime /\ AnchorTime < ring + StatusPointTime
    /\ running => /\ ring <= AnchorTime - anchor.since
                  /\ AnchorTime - anchor.since < ring + (unheard + 1) * StatusPointTime

StatusInv == StatusTypes /\ StatusBooks

\* The whole points in a time, rounded up
LEMMA PointsInTime ==
    ASSUME NEW t \in Nat
    PROVE  /\ PointsIn(t) \in Nat
           /\ t <= PointsIn(t) * StatusPointTime /\ PointsIn(t) * StatusPointTime < t + StatusPointTime
<1> DEFINE p == StatusPointTime
           a == t + p - 1
<1>1. p \in Nat \ {0} /\ a \in Nat
  BY StatusAssumption
<1>2. a \div p \in Nat /\ a - (a \div p) * p \in Nat /\ a - (a \div p) * p < p
  BY <1>1, DivisionRest, Zenon
<1>3. PICK q \in Nat : q = a \div p
  BY <1>2
<1>4. PICK m \in Nat : m = q * p
  BY <1>1, <1>3
<1>5. a - m \in Nat /\ a - m < p
  BY <1>2, <1>3, <1>4, Zenon
<1>6. t <= m /\ m < t + p
  BY <1>1, <1>4, <1>5
<1> QED
  BY <1>3, <1>4, <1>6, Zenon DEF PointsIn

\* What read_at returns in its three cases
LEMMA ReadAtCases ==
    /\ anchor.since = -1 => ReadAt = 0
    /\ anchor.since # -1 /\ ~anchor.playing => ReadAt = anchor.fullness
    /\ anchor.since # -1 /\ anchor.playing
         => ReadAt = AtLeastZero(anchor.fullness - (anchor.since \div StatusPointTime))
  BY Zenon DEF ReadAt

\* While the device plays, the reading is the time left by the books in points, rounded up.
LEMMA ReadAtBounds ==
    ASSUME StatusInv
    PROVE  /\ ReadAt \in Nat
           /\ running => /\ AnchorTime - anchor.since <= ReadAt * StatusPointTime
                         /\ ReadAt * StatusPointTime < AnchorTime - anchor.since + StatusPointTime
<1> DEFINE p == StatusPointTime
<1>0. /\ p \in Nat \ {0} /\ anchor.fullness \in Nat /\ anchor.since \in Nat \cup {-1}
      /\ anchor.playing \in BOOLEAN /\ running \in BOOLEAN /\ ring \in Nat
  BY StatusAssumption DEF StatusInv, StatusTypes
<1>1. CASE anchor.since = -1
  BY <1>1, ReadAtCases, Zenon, <1>0 DEF StatusInv, StatusBooks
<1>2. CASE anchor.since # -1 /\ ~anchor.playing
  BY <1>2, ReadAtCases, Zenon, <1>0 DEF StatusInv, StatusBooks
<1>3. CASE anchor.since # -1 /\ anchor.playing
  <2>1. anchor.since \in Nat
    BY <1>0, <1>3
  <2>0. PICK t \in Nat : t = anchor.since
    BY <2>1
  <2>2. PICK c \in Nat : c = anchor.since \div p /\ t - c * p \in Nat /\ t - c * p < p
    BY <1>0, <2>0, DivisionRest, Zenon
  <2>3. ReadAt = AtLeastZero(anchor.fullness - c)
    BY <1>3, <2>2, ReadAtCases, Zenon
  <2>4. ReadAt \in Nat
    BY <1>0, <2>2, <2>3 DEF AtLeastZero
  <2>5. ASSUME running
        PROVE AnchorTime - anchor.since <= ReadAt * p /\ ReadAt * p < AnchorTime - anchor.since + p
    <3>1. anchor.since < AnchorTime
      BY <1>0, <2>1, <2>5 DEF StatusInv, StatusBooks, AnchorTime
    <3>2. PICK f \in Nat : f = anchor.fullness
      BY <1>0
    <3>3. PICK u \in Nat : u = f * p
      BY <1>0, <3>2
    <3>4. PICK v \in Nat : v = c * p
      BY <1>0, <2>2
    <3>5. AnchorTime = u
      BY <3>2, <3>3 DEF AnchorTime
    <3>6. v < u
      BY <2>0, <2>2, <3>1, <3>4, <3>5
    <3>7. f > c
      BY <1>0, <3>3, <3>4, <3>6, WholePoints
    <3>8. (f - c) * p = u - v
      BY <1>0, <3>3, <3>4, <3>7, WholePoints
    <3>9. ReadAt = f - c
      BY <2>3, <3>2, <3>7 DEF AtLeastZero
    <3>10. PICK w \in Nat : w = u - v /\ ReadAt * p = w
      BY <3>6, <3>8, <3>9
    <3> QED
      BY <1>0, <2>0, <2>2, <3>4, <3>5, <3>10
  <2> QED
    BY <2>4, <2>5, Zenon
<1> QED
  BY <1>0, <1>1, <1>2, <1>3, Zenon

\* A new estimator has the invariant.
LEMMA StatusStarts == StatusInit => StatusInv
<1> SUFFICES ASSUME StatusInit PROVE StatusInv
  OBVIOUS
<1>1. anchor = [fullness |-> 0, since |-> -1, playing |-> FALSE] /\ ring = 0 /\ running = FALSE /\ unheard = 0
  BY DEF StatusInit, NewAnchor
<1>2. anchor.fullness = 0 /\ anchor.since = -1 /\ anchor.playing = FALSE
  BY <1>1, Zenon
<1>3. AnchorTime = 0 /\ 0 < StatusPointTime /\ StatusPointTime \in Nat
  BY <1>2, StatusAssumption DEF AnchorTime
<1>4. StatusTypes
  <2>1. 0 \in Nat /\ -1 \in Nat \cup {-1} /\ FALSE \in BOOLEAN
    OBVIOUS
  <2> QED
    BY <1>1, <2>1, Zenon DEF StatusTypes
<1>5. StatusBooks
  BY <1>1, <1>2, <1>3 DEF StatusBooks
<1> QED
  BY <1>4, <1>5 DEF StatusInv

\* Faithful to the anchor that an action sets, and to what the device holds then
LEMMA StatusSendKeeps ==
    ASSUME StatusInv, NEW n \in 1..MostHeld, StatusSend(n)
    PROVE  StatusInv'
<1> DEFINE p == StatusPointTime
<1>0. /\ p \in Nat \ {0} /\ anchor.fullness \in Nat /\ anchor.since \in Nat \cup {-1} /\ n \in Nat
      /\ anchor.playing \in BOOLEAN /\ running \in BOOLEAN /\ ring \in Nat /\ unheard \in Nat
  BY StatusAssumption DEF StatusInv, StatusTypes
<1>1. PICK r \in Nat : r = ReadAt
  BY ReadAtBounds, Zenon
<1>2. anchor' = [anchor EXCEPT !.fullness = r + n, !.since = 0] /\ running' = running
  BY <1>1, Zenon DEF StatusSend, StatusRecordSend
<1>3. anchor \in [fullness : Nat, since : Nat \cup {-1}, playing : BOOLEAN]
  BY Zenon DEF StatusInv, StatusTypes
<1>4. anchor'.fullness = r + n /\ anchor'.since = 0 /\ anchor'.playing = anchor.playing
      /\ anchor' = [fullness |-> r + n, since |-> 0, playing |-> anchor.playing]
  BY <1>2, <1>3, Zenon
<1>5. PICK k \in Nat : k = n * p
  BY <1>0
<1>6. ring' = ring + k /\ unheard' = unheard + 1
  BY <1>5, Zenon DEF StatusSend
<1>7. StatusTypes'
  BY <1>0, <1>1, <1>2, <1>4, <1>6 DEF StatusTypes
<1>8. PICK m \in Nat : m = r * p
  BY <1>0
<1>9. AnchorTime' = m + k
  BY <1>0, <1>4, <1>5, <1>8, StatusAssumption, SMTT(30) DEF AnchorTime
<1>10. ASSUME ~anchor.playing PROVE ring <= m /\ m < ring + p
  <2>1. CASE anchor.since = -1
    <3>1. r = 0 /\ ring = 0
      BY <1>1, <2>1, ReadAtCases, Zenon DEF StatusInv, StatusBooks
    <3> QED
      BY <1>0, <1>8, <3>1
  <2>2. CASE anchor.since # -1
    <3>1. r = anchor.fullness
      BY <1>1, <1>10, <2>2, ReadAtCases, Zenon
    <3>2. AnchorTime = m
      BY <1>8, <3>1, Zenon DEF AnchorTime
    <3> QED
      BY <1>10, <3>2, Zenon DEF StatusInv, StatusBooks
  <2> QED
    BY <2>1, <2>2
<1>11. PICK u \in Nat : u = unheard * p
  BY <1>0
<1>12. (unheard + 1) * p = u + p /\ (unheard' + 1) * p = u + p + p
  BY <1>0, <1>6, <1>11, SMTT(30)
<1>13. ASSUME running PROVE ring <= m /\ m < ring + u + p + p /\ ring > 0 /\ anchor.playing
  <2>1. AnchorTime - anchor.since <= m /\ m < AnchorTime - anchor.since + p
    BY <1>1, <1>8, <1>13, ReadAtBounds, Zenon
  <2>2. ring <= AnchorTime - anchor.since /\ AnchorTime - anchor.since < ring + (u + p) /\ ring > 0 /\ anchor.playing
    BY <1>12, <1>13, Zenon DEF StatusInv, StatusBooks
  <2>3. anchor.since \in Int /\ AnchorTime \in Int
    BY <1>0 DEF AnchorTime
  <2>4. PICK b \in Int : b = AnchorTime - anchor.since
    BY <2>3
  <2> QED
    BY <1>0, <1>8, <1>11, <2>1, <2>2, <2>4
<1>14. StatusBooks'
  <2>1. anchor'.playing = anchor.playing /\ running' = running /\ anchor'.since = 0 /\ p' = p
    BY <1>2, <1>4
  <2>2. ~anchor.playing => ring' <= AnchorTime' /\ AnchorTime' < ring' + p
    BY <1>0, <1>5, <1>6, <1>8, <1>9, <1>10
  <2>3. running => ring' > 0 /\ anchor.playing
    BY <1>0, <1>5, <1>6, <1>13
  <2>4. running => ring' <= AnchorTime' - 0 /\ AnchorTime' - 0 < ring' + (unheard' + 1) * p
    BY <1>0, <1>5, <1>6, <1>8, <1>9, <1>11, <1>12, <1>13
  <2>5. 0 # -1
    OBVIOUS
  <2> QED
    BY <2>1, <2>2, <2>3, <2>4, <2>5, Zenon DEF StatusBooks
<1> QED
  BY <1>7, <1>14, Zenon DEF StatusInv

\* A report, a reset, and the passing of time
LEMMA StatusReportKeeps ==
    ASSUME StatusInv, NEW plays \in BOOLEAN, RecordStatus(plays)
    PROVE  StatusInv'
<1> DEFINE p == StatusPointTime
<1>0. p \in Nat \ {0} /\ ring \in Nat
  BY StatusAssumption DEF StatusInv, StatusTypes
<1>1. PICK f \in Nat : f = PointsIn(ring) /\ ring <= f * p /\ f * p < ring + p
  BY <1>0, PointsInTime, Zenon
<1>2. PICK on \in BOOLEAN : on = (plays /\ ring > 0)
  BY Zenon
<1>3. running' = on /\ anchor' = [fullness |-> f, since |-> 0, playing |-> on] /\ unheard' = 0 /\ ring' = ring
  BY <1>1, <1>2, Zenon DEF RecordStatus
<1>4. anchor'.fullness = f /\ anchor'.since = 0 /\ anchor'.playing = on
  BY <1>3, Zenon
<1>5. StatusTypes'
  BY <1>0, <1>3 DEF StatusTypes
<1>6. PICK u \in Nat : u = f * p
  BY <1>0
<1>7. AnchorTime' = u
  BY <1>4, <1>6 DEF AnchorTime
<1>8. (unheard' + 1) * p = p
  BY <1>0, <1>3
<1>9. StatusBooks'
  <2>1. ring' <= AnchorTime' - 0 /\ AnchorTime' - 0 < ring' + (unheard' + 1) * p
        /\ ring' <= AnchorTime' /\ AnchorTime' < ring' + p
    BY <1>0, <1>1, <1>3, <1>6, <1>7, <1>8
  <2>2. 0 # -1 /\ p' = p
    OBVIOUS
  <2>3. running' => ring' > 0
    BY <1>2, <1>3, Zenon
  <2> QED
    BY <1>3, <1>4, <2>1, <2>2, <2>3, Zenon DEF StatusBooks
<1> QED
  BY <1>5, <1>9, Zenon DEF StatusInv

\* A tick of time keeps the invariant.
LEMMA StatusTickKeeps ==
    ASSUME StatusInv, StatusTick
    PROVE  StatusInv'
<1> DEFINE p == StatusPointTime
<1>0. /\ p \in Nat \ {0} /\ anchor.fullness \in Nat /\ anchor.since \in Nat \cup {-1}
      /\ anchor.playing \in BOOLEAN /\ running \in BOOLEAN /\ ring \in Nat /\ unheard \in Nat
  BY StatusAssumption DEF StatusInv, StatusTypes
<1>1. PICK t \in Nat \cup {-1} : t = IF anchor.since = -1 THEN anchor.since ELSE anchor.since + 1
  BY <1>0
<1>2. anchor' = [anchor EXCEPT !.since = t]
  BY <1>1, Zenon DEF StatusTick
<1>2a. unheard' = unheard
  BY DEF StatusTick
<1>3. anchor \in [fullness : Nat, since : Nat \cup {-1}, playing : BOOLEAN]
  BY Zenon DEF StatusInv, StatusTypes
<1>4. anchor'.fullness = anchor.fullness /\ anchor'.since = t /\ anchor'.playing = anchor.playing
      /\ anchor' = [fullness |-> anchor.fullness, since |-> t, playing |-> anchor.playing]
  BY <1>2, <1>3, Zenon
<1>5. PICK k \in Nat : k = IF running THEN AtLeastZero(ring - 1) ELSE ring
  BY <1>0 DEF AtLeastZero
<1>6. ring' = k
  BY <1>5, Zenon DEF StatusTick
<1>7. PICK on \in BOOLEAN : on = (running /\ ring > 1)
  BY Zenon
<1>8. running' = on
  BY <1>7, Zenon DEF StatusTick
<1>9. StatusTypes'
  BY <1>0, <1>2a, <1>4, <1>6, <1>8, Zenon DEF StatusTypes
<1>10. PICK u \in Nat : u = AnchorTime
  BY <1>0 DEF AnchorTime
<1>11. AnchorTime' = u
  BY <1>4, <1>10, Zenon DEF AnchorTime
<1>12. on => running /\ k > 0 /\ k = ring - 1
  <2>1. on => running /\ ring > 1
    BY <1>7, Zenon
  <2>2. running /\ ring > 1 => k > 0 /\ k = ring - 1
    BY <1>0, <1>5 DEF AtLeastZero
  <2> QED
    BY <2>1, <2>2, Zenon
<1>13. running => ring > 0 /\ anchor.playing /\ anchor.since # -1
  BY Zenon DEF StatusInv, StatusBooks
<1>14. PICK b \in Nat : b = (unheard + 1) * p
  BY <1>0
<1>15. on => k <= u - t /\ u - t < k + b
  <2> SUFFICES ASSUME on PROVE k <= u - t /\ u - t < k + b
    OBVIOUS
  <2>1. running /\ k = ring - 1 /\ anchor.since # -1
    BY <1>12, <1>13
  <2>2. ring <= u - anchor.since /\ u - anchor.since < ring + b
    BY <1>10, <1>14, <2>1, Zenon DEF StatusInv, StatusBooks
  <2>3. t = anchor.since + 1 /\ anchor.since \in Nat
    BY <1>0, <1>1, <2>1
  <2> QED
    BY <1>0, <2>1, <2>2, <2>3
<1>16. ~anchor.playing => k = ring /\ k <= u /\ u < k + p
  <2>1. ~anchor.playing => ~running /\ ring <= u /\ u < ring + p
    BY <1>10, Zenon DEF StatusInv, StatusBooks
  <2> QED
    BY <1>5, <2>1
<1>17. t = -1 => anchor.since = -1
  BY <1>0, <1>1
<1>18. StatusBooks'
  <2>1. running' => ring' > 0 /\ anchor'.playing
    BY <1>4, <1>6, <1>8, <1>12, <1>13, Zenon
  <2>2. anchor'.since = -1 => anchor'.fullness = 0 /\ ~anchor'.playing /\ ring' = 0
    <3>1. anchor.since = -1 => anchor.fullness = 0 /\ ~anchor.playing /\ ring = 0
      BY Zenon DEF StatusInv, StatusBooks
    <3> QED
      BY <1>4, <1>6, <1>16, <1>17, <3>1, Zenon
  <2>3. ~anchor'.playing => ring' <= AnchorTime' /\ AnchorTime' < ring' + p
    BY <1>4, <1>6, <1>11, <1>16, Zenon
  <2>4. running' => ring' <= AnchorTime' - anchor'.since /\ AnchorTime' - anchor'.since < ring' + (unheard' + 1) * p
    BY <1>2a, <1>4, <1>6, <1>8, <1>11, <1>14, <1>15, Zenon
  <2> QED
    BY <2>1, <2>2, <2>3, <2>4, Zenon DEF StatusBooks
<1> QED
  BY <1>9, <1>18, Zenon DEF StatusInv

\* Every step of the status estimator keeps the invariant.
LEMMA StatusStep == StatusInv /\ [StatusNext]_statusVars => StatusInv'
<1> SUFFICES ASSUME StatusInv, [StatusNext]_statusVars PROVE StatusInv'
  OBVIOUS
<1>1. CASE StatusReset
  <2>1. StatusInit'
    BY <1>1, Zenon DEF StatusReset, StatusInit, NewAnchor
  <2>2. (StatusInit => StatusInv)'
    BY StatusStarts, PTL
  <2> QED
    BY <2>1, <2>2
<1>2. CASE UNCHANGED statusVars
  BY <1>2, Zenon DEF statusVars, StatusInv, StatusTypes, StatusBooks, AnchorTime
<1> QED
  BY <1>1, <1>2, StatusTickKeeps, StatusSendKeeps, StatusReportKeeps, Zenon DEF StatusNext

\* The invariant is stronger than BiasPerSend.
LEMMA StatusInvBias == StatusInv => BiasPerSend
<1> SUFFICES ASSUME StatusInv, anchor.since # -1, anchor.playing = running
             PROVE  /\ ring < (ReadAt + 1) * StatusPointTime
                    /\ ReadAt * StatusPointTime < ring + (unheard + 2) * StatusPointTime
  BY Zenon DEF BiasPerSend
<1> DEFINE p == StatusPointTime
<1>0. /\ p \in Nat \ {0} /\ anchor.fullness \in Nat /\ anchor.since \in Nat \cup {-1}
      /\ anchor.playing \in BOOLEAN /\ running \in BOOLEAN /\ ring \in Nat /\ unheard \in Nat
  BY StatusAssumption DEF StatusInv, StatusTypes
<1>1. PICK r \in Nat : r = ReadAt
  BY ReadAtBounds, Zenon
<1>2. PICK m \in Nat : m = r * p
  BY <1>0
<1>3. PICK u \in Nat : u = unheard * p
  BY <1>0
<1>4. (unheard + 1) * p = u + p /\ (unheard + 2) * p = u + p + p /\ (r + 1) * p = m + p
  BY <1>0, <1>2, <1>3, SMTT(30)
<1>5. ring <= m /\ m < ring + u + p + p
  <2>1. CASE running
    <3>1. AnchorTime - anchor.since <= m /\ m < AnchorTime - anchor.since + p
      BY <1>1, <1>2, <2>1, ReadAtBounds, Zenon
    <3>2. ring <= AnchorTime - anchor.since /\ AnchorTime - anchor.since < ring + (u + p)
      BY <1>4, <2>1, Zenon DEF StatusInv, StatusBooks
    <3>3. PICK b \in Int : b = AnchorTime - anchor.since
      BY <1>0 DEF AnchorTime
    <3> QED
      BY <1>0, <1>2, <1>3, <3>1, <3>2, <3>3
  <2>2. CASE ~running
    <3>1. r = anchor.fullness
      BY <1>1, <2>2, ReadAtCases, Zenon
    <3>2. AnchorTime = m
      BY <1>2, <3>1, Zenon DEF AnchorTime
    <3>3. ring <= m /\ m < ring + p
      BY <2>2, <3>2, Zenon DEF StatusInv, StatusBooks
    <3> QED
      BY <1>0, <1>2, <1>3, <3>3
  <2> QED
    BY <2>1, <2>2
<1> QED
  BY <1>0, <1>1, <1>2, <1>3, <1>4, <1>5

\* The estimates keep their bounds for any capacity, loss and rate and for delays up to the latency adjustment:
\* the status estimate is never a point short and off by a point for each send at most; what the
\* acknowledged one lets its user send overruns the device only by what was sent and not yet in the device
\* when the estimate was anchored, which is nothing unless sends shared an Instant or a number, packets
\* overtook one another, or a reset found some under way (StatusDecayEstimator, DualTrackAckEstimator).
THEOREM EstimatorsSafe == StatusSpec /\ AckedSpec => []EstimatesSafe
<1>1. StatusSpec => []StatusInv
  BY StatusStarts, StatusStep, PTL DEF StatusSpec
<1>2. AckedSpec => []AckedInv
  <2>1. AckedInit => AckedInv
    BY AckedStarts
  <2> QED
    BY <2>1, AckedStep, PTL DEF AckedSpec
<1>3. StatusInv /\ AckedInv => EstimatesSafe
  BY StatusInvBias, AckedInvSafe, Zenon DEF EstimatesSafe
<1> QED
  BY <1>1, <1>2, <1>3, PTL

===============================================================================
