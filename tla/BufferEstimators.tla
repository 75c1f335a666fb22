--------------------------- MODULE BufferEstimators ---------------------------
(***************************************************************************)
(* The three estimators of how full a device is (buffer_estimate), each    *)
(* with a device of the kind that it is for.                               *)
(***************************************************************************)
EXTENDS Integers, Sequences

-----------------------------------------------------------------------------
(***************************************************************************)
(* SoftwareDecayEstimator (buffer_estimate/software_decay.rs): the fullness *)
(* of a device that says nothing, from what was sent and the time since.   *)
(* The device plays one point in PointTime units of time, at a rate that   *)
(* stays the same; `undrained` is what it holds, in units of playing time. *)
(* The floating-point arithmetic of the code is exact here.                *)
(***************************************************************************)

CONSTANTS
    PointTime,  \* 1 / pps
    MostQueued, \* points queued at once
    LongestGap  \* the time that may pass between two sends

ASSUME DecayAssumption ==
    /\ PointTime \in Nat \ {0}
    /\ MostQueued \in Nat
    /\ LongestGap \in Nat

VARIABLES
    fullness_at_anchor,
    since_anchor,  \* now - anchor_time
    undrained

decayVars == <<fullness_at_anchor, since_anchor, undrained>>

SaturatingLess(a, b) == IF a < b THEN 0 ELSE a - b

DecayTypeOK ==
    /\ fullness_at_anchor \in Nat
    /\ since_anchor \in Nat
    /\ undrained \in Nat

DecayInit ==
    /\ fullness_at_anchor = 0
    /\ since_anchor = 0
    /\ undrained = 0

Consumed == since_anchor \div PointTime

\* read_at
EstimatedFullness == SaturatingLess(fullness_at_anchor, Consumed)

\* Faulty variant: the anchor moves all the way to now.
RecordSendToNow(n) ==
    /\ fullness_at_anchor' = EstimatedFullness + n
    /\ since_anchor' = 0
    /\ undrained' = undrained + n * PointTime

\* The anchor moves by the time of the points consumed, so the rest of a point stays.
RecordSend(n) ==
    /\ fullness_at_anchor' = SaturatingLess(fullness_at_anchor, Consumed) + n
    /\ since_anchor' = since_anchor - Consumed * PointTime
    /\ undrained' = undrained + n * PointTime

SendPoints(n) == (EstimatedFullness + n <= MostQueued) /\ RecordSend(n)

\* reset, on connecting and on a stop, which empties the device
ResetDecay ==
    /\ fullness_at_anchor' = 0
    /\ since_anchor' = 0
    /\ undrained' = 0

TimePasses ==
    /\ since_anchor < LongestGap
    /\ since_anchor' = since_anchor + 1
    /\ undrained' = SaturatingLess(undrained, 1)
    /\ UNCHANGED fullness_at_anchor

DecayNext == ResetDecay \/ TimePasses \/ \E n \in 1..MostQueued : SendPoints(n)

DecaySpec == DecayInit /\ [][DecayNext]_decayVars

\* record_send and read_at: however often points are sent, the estimate is less than one point away
\* from what the device holds, and is zero when the device is empty.
EstimateExact ==
    /\ EstimatedFullness * PointTime < undrained + PointTime
    /\ undrained < EstimatedFullness * PointTime + PointTime
    /\ undrained = 0 => EstimatedFullness = 0

\* The inductive invariant: the time left by the books is never more than what the device needs, and
\* while the device plays it is behind by less than one point.
BookedTime == fullness_at_anchor * PointTime - since_anchor

DecayInv ==
    /\ DecayTypeOK
    /\ BookedTime <= undrained
    /\ undrained > 0 => undrained - BookedTime < PointTime

-----------------------------------------------------------------------------
(***************************************************************************)
(* StatusDecayEstimator (buffer_estimate/status_decay.rs): reports anchor  *)
(* the estimate, and between them it decays while the device plays.  The   *)
(* device plays a point in StatusPointTime units of time; it starts and    *)
(* stops by commands whose reply is a report, and stops when it is empty.  *)
(***************************************************************************)

CONSTANTS
    StatusPointTime,
    MostSent,    \* sends without a report in between
    MostHeld     \* points the device holds

ASSUME StatusAssumption == StatusPointTime \in Nat \ {0} /\ MostSent \in Nat /\ MostHeld \in Nat

VARIABLES
    anchor,   \* [fullness, since, playing]; since is -1 for no anchor_time
    ring,     \* what the device holds, in units of playing time
    running,  \* the device plays
    unheard   \* sends since the last report

statusVars == <<anchor, ring, running, unheard>>

PointsIn(time) == (time + StatusPointTime - 1) \div StatusPointTime
AtLeastZero(n) == IF n < 0 THEN 0 ELSE n

NewAnchor == [fullness |-> 0, since |-> -1, playing |-> FALSE]

StatusInit ==
    /\ anchor = NewAnchor
    /\ ring = 0 /\ running = FALSE /\ unheard = 0

ReadAt ==
    CASE anchor.since = -1 -> 0
      [] anchor.since # -1 /\ ~anchor.playing -> anchor.fullness
      [] OTHER -> AtLeastZero(anchor.fullness - (anchor.since \div StatusPointTime))

StatusRecordSend(n) ==
    anchor' = [anchor EXCEPT !.fullness = ReadAt + n, !.since = 0]

StatusSend(n) ==
    /\ unheard < MostSent /\ PointsIn(ring) + n <= MostHeld
    /\ StatusRecordSend(n)
    /\ ring' = ring + n * StatusPointTime
    /\ unheard' = unheard + 1
    /\ UNCHANGED running

\* record_status and set_playing, with a reply to a command that may start or stop the device
RecordStatus(plays) ==
    /\ running' = (plays /\ ring > 0)
    /\ anchor' = [fullness |-> PointsIn(ring), since |-> 0, playing |-> running']
    /\ unheard' = 0
    /\ UNCHANGED ring

StatusReset ==
    /\ anchor' = NewAnchor
    /\ ring' = 0 /\ running' = FALSE /\ unheard' = 0

StatusTick ==
    /\ running \/ anchor.since < 1
    /\ ring' = IF running THEN AtLeastZero(ring - 1) ELSE ring
    /\ running' = (running /\ ring > 1)
    /\ anchor' = [anchor EXCEPT !.since = IF @ = -1 THEN @ ELSE @ + 1]
    /\ UNCHANGED unheard

StatusNext ==
    \/ StatusReset \/ StatusTick
    \/ \E n \in 1..MostHeld : StatusSend(n)
    \/ \E plays \in BOOLEAN : RecordStatus(plays)

StatusSpec == StatusInit /\ [][StatusNext]_statusVars

\* read_at and record_send: while the device goes on as last reported the estimate is never a point
\* short; a report in whole points, the reading and each send since the report put less than a point
\* too much into it.  record_send does not rebase as that of SoftwareDecayEstimator does, although its
\* comment says so: it moves the anchor to now, and what is left of a point is counted again.
BiasPerSend ==
    (anchor.since # -1 /\ anchor.playing = running) =>
        /\ ring < (ReadAt + 1) * StatusPointTime
        /\ ReadAt * StatusPointTime < ring + (unheard + 2) * StatusPointTime

-----------------------------------------------------------------------------
(***************************************************************************)
(* DualTrackAckEstimator (buffer_estimate/dual_track_ack.rs) with a user   *)
(* that sends what it may, the network and the device.  Packets and        *)
(* acknowledgements take up to MaxDelay, overtake each other and may be    *)
(* lost, an acknowledgement may come twice, several packets may be sent at *)
(* one Instant, and a message number may return while an older message or  *)
(* its acknowledgement is under way.  The device plays one point a tick.   *)
(* An Instant is its age; -1 stands for None.                              *)
(***************************************************************************)

CONSTANTS
    AckCapacity,
    LATENCY_POINT_ADJUSTMENT,
    MIN_SENDABLE_POINTS,
    STALE_ENTRY_TIMEOUT,
    MessageNumbers,  \* 256 in the code
    MaxDelay,        \* ticks a datagram travels
    MostLetters,     \* packets and acknowledgements under way
    MostLeft,        \* points counted as `left`
    OldestAge        \* ages are counted up to here

ASSUME DualTrackAssumption ==
    /\ {AckCapacity, LATENCY_POINT_ADJUSTMENT, MIN_SENDABLE_POINTS, MessageNumbers} \subseteq Nat \ {0}
    /\ MaxDelay \in 0..LATENCY_POINT_ADJUSTMENT
    /\ {STALE_ENTRY_TIMEOUT, MostLetters, MostLeft} \subseteq Nat
    /\ OldestAge \in Nat /\ OldestAge >= AckCapacity /\ OldestAge >= STALE_ENTRY_TIMEOUT
    /\ OldestAge > 2 * MaxDelay

VARIABLES
    sentTrack,      \* last_data_sent_time and last_data_sent_buffer_size: [age, size]
    ackTrack,       \* last_ack_time and last_reported_buffer_fullness: [age, size]
    message_times,  \* the age of each message that is still in the map, or -1
    next_number,
    packets,        \* [number, points, age], on their way to the device, in the order sent
    ackReplies,     \* [number, free, age, left], on their way back
    device,         \* points in the device
    under_way,      \* the points of `packets`
    unseen,         \* points sent, but not in the device, when the sent track was last anchored
    disorder        \* a tie, an overtaking, a number in use or a reset too early has happened

trackVars == <<sentTrack, ackTrack, message_times>>
ackedVars == <<trackVars, next_number, packets, ackReplies, device, under_way, unseen, disorder>>

NoTrack == [age |-> -1, size |-> 0]
FloorZero(n) == IF n < 0 THEN 0 ELSE n
Larger(a, b) == IF a < b THEN b ELSE a
Smaller(a, b) == IF a < b THEN a ELSE b
Without(s, i) == [j \in 1..(Len(s) - 1) |-> IF j < i THEN s[j] ELSE s[j + 1]]

AckedInit ==
    /\ sentTrack = NoTrack /\ ackTrack = NoTrack
    /\ message_times = [m \in 0..(MessageNumbers - 1) |-> -1]
    /\ next_number = 0
    /\ packets = <<>> /\ ackReplies = <<>> /\ device = 0
    /\ under_way = 0 /\ unseen = 0 /\ disorder = FALSE

-------------------------------------------------------------------------------
(* The estimator *)

EstimateBy(track) == IF track.age = -1 THEN 0 ELSE FloorZero(track.size - track.age)

EstimatedBufferFullness == Larger(EstimateBy(sentTrack), EstimateBy(ackTrack))

MaxPointsToAdd ==
    FloorZero(FloorZero(AckCapacity - EstimatedBufferFullness) - LATENCY_POINT_ADJUSTMENT)

CanSend == MaxPointsToAdd >= MIN_SENDABLE_POINTS

RecordPacket(number, points) ==
    /\ sentTrack' = [age |-> 0, size |-> Smaller(EstimatedBufferFullness + points, AckCapacity)]
    /\ message_times' = [message_times EXCEPT ![number] = 0]
    /\ UNCHANGED ackTrack

CleanupStaleEntries(times) ==
    [m \in DOMAIN times |-> IF times[m] >= STALE_ENTRY_TIMEOUT THEN -1 ELSE times[m]]

\* The message is in the map, and none was sent at a later Instant.
Newest(number) ==
    LET sent_age == message_times[number]
    IN sent_age # -1 /\ (sentTrack.age = -1 \/ sent_age <= sentTrack.age)

\* Faulty variant: the acknowledgement of any message anchors the sent track.
RecordAckAny(number, free) ==
    LET reported == [age |-> 0, size |-> AckCapacity - free]
        sent_age == message_times[number]
    IN /\ sentTrack' = IF sent_age # -1 THEN [reported EXCEPT !.age = sent_age] ELSE sentTrack
       /\ message_times' = CleanupStaleEntries([message_times EXCEPT ![number] = -1])
       /\ ackTrack' = reported

\* Only the acknowledgement of a newest message anchors the sent track, at the time it was sent.
RecordAck(number, free) ==
    LET reported == [age |-> 0, size |-> AckCapacity - free]
        sent_age == message_times[number]
    IN /\ sentTrack' = IF Newest(number) THEN [reported EXCEPT !.age = sent_age] ELSE sentTrack
       /\ message_times' = CleanupStaleEntries([message_times EXCEPT ![number] = -1])
       /\ ackTrack' = reported

-------------------------------------------------------------------------------
(* The user of the estimator, the network and the device *)

InUse(number) ==
    \E letters \in {packets, ackReplies} : \E i \in DOMAIN letters : letters[i].number = number

SendPacket(points) ==
    /\ Len(packets) + Len(ackReplies) < MostLetters
    /\ \A i \in DOMAIN ackReplies : ackReplies[i].left + points <= MostLeft
    /\ CanSend /\ points <= MaxPointsToAdd
    /\ RecordPacket(next_number, points)
    /\ next_number' = (next_number + 1) % MessageNumbers
    /\ packets' = Append(packets, [number |-> next_number, points |-> points, age |-> 0])
    /\ ackReplies' = [i \in DOMAIN ackReplies |-> [ackReplies[i] EXCEPT !.left = @ + points]]
    /\ under_way' = under_way + points
    /\ disorder' = (disorder \/ sentTrack.age = 0 \/ InUse(next_number))
    /\ UNCHANGED <<device, unseen>>

\* The device drops what it has no room for.
DeviceTakes(i) ==
    LET p == packets[i]
    IN /\ packets' = Without(packets, i)
       /\ device' = Smaller(device + p.points, AckCapacity)
       /\ under_way' = under_way - p.points
       /\ ackReplies' = Append(ackReplies, [number |-> p.number, free |-> AckCapacity - device',
                                            age |-> 0, left |-> under_way'])
       /\ disorder' = (disorder \/ i # 1)
       /\ UNCHANGED <<trackVars, next_number, unseen>>

PacketLost(i) ==
    /\ packets' = Without(packets, i)
    /\ under_way' = under_way - packets[i].points
    /\ UNCHANGED <<trackVars, next_number, ackReplies, device, unseen, disorder>>

\* `again`: it will come once more.
AckArrives(i, again) ==
    LET r == ackReplies[i]
    IN /\ ackReplies' = IF again THEN ackReplies ELSE Without(ackReplies, i)
       /\ RecordAck(r.number, r.free)
       /\ unseen' = IF Newest(r.number) THEN r.left ELSE unseen
       /\ UNCHANGED <<next_number, packets, device, under_way, disorder>>

AckLost(i) ==
    /\ ackReplies' = Without(ackReplies, i)
    /\ UNCHANGED <<trackVars, next_number, packets, device, under_way, unseen, disorder>>

\* reset, after clearing the device buffer; packets and acknowledgements may still be on their way.
ResetTracks ==
    /\ sentTrack' = NoTrack /\ ackTrack' = NoTrack
    /\ message_times' = [m \in DOMAIN message_times |-> -1]
    /\ device' = 0 /\ unseen' = under_way
    /\ disorder' = (disorder \/ packets # <<>>)
    /\ UNCHANGED <<next_number, packets, ackReplies, under_way>>

Older(age) == IF age = -1 THEN -1 ELSE Smaller(age + 1, OldestAge)
Aged(letters) == [i \in DOMAIN letters |-> [letters[i] EXCEPT !.age = @ + 1]]

ClockTicks ==
    /\ \A letters \in {packets, ackReplies} : \A i \in DOMAIN letters : letters[i].age < MaxDelay
    /\ sentTrack' = [sentTrack EXCEPT !.age = Older(@)]
    /\ ackTrack' = [ackTrack EXCEPT !.age = Older(@)]
    /\ message_times' = [m \in DOMAIN message_times |-> Older(message_times[m])]
    /\ packets' = Aged(packets) /\ ackReplies' = Aged(ackReplies)
    /\ device' = FloorZero(device - 1)
    /\ UNCHANGED <<next_number, under_way, unseen, disorder>>

AckedNext ==
    \/ ResetTracks \/ ClockTicks
    \/ \E points \in 1..AckCapacity : SendPacket(points)
    \/ \E i \in DOMAIN packets : DeviceTakes(i) \/ PacketLost(i)
    \/ \E i \in DOMAIN ackReplies : AckLost(i) \/ \E again \in BOOLEAN : AckArrives(i, again)

AckedSpec == AckedInit /\ [][AckedNext]_ackedVars

\* estimated_buffer_fullness and max_points_to_add, for a user that sends no more than it may and
\* whatever is lost, late, repeated or overtaken: the device has room for all that is under way, and
\* the estimate is short by no more than the delay, but for the points that were under way when the
\* acknowledgement that anchored the sent track was written (send_time >= t lets one of an older
\* message do it).  There are none while packets arrive in order, no two are sent at one Instant and
\* no number or reset comes back too early.
NeverOverrun ==
    /\ device + under_way <= AckCapacity + unseen
    /\ device <= EstimatedBufferFullness + MaxDelay + unseen
    /\ unseen > 0 => disorder

\* StatusDecayEstimator and DualTrackAckEstimator: the estimates are off by no more than what was
\* rounded or is under way, so that a user who goes by them never overruns the device.
EstimatesSafe == BiasPerSend /\ NeverOverrun

===============================================================================
