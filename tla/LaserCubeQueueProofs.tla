------------------------- MODULE LaserCubeQueueProofs -------------------------
(*****************************************************************************)
(* The queue of the worker is what was written since the last purge, each    *)
(* point once and in order, and no reservation leaks (QueueSound); an ACK    *)
(* moves the estimate exactly if it is news, and no packet is counted in     *)
(* flight that was acknowledged (AcksSound).                                 *)
(*                                                                           *)
(* QueueInv adds the generations of the commands the worker has yet to see.  *)
(* AckInv adds that what is under way is recent: a packet is overtaken by at *)
(* most MaxDelay others, so half the sequence numbers tell old from new.     *)
(*****************************************************************************)
EXTENDS LaserCubeProofs

-------------------------------------------------------------------------------
(* The queue *)

\* The generation the worker will have reached after i of the commands posted to it
GenAfter(gen, posts, i) == IF i = 0 THEN gen ELSE posts[i].gen

\* A command to open the output does not start a generation, and the last command posted brings
\* the worker to the handle's.
GenInv ==
    /\ \A i \in 1..Len(priority_tx) :
           priority_tx[i].kind = "on" =>
               GenAfter(active_generation, priority_tx, i) = GenAfter(active_generation, priority_tx, i - 1)
    /\ pc # "exited" => GenAfter(active_generation, priority_tx, Len(priority_tx)) = generation

QueueInv == TypeInv /\ GenInv /\ QueueIsCurrent /\ QueueInOrder /\ NoLeakedReservation

\* Every step keeps the generations of the commands in order.
LEMMA GenStep == ASSUME TypeInv, GenInv, [Next]_vars PROVE GenInv'
<1> USE DEF handleVars, estimateVars, sharedVars, workerVars, netVars, deviceVars, histVars
<1> DEFINE Posts == [kind : {"on", "off", "stop", "shutdown"}, gen : 0..MaxGen]
<1>01. generation \in 0..MaxGen /\ priority_tx \in Seq(Posts) /\ Len(priority_tx) \in Nat
  BY LenProperties DEF TypeInv, HandleTypes
<1>02. PICK n \in Nat : n = Len(priority_tx)
  BY <1>01, Zenon
<1>0. generation \in 0..MaxGen /\ priority_tx \in Seq(Posts) /\ n \in Nat /\ n = Len(priority_tx)
  BY <1>01, <1>02
<1>1. CASE /\ UNCHANGED <<generation, priority_tx, active_generation>>
           /\ pc' # "exited" => pc # "exited"
  BY <1>1 DEF GenInv, GenAfter
<1>2. ASSUME NEW kind \in {"on", "off", "stop", "shutdown"}, SendPriority(kind) PROVE GenInv'
  <2>1. UNCHANGED <<active_generation, pc>>
    BY <1>2 DEF SendPriority
  <2>2. CASE pc = "exited"
    <3>1. priority_tx' = priority_tx
      BY <1>2, <2>2 DEF SendPriority
    <3> QED
      BY <2>1, <2>2, <3>1 DEF GenInv, GenAfter
  <2>3. CASE pc # "exited"
    <3>1. PICK g \in 0..MaxGen : generation' = g /\ (kind = "on" => g = generation)
      <4>1. HandleTypes' => generation' \in 0..MaxGen
        BY DEF HandleTypes
      <4>2. generation' \in 0..MaxGen
        BY <1>0, <1>2, Bounds DEF SendPriority
      <4> QED
        BY <1>2, <4>2 DEF SendPriority
    <3> DEFINE c == [kind |-> kind, gen |-> g]
    <3>2. priority_tx' = Append(priority_tx, c) /\ c \in Posts /\ c.kind = kind /\ c.gen = g
      BY <1>2, <2>3, <3>1 DEF SendPriority
    <3> HIDE DEF c, Posts
    <3>3. /\ Len(priority_tx') = n + 1
          /\ \A i \in 1..n : priority_tx'[i] = priority_tx[i]
          /\ priority_tx'[n + 1] = c
      BY <1>0, <3>2, AppendProperties
    <3>4. GenAfter(active_generation, priority_tx, n) = generation
      BY <1>0, <2>3 DEF GenInv
    <3>5. \A i \in 0..n : GenAfter(active_generation', priority_tx', i) = GenAfter(active_generation, priority_tx, i)
      BY <1>0, <2>1, <3>3 DEF GenAfter
    <3>6. GenAfter(active_generation', priority_tx', n + 1) = g
      BY <1>0, <3>2, <3>3 DEF GenAfter
    <3>7. ASSUME NEW i \in 1..(n + 1), priority_tx'[i].kind = "on"
          PROVE  GenAfter(active_generation', priority_tx', i) = GenAfter(active_generation', priority_tx', i - 1)
      <4>1. CASE i = n + 1
        BY <1>0, <3>1, <3>2, <3>3, <3>4, <3>5, <3>6, <3>7, <4>1
      <4>2. CASE i \in 1..n
        BY <1>0, <3>3, <3>5, <3>7, <4>2 DEF GenInv
      <4> QED
        BY <1>0, <4>1, <4>2
    <3> QED
      BY <3>1, <3>3, <3>6, <3>7 DEF GenInv
  <2> QED
    BY <2>2, <2>3
<1>3. CASE ProcessPriority
  <2>1. /\ priority_tx # <<>> /\ priority_tx' = Tail(priority_tx) /\ active_generation' = Head(priority_tx).gen
        /\ generation' = generation /\ pc # "exited"
    BY <1>3 DEF ProcessPriority
  <2>2. /\ Len(priority_tx') = n - 1 /\ n >= 1 /\ Head(priority_tx) = priority_tx[1]
        /\ \A i \in 1..(n - 1) : priority_tx'[i] = priority_tx[i + 1]
    BY <1>0, <2>1, HeadTailProperties, EmptySeq
  <2>3. \A i \in 0..(n - 1) : GenAfter(active_generation', priority_tx', i) = GenAfter(active_generation, priority_tx, i + 1)
    BY <1>0, <2>1, <2>2 DEF GenAfter
  <2>4. ASSUME NEW i \in 1..(n - 1), priority_tx'[i].kind = "on"
        PROVE  GenAfter(active_generation', priority_tx', i) = GenAfter(active_generation', priority_tx', i - 1)
    <3>1. i + 1 \in 1..n /\ i \in 0..(n - 1) /\ i - 1 \in 0..(n - 1) /\ (i + 1) - 1 = i /\ (i - 1) + 1 = i
      BY <1>0, <2>2, SMTT(30)
    <3>2. GenAfter(active_generation, priority_tx, i + 1) = GenAfter(active_generation, priority_tx, (i + 1) - 1)
      BY <1>0, <2>2, <2>4, <3>1, Zenon DEF GenInv
    <3> QED
      BY <2>3, <3>1, <3>2
  <2>5. GenAfter(active_generation', priority_tx', n - 1) = generation
    <3>1. n - 1 \in 0..(n - 1) /\ (n - 1) + 1 = n
      BY <1>0, <2>2
    <3> QED
      BY <1>0, <2>1, <2>3, <3>1 DEF GenInv
  <2> QED
    BY <2>1, <2>2, <2>4, <2>5 DEF GenInv
<1>4. CASE Exit
  <2>1. priority_tx' = <<>> /\ pc' = "exited"
    BY <1>4 DEF Exit, Goto
  <2>2. Len(priority_tx') = 0
    BY <2>1
  <2> QED
    BY <2>1, <2>2 DEF GenInv
<1>5. HandleStep => \/ \E kind \in {"on", "off", "stop", "shutdown"} : SendPriority(kind)
                    \/ UNCHANGED <<generation, priority_tx, active_generation, pc>>
  BY DEF HandleStep, Reserve, Enqueue, SetOutput, StopOutput, Shutdown
<1>6. NetStep => UNCHANGED <<generation, priority_tx, active_generation, pc>>
  BY Zenon DEF NetStep, DeviceSetOutput, DeviceReports, DeviceStores, LoseCommand, LosePacket
<1>7. WorkerStep => \/ ProcessPriority \/ Exit
                    \/ UNCHANGED <<generation, priority_tx, active_generation>> /\ pc # "exited"
  BY Zenon DEF WorkerStep, PriorityDrained, ProcessCommand, CommandsDrained, ApplyDataAck,
         ApplyCommandAck, ApplyStatus, RecordCommandResponse, AcksDrained, SendOnePacket, SendFails,
         SendNothing, Wake
<1>8. UNCHANGED vars => UNCHANGED <<generation, priority_tx, active_generation, pc>>
  BY DEF vars
<1> QED
  BY <1>1, <1>2, <1>3, <1>4, <1>5, <1>6, <1>7, <1>8 DEF Next

\* What a step does to the worker's queue and its names
LEMMA QueueSteps ==
    ASSUME [Next]_vars
    PROVE  \/ ProcessPriority \/ ProcessCommand \/ SendOnePacket \/ SendFails
           \/ UNCHANGED <<queue, active_generation, arrived, sent>>
<1> USE DEF handleVars, estimateVars, sharedVars, workerVars, netVars, deviceVars, histVars
<1>1. HandleStep => UNCHANGED <<queue, active_generation, arrived, sent>>
  BY Zenon DEF HandleStep, Reserve, Enqueue, SetOutput, StopOutput, Shutdown, SendPriority
<1>2. NetStep => UNCHANGED <<queue, active_generation, arrived, sent>>
  BY Zenon DEF NetStep, DeviceSetOutput, DeviceReports, DeviceStores, LoseCommand, LosePacket
<1>3. WorkerStep => \/ ProcessPriority \/ ProcessCommand \/ SendOnePacket \/ SendFails
                    \/ UNCHANGED <<queue, active_generation, arrived, sent>>
  BY Zenon DEF WorkerStep, PriorityDrained, CommandsDrained, ApplyDataAck, ApplyCommandAck, ApplyStatus,
         RecordCommandResponse, AcksDrained, SendNothing, Wake, Exit
<1>4. UNCHANGED vars => UNCHANGED <<queue, active_generation, arrived, sent>>
  BY DEF vars
<1> QED
  BY <1>1, <1>2, <1>3, <1>4 DEF Next

\* A packet that cannot be sent goes back where it was.
LEMMA SendFailsKeeps == ASSUME TypeInv, SendFails PROVE queue' = queue
<1>1. queue \in Seq(Point)
  BY DEF TypeInv, WorkerTypes
<1>2. Intended \in 0..Len(queue)
  BY <1>1, IntendedType, Bounds
<1> QED
  BY <1>1, <1>2, PutBackSame DEF SendFails

\* The queue when the worker takes a chunk over
LEMMA Taken ==
    ASSUME TypeInv, ProcessCommand
    PROVE  /\ tx # <<>> /\ tx' = Tail(tx) /\ tx \in Seq([gen : Nat, len : Nat])
           /\ Head(tx) \in [gen : Nat, len : Nat] /\ arrived \in 0..(NameMod - 1)
           /\ queue \in Seq(Point) /\ Len(queue) \in Nat
           /\ UNCHANGED <<active_generation, sent, reserved>>
<1>1. /\ HandleTypes /\ scenario \in Scenarios /\ queue \in Seq(Point) /\ arrived \in 0..(NameMod - 1)
  BY DEF TypeInv, LinkInv, LinkTypes, WorkerTypes, HistTypes
<1>2. tx \in Seq([gen : Nat, len : Nat])
  BY <1>1, ChunksWider
<1>3. tx # <<>> /\ tx' = Tail(tx) /\ UNCHANGED <<active_generation, sent, reserved>>
  BY DEF ProcessCommand
<1>4. Head(tx) \in [gen : Nat, len : Nat]
  BY <1>2, <1>3, HeadTailProperties, Zenon
<1> QED
  BY <1>1, <1>2, <1>3, <1>4, LenProperties

\* A chunk taken over goes to the end of the queue.
LEMMA TakenQueue ==
    ASSUME TypeInv, ProcessCommand, NEW k \in Nat, k = Head(tx).len, TakesOver(Head(tx))
    PROVE  /\ Len(queue') = Len(queue) + k
           /\ \A i \in 1..Len(queue) : queue'[i] = queue[i]
           /\ \A j \in 1..k : /\ queue'[Len(queue) + j].gen = Head(tx).gen
                              /\ queue'[Len(queue) + j].n = (arrived + j) % NameMod
<1>1. queue' = queue \o Numbered(Head(tx)) /\ queue \in Seq(Point) /\ Len(queue) \in Nat
  BY Taken, Zenon DEF ProcessCommand
<1>2. /\ Numbered(Head(tx)) \in Seq(Point) /\ Len(Numbered(Head(tx))) = k
      /\ \A i \in 1..k : /\ Numbered(Head(tx))[i].gen = Head(tx).gen
                         /\ Numbered(Head(tx))[i].n = (arrived + i) % NameMod
  BY Taken, NumberedType, Zenon
<1> DEFINE m == Numbered(Head(tx))
<1> HIDE DEF m
<1>3. m \in Seq(Point) /\ Len(m) = k /\ queue' = queue \o m
  BY <1>1, <1>2 DEF m
<1>4. /\ Len(queue \o m) = Len(queue) + k
      /\ \A i \in 1..Len(queue) + k : (queue \o m)[i] = IF i <= Len(queue) THEN queue[i] ELSE m[i - Len(queue)]
  <2>1. /\ Len(queue \o m) = Len(queue) + Len(m)
        /\ \A i \in 1..Len(queue) + Len(m) :
              (queue \o m)[i] = IF i <= Len(queue) THEN queue[i] ELSE m[i - Len(queue)]
    BY <1>1, <1>3, ConcatProperties, Zenon
  <2> QED
    BY <1>3, <2>1, Zenon
<1>5. \A i \in 1..Len(queue) : queue'[i] = queue[i]
  BY <1>1, <1>3, <1>4
<1>6. ASSUME NEW j \in 1..k PROVE queue'[Len(queue) + j] = m[j]
  <2>1. Len(queue) + j \in 1..Len(queue) + k /\ ~(Len(queue) + j <= Len(queue)) /\ (Len(queue) + j) - Len(queue) = j
    BY <1>1
  <2> QED
    BY <1>3, <1>4, <2>1
<1> QED
  BY <1>2, <1>3, <1>4, <1>5, <1>6 DEF m

\* No step leaves a point of a purged generation in the queue.
LEMMA CurrentStep == ASSUME QueueInv, [Next]_vars PROVE QueueIsCurrent'
<1>0. TypeInv /\ GenInv /\ QueueIsCurrent /\ queue \in Seq(Point) /\ Len(queue) \in Nat
  BY LenProperties DEF QueueInv, TypeInv, WorkerTypes
<1>1. CASE queue' = <<>>
  BY <1>1 DEF QueueIsCurrent
<1>2. CASE queue' = queue /\ active_generation' = active_generation
  BY <1>0, <1>2 DEF QueueIsCurrent
<1>3. CASE ProcessPriority
  <2>1. CASE Head(priority_tx).kind = "on"
    <3>1. /\ queue' = queue /\ active_generation' = Head(priority_tx).gen /\ priority_tx # <<>>
      BY <1>3, <2>1 DEF ProcessPriority
    <3>2. Len(priority_tx) \in Nat \ {0} /\ Head(priority_tx) = priority_tx[1]
      <4>1. priority_tx \in Seq([kind : {"on", "off", "stop", "shutdown"}, gen : 0..MaxGen])
        BY <1>0, Zenon DEF TypeInv, HandleTypes
      <4> QED
        BY <3>1, <4>1, EmptySeq
    <3>3. 1 \in 1..Len(priority_tx) /\ 1 - 1 = 0
      BY <3>2
    <3>4. Head(priority_tx).gen = active_generation
      BY <1>0, <2>1, <3>2, <3>3 DEF GenInv, GenAfter
    <3> QED
      BY <1>2, <3>1, <3>4
  <2>2. CASE Head(priority_tx).kind # "on"
    BY <1>1, <1>3, <2>2 DEF ProcessPriority, ClearPendingPoints
  <2> QED
    BY <2>1, <2>2
<1>4. CASE ProcessCommand
  <2>1. CASE TakesOver(Head(tx))
    <3>1. PICK k \in Nat : k = Head(tx).len
      BY <1>0, <1>4, Taken
    <3>2. queue' \in Seq(Point)
      BY <1>0, <1>4, QueueTyped DEF Next, WorkerStep
    <3>3. Head(tx).gen = active_generation /\ active_generation' = active_generation
      BY <1>0, <1>4, <2>1, Taken DEF TakesOver
    <3>4. /\ Len(queue') = Len(queue) + k /\ \A i \in 1..Len(queue) : queue'[i] = queue[i]
          /\ \A j \in 1..k : queue'[Len(queue) + j].gen = Head(tx).gen
      BY <1>0, <1>4, <2>1, <3>1, TakenQueue
    <3>5. PICK n \in Nat : n = Len(queue)
      BY <1>0, Zenon
    <3>6. ASSUME NEW i \in DOMAIN queue' PROVE queue'[i].gen = active_generation'
      <4>1. i \in 1..(n + k)
        BY <3>2, <3>4, <3>5, LenProperties
      <4>2. CASE i \in 1..n
        BY <1>0, <3>3, <3>4, <3>5, <4>2 DEF QueueIsCurrent
      <4>3. CASE i \in (n + 1)..(n + k)
        <5>1. i - n \in 1..k /\ n + (i - n) = i
          BY <4>3
        <5> QED
          BY <3>3, <3>4, <3>5, <5>1
      <4> QED
        BY <4>1, <4>2, <4>3
    <3> QED
      BY <3>6 DEF QueueIsCurrent
  <2>2. CASE ~TakesOver(Head(tx))
    BY <1>2, <1>4, <2>2 DEF ProcessCommand
  <2> QED
    BY <2>1, <2>2
<1>5. CASE SendOnePacket
  <2>1. Intended \in 1..Len(queue) /\ queue' = SubSeq(queue, Intended + 1, Len(queue))
        /\ active_generation' = active_generation
    BY <1>0, <1>5, IntendedType DEF SendOnePacket, CanSend
  <2>2. /\ queue' \in Seq(Point) /\ Len(queue') = Len(queue) - Intended
        /\ \A i \in 1..(Len(queue) - Intended) : queue'[i] = queue[Intended + i]
    BY <1>0, <2>1, RestType
  <2>3. ASSUME NEW i \in DOMAIN queue' PROVE queue'[i].gen = active_generation'
    <3>1. i \in 1..(Len(queue) - Intended)
      BY <2>2, LenProperties
    <3>2. Intended + i \in DOMAIN queue
      BY <1>0, <2>1, <3>1
    <3> QED
      BY <1>0, <2>1, <2>2, <3>1, <3>2 DEF QueueIsCurrent
  <2> QED
    BY <2>3 DEF QueueIsCurrent
<1>6. CASE SendFails
  BY <1>0, <1>2, <1>6, SendFailsKeeps, Zenon DEF SendFails
<1> QED
  BY <1>2, <1>3, <1>4, <1>5, <1>6, QueueSteps

\* What the names of the queue are, written out for a queue of n points
LEMMA InOrder ==
    ASSUME queue \in Seq(Point), NEW n \in Nat, n = Len(queue)
    PROVE  QueueInOrder <=> /\ \A i \in 1..n : queue[i].n = (sent + i) % NameMod
                            /\ arrived = (sent + n) % NameMod
  BY LenProperties DEF QueueInOrder

\* No step takes a point out of its place.
LEMMA OrderStep == ASSUME QueueInv, [Next]_vars PROVE QueueInOrder'
<1>0. /\ TypeInv /\ QueueInOrder /\ queue \in Seq(Point) /\ Len(queue) \in Nat
      /\ NameMod \in Nat \ {0} /\ sent \in 0..(NameMod - 1) /\ arrived \in 0..(NameMod - 1)
  BY LenProperties, Bounds DEF QueueInv, TypeInv, WorkerTypes, HistTypes
<1>1. CASE queue' = <<>> /\ sent' = 0 /\ arrived' = 0
  <2>1. DOMAIN queue' = {} /\ Len(queue') = 0
    BY <1>1
  <2>2. (0 + 0) % NameMod = 0
    BY <1>0
  <2> QED
    BY <1>1, <2>1, <2>2 DEF QueueInOrder
<1>2. CASE UNCHANGED <<queue, sent, arrived>>
  BY <1>0, <1>2 DEF QueueInOrder
<1>3. CASE ProcessPriority
  BY <1>1, <1>2, <1>3 DEF ProcessPriority, ClearPendingPoints
<1>4. PICK n \in Nat : n = Len(queue)
  BY <1>0, Zenon
<1>5. PICK s \in Nat : s = sent
  BY <1>0
<1>6. /\ \A i \in 1..n : queue[i].n = (s + i) % NameMod
      /\ arrived = (s + n) % NameMod
  BY <1>0, <1>4, <1>5, InOrder
<1>7. CASE ProcessCommand
  <2>1. CASE TakesOver(Head(tx))
    <3>1. PICK k \in Nat : k = Head(tx).len
      BY <1>0, <1>7, Taken
    <3>2. queue' \in Seq(Point)
      BY <1>0, <1>7, QueueTyped DEF Next, WorkerStep
    <3>3. sent' = s /\ arrived' = (arrived + k) % NameMod
      BY <1>5, <1>7, <2>1, <3>1 DEF ProcessCommand
    <3>4. /\ Len(queue') = n + k /\ \A i \in 1..n : queue'[i] = queue[i]
          /\ \A j \in 1..k : queue'[n + j].n = (arrived + j) % NameMod
      BY <1>0, <1>4, <1>7, <2>1, <3>1, TakenQueue, Zenon
    <3>5. \A j \in Nat : (arrived + j) % NameMod = (s + n + j) % NameMod
      <4>1. s + n \in Nat
        OBVIOUS
      <4> QED
        BY <1>0, <1>6, <4>1, ModPlus, Zenon
    <3>6. DOMAIN queue' = 1..(n + k)
      BY <3>2, <3>4, LenProperties
    <3>7. ASSUME NEW i \in 1..(n + k) PROVE queue'[i].n = (s + i) % NameMod
      <4>1. CASE i \in 1..n
        BY <1>6, <3>4, <4>1
      <4>2. CASE i \in (n + 1)..(n + k)
        <5>1. i - n \in 1..k /\ n + (i - n) = i /\ s + n + (i - n) = s + i /\ i - n \in Nat
          BY <4>2
        <5>2. queue'[n + (i - n)].n = (arrived + (i - n)) % NameMod
          BY <3>4, <5>1
        <5>3. (arrived + (i - n)) % NameMod = (s + n + (i - n)) % NameMod
          BY <3>5, <5>1
        <5> QED
          BY <5>1, <5>2, <5>3, Zenon
      <4> QED
        BY <4>1, <4>2
    <3>8. arrived' = (s + (n + k)) % NameMod
      <4>1. s + n + k = s + (n + k)
        OBVIOUS
      <4> QED
        BY <3>3, <3>5, <4>1
    <3> QED
      BY <3>3, <3>4, <3>6, <3>7, <3>8 DEF QueueInOrder
  <2>2. CASE ~TakesOver(Head(tx))
    BY <1>2, <1>7, <2>2 DEF ProcessCommand
  <2> QED
    BY <2>1, <2>2
<1>8. CASE SendOnePacket
  <2>1. /\ Intended \in 1..Len(queue) /\ queue' = SubSeq(queue, Intended + 1, Len(queue))
        /\ sent' = queue[Intended].n /\ arrived' = arrived
    BY <1>0, <1>8, IntendedType DEF SendOnePacket, CanSend
  <2>2. PICK k \in 1..n : k = Intended
    BY <1>4, <2>1
  <2>3. /\ queue' \in Seq(Point) /\ Len(queue') = n - k
        /\ \A i \in 1..(n - k) : queue'[i] = queue[k + i]
    BY <1>0, <1>4, <2>1, <2>2, RestType
  <2>4. sent' = (s + k) % NameMod
    BY <1>6, <2>1, <2>2
  <2>5. \A j \in Nat : (((s + k) % NameMod) + j) % NameMod = (s + k + j) % NameMod
    <3>1. s + k \in Nat
      OBVIOUS
    <3> QED
      BY <1>0, <3>1, ModPlus, Zenon
  <2>6. ASSUME NEW i \in 1..(n - k) PROVE queue'[i].n = (sent' + i) % NameMod
    <3>1. k + i \in 1..n /\ i \in Nat /\ s + (k + i) = s + k + i
      OBVIOUS
    <3>2. queue'[i].n = (s + (k + i)) % NameMod
      BY <1>6, <2>3, <3>1, Zenon
    <3>3. (sent' + i) % NameMod = (s + k + i) % NameMod
      BY <2>4, <2>5, <3>1
    <3> QED
      BY <3>1, <3>2, <3>3, Zenon
  <2>7. arrived' = (sent' + (n - k)) % NameMod
    <3>1. n - k \in Nat /\ s + k + (n - k) = s + n
      OBVIOUS
    <3>2. (sent' + (n - k)) % NameMod = (s + k + (n - k)) % NameMod
      BY <2>4, <2>5, <3>1
    <3> QED
      BY <1>6, <2>1, <3>1, <3>2, Zenon
  <2>8. DOMAIN queue' = 1..(n - k)
    BY <2>3, LenProperties
  <2> QED
    BY <2>3, <2>6, <2>7, <2>8 DEF QueueInOrder
<1>9. CASE SendFails
  BY <1>0, <1>2, <1>9, SendFailsKeeps, Zenon DEF SendFails
<1> QED
  BY <1>2, <1>3, <1>7, <1>8, <1>9, QueueSteps

\* No step leaves a point reserved that nobody holds.
LEMMA LeakStep == ASSUME QueueInv, [Next]_vars PROVE NoLeakedReservation'
<1> USE DEF handleVars, estimateVars, sharedVars, workerVars, netVars, deviceVars, histVars
<1>0. /\ TypeInv /\ queue \in Seq(Point) /\ Len(queue) \in Nat /\ host_queue_len \in Nat
      /\ scenario \in Scenarios /\ HandleTypes
  BY LenProperties, Bounds, SMTT(30) DEF QueueInv, TypeInv, WorkerTypes, LinkInv, LinkTypes, SharedTypes
<1>1. reserved \in Nat /\ scenario.sizes \subseteq Nat /\ generation \in Nat
  BY <1>0, Sizes, Bounds DEF HandleTypes
<1>2. tx \in Seq([gen : Nat, len : Nat]) /\ Pending(tx) \in Nat
  BY <1>0, ChunksWider, PendingType, Zenon
<1>3. PICK n \in Nat, t \in Nat, h \in Nat, r \in Nat :
        /\ Len(queue) = n /\ Pending(tx) = t /\ host_queue_len = h /\ reserved = r
        /\ h <= n + t + r
  BY <1>0, <1>1, <1>2, Zenon DEF QueueInv, NoLeakedReservation
<1>4. CASE UNCHANGED <<queue, tx, host_queue_len, reserved>>
  BY <1>4 DEF QueueInv, NoLeakedReservation
<1>5. ASSUME NEW len \in scenario.sizes, Reserve(len) PROVE NoLeakedReservation'
  <2>1. UNCHANGED <<queue, tx>> /\ host_queue_len' = h + len /\ reserved' = len /\ r = 0 /\ len \in Nat
    BY <1>1, <1>3, <1>5 DEF Reserve
  <2> QED
    BY <1>3, <2>1 DEF NoLeakedReservation
<1>6. CASE Enqueue
  <2>1. reserved' = 0 /\ queue' = queue
    BY <1>6 DEF Enqueue
  <2>2. CASE tx' = Append(tx, [gen |-> generation, len |-> reserved]) /\ UNCHANGED host_queue_len
    <3>1. [gen |-> generation, len |-> reserved] \in [gen : Nat, len : Nat]
      BY <1>1
    <3>2. Pending(tx') = Pending(tx) + [gen |-> generation, len |-> reserved].len
      BY <1>2, <2>2, <3>1, PendingAppend, Zenon
    <3>3. Pending(tx') = t + r
      BY <1>3, <3>2
    <3> QED
      BY <1>3, <2>1, <2>2, <3>3 DEF NoLeakedReservation
  <2>3. CASE host_queue_len' = SaturatingSub(host_queue_len, reserved) /\ UNCHANGED tx
    BY <1>3, <2>1, <2>3 DEF NoLeakedReservation, SaturatingSub
  <2> QED
    BY <1>6, <2>2, <2>3 DEF Enqueue
<1>7. CASE ProcessPriority
  <2>1. CASE UNCHANGED <<queue, host_queue_len>>
    BY <1>4, <1>7, <2>1 DEF ProcessPriority
  <2>2. CASE queue' = <<>> /\ host_queue_len' = 0
    <3>1. Len(queue') = 0 /\ tx' = tx /\ reserved' = reserved
      BY <1>7, <2>2 DEF ProcessPriority
    <3> QED
      BY <1>3, <2>2, <3>1 DEF NoLeakedReservation
  <2> QED
    BY <1>7, <2>1, <2>2 DEF ProcessPriority, ClearPendingPoints
<1>8. CASE ProcessCommand
  <2>1. PICK k \in Nat : k = Head(tx).len
    BY <1>0, <1>8, Taken
  <2>2. Tail(tx) \in Seq([gen : Nat, len : Nat]) /\ Pending(tx) = Pending(Tail(tx)) + Head(tx).len
    BY <1>0, <1>2, <1>8, Taken, PendingTail, HeadTailProperties, Zenon
  <2>3. Pending(tx') \in Nat /\ tx' = Tail(tx) /\ reserved' = r
    BY <1>0, <1>3, <1>8, <2>2, Taken, PendingType, Zenon
  <2>4. PICK u \in Nat : Pending(tx') = u /\ t = u + k
    BY <1>3, <2>1, <2>2, <2>3
  <2>5. CASE TakesOver(Head(tx))
    <3>1. Len(queue') = n + k /\ host_queue_len' = h
      BY <1>0, <1>3, <1>8, <2>1, <2>5, TakenQueue, Zenon DEF ProcessCommand
    <3> QED
      BY <1>3, <2>3, <2>4, <3>1 DEF NoLeakedReservation
  <2>6. CASE ~TakesOver(Head(tx))
    <3>1. queue' = queue /\ host_queue_len' = SaturatingSub(h, k)
      BY <1>3, <1>8, <2>1, <2>6 DEF ProcessCommand
    <3> QED
      BY <1>3, <2>3, <2>4, <3>1, SMTT(30) DEF NoLeakedReservation, SaturatingSub
  <2> QED
    BY <2>5, <2>6
<1>9. CASE SendOnePacket
  <2>1. Intended \in 1..Len(queue) /\ queue' = SubSeq(queue, Intended + 1, Len(queue))
    BY <1>0, <1>9, IntendedType DEF SendOnePacket, CanSend
  <2>2. PICK k \in 1..n : k = Intended
    BY <1>3, <2>1
  <2>3. Len(queue') = n - k /\ tx' = tx /\ reserved' = r /\ host_queue_len' = SaturatingSub(h, k)
    BY <1>0, <1>3, <1>9, <2>1, <2>2, RestType, Zenon DEF SendOnePacket
  <2> QED
    BY <1>3, <2>3 DEF NoLeakedReservation, SaturatingSub
<1>10. CASE Exit
  <2>1. tx' = <<>> /\ queue' = queue /\ reserved' = r /\ host_queue_len' = SaturatingSub(h, t)
    BY <1>3, <1>10 DEF Exit
  <2>2. Pending(tx') = 0
    BY <2>1, PendingEmpty
  <2> QED
    BY <1>3, <2>1, <2>2 DEF NoLeakedReservation, SaturatingSub
<1>11. CASE SendFails
  BY <1>0, <1>4, <1>11, SendFailsKeeps, Zenon DEF SendFails
<1>12. HandleStep => \/ Enqueue \/ (\E len \in scenario.sizes : Reserve(len))
                     \/ UNCHANGED <<queue, tx, host_queue_len, reserved>>
  BY Zenon DEF HandleStep, SetOutput, StopOutput, Shutdown, SendPriority
<1>13. NetStep => UNCHANGED <<queue, tx, host_queue_len, reserved>>
  BY Zenon DEF NetStep, DeviceSetOutput, DeviceReports, DeviceStores, LoseCommand, LosePacket
<1>14. WorkerStep => \/ ProcessPriority \/ ProcessCommand \/ SendOnePacket \/ SendFails \/ Exit
                     \/ UNCHANGED <<queue, tx, host_queue_len, reserved>>
  BY Zenon DEF WorkerStep, PriorityDrained, CommandsDrained, ApplyDataAck, ApplyCommandAck, ApplyStatus,
         RecordCommandResponse, AcksDrained, SendNothing, Wake
<1>15. UNCHANGED vars => UNCHANGED <<queue, tx, host_queue_len, reserved>>
  BY DEF vars
<1> QED
  BY <1>4, <1>5, <1>6, <1>7, <1>8, <1>9, <1>10, <1>11, <1>12, <1>13, <1>14, <1>15 DEF Next

\* A new transport has nothing queued.
LEMMA InitQueue == ASSUME Init PROVE QueueInv
<1>1. /\ queue = <<>> /\ tx = <<>> /\ priority_tx = <<>> /\ generation = 0 /\ active_generation = 0
      /\ sent = 0 /\ arrived = 0 /\ host_queue_len = 0 /\ reserved = 0
  BY Zenon DEF Init
<1>2. Len(queue) = 0 /\ DOMAIN queue = {} /\ Len(priority_tx) = 0
  BY <1>1
<1>3. (0 + 0) % NameMod = 0
  BY Bounds
<1>4. GenInv /\ QueueIsCurrent /\ QueueInOrder
  BY <1>1, <1>2, <1>3 DEF GenInv, GenAfter, QueueIsCurrent, QueueInOrder
<1>5. NoLeakedReservation
  BY <1>1, <1>2, PendingEmpty DEF NoLeakedReservation
<1> QED
  BY <1>4, <1>5, InitTypes DEF QueueInv

\* For every schedule of the two threads, every loss and every refused packet, and whatever the
\* capacities: what the worker holds was written after the last purge it was told of, in order and
\* without a gap, and the count that paces the driver covers nothing that is on no queue
\* (TransportHandle::enqueue, process_priority_commands, process_commands, send_one_packet).
THEOREM QueueSafety == Spec => []QueueSound
<1>1. Init => QueueInv
  BY InitQueue
<1>2. QueueInv /\ [Next]_vars => QueueInv'
  BY NextTypes, GenStep, CurrentStep, OrderStep, LeakStep DEF QueueInv
<1>3. QueueInv => QueueSound
  BY TypesSuffice DEF QueueInv, QueueSound
<1> QED
  BY <1>1, <1>2, <1>3, PTL DEF Spec

-------------------------------------------------------------------------------
(* The ACKs *)

Flying == {d.num : d \in data_net \cup acks} \ {NoSeq}

\* The packets sent after the one acknowledged last of which nothing is in the network
Lost == {k \in (acked + 1)..(num - 1) : k \notin Flying}

\* The numbers behind the sequence numbers: what is in flight was sent lately, so all but MaxDelay
\* of the packets after the one acknowledged last were lost.
AckInv ==
    /\ acked < num
    /\ last_seq = IF acked = NoSeq THEN NoSeq ELSE acked % SeqMod
    /\ \A d \in data_net \cup acks : d.num # NoSeq => d.num < num /\ num - d.num <= MaxDelay
    /\ \A a \in acks : a.num # NoSeq => a.seq = a.num % SeqMod
    /\ ~scenario.packets => data_net = {} /\ acks = {}
    /\ scenario.packets => Cardinality(Lost) <= losses
    /\ NoPhantomFlight

\* What the assumptions say of the delays
LEMMA Delays ==
    /\ SeqMod \in Nat \ {0} /\ SeqMod > 2 /\ SeqMod % 2 = 0 /\ MaxDelay \in Nat \ {0}
    /\ scenario \in Scenarios =>
        /\ scenario.losses \in Nat
        /\ scenario.packets => MaxDelay + scenario.losses < SeqMod \div 2
  BY PacingAssumption, TransportAssumption DEF Scenario

\* An even number is twice its half.
LEMMA Half == ASSUME NEW m \in Nat, m % 2 = 0 PROVE m \div 2 \in Nat /\ m = (m \div 2) + (m \div 2)
  BY Z3

\* The difference of two sequence numbers tells that of the packets' numbers.
LEMMA ModDiff ==
    ASSUME NEW a \in Nat, NEW b \in Nat, NEW m \in Nat \ {0}
    PROVE  /\ b <= a /\ a - b < m => ((a % m) - (b % m) + m) % m = a - b
           /\ a < b /\ b - a < m => ((a % m) - (b % m) + m) % m = m - (b - a)
<1> DEFINE q == a \div m
           r == a % m
           p == b \div m
           t == b % m
<1>1. q \in Nat /\ a = m * q + r /\ r \in 0..(m - 1)
  BY DivMod, Zenon
<1>2. p \in Nat /\ b = m * p + t /\ t \in 0..(m - 1)
  BY DivMod, Zenon
<1> HIDE DEF q, r, p, t
<1>3. ASSUME b <= a, a - b < m PROVE (r - t + m) % m = a - b
  <2>1. r - t + m = m * (p - q + 1) + (a - b)
    BY <1>1, <1>2
  <2>2. p - q + 1 \in Int /\ a - b \in Int /\ 0 <= a - b
    BY <1>1, <1>2, <1>3
  <2>3. (m * (p - q + 1) + (a - b)) % m = a - b
    BY <1>3, <2>2, ModUnique
  <2> QED
    BY <2>1, <2>3
<1>4. ASSUME a < b, b - a < m PROVE (r - t + m) % m = m - (b - a)
  <2>1. r - t + m = m * (p - q) + (m - (b - a))
    BY <1>1, <1>2
  <2>2. p - q \in Int /\ m - (b - a) \in Int /\ 0 <= m - (b - a) /\ m - (b - a) < m
    BY <1>1, <1>2, <1>4
  <2>3. (m * (p - q) + (m - (b - a))) % m = m - (b - a)
    BY <2>2, ModUnique, Zenon
  <2> QED
    BY <2>1, <2>3
<1> QED
  BY <1>3, <1>4 DEF r, t

\* seq_newer compares packets that are less than half the numbers apart.
LEMMA SeqNewerMeans ==
    ASSUME NEW a \in Nat, NEW b \in Nat,
           a - b < SeqMod \div 2, b - a < SeqMod \div 2
    PROVE  SeqNewer(b % SeqMod, a % SeqMod) <=> a > b
<1>0. SeqMod \in Nat \ {0} /\ SeqMod \div 2 \in Nat /\ SeqMod = (SeqMod \div 2) + (SeqMod \div 2)
  BY Delays, Half
<1> DEFINE d == ((a % SeqMod) - (b % SeqMod) + SeqMod) % SeqMod
<1>1. PICK h \in Nat : h = SeqMod \div 2 /\ SeqMod = h + h /\ a - b < h /\ b - a < h
  BY <1>0
<1>2. b <= a => d = a - b
  <2>1. a - b < SeqMod
    BY <1>1
  <2> QED
    BY <1>0, <2>1, ModDiff, Zenon
<1>3. a < b => d = SeqMod - (b - a)
  <2>1. b - a < SeqMod
    BY <1>1
  <2> QED
    BY <1>0, <2>1, ModDiff, Zenon
<1> HIDE DEF d
<1>4. (0 < d /\ d < h) <=> a > b
  BY <1>1, <1>2, <1>3
<1> QED
  BY <1>1, <1>4 DEF SeqNewer, d

\* The slots of the packets sent after b, up to a
LEMMA SlotsBetweenHas ==
    ASSUME NEW a \in Nat, NEW c \in Nat, c <= a, a - c < SeqMod, NEW k \in c..(a - 1)
    PROVE  k % SeqMod \in SlotsBetween(c % SeqMod, a % SeqMod)
<1>0. SeqMod \in Nat \ {0}
  BY Delays
<1> DEFINE span == ((a % SeqMod) - (c % SeqMod) + SeqMod) % SeqMod
<1>1. span = a - c
  BY <1>0, ModDiff, Zenon
<1> HIDE DEF span
<1>2. k - c \in 0..(span - 1) /\ k - c \in Nat /\ c + (k - c) = k
  BY <1>1
<1>3. ((c % SeqMod) + (k - c)) % SeqMod = k % SeqMod
  <2>1. ((c % SeqMod) + (k - c)) % SeqMod = (c + (k - c)) % SeqMod
    BY <1>0, <1>2, ModPlus, Zenon
  <2> QED
    BY <1>2, <2>1, Zenon
<1> QED
  BY <1>2, <1>3 DEF SlotsBetween, span

\* Part of a set with at most l elements has at most l.
LEMMA FewerLost ==
    ASSUME NEW A, IsFiniteSet(A), NEW l \in Nat, Cardinality(A) <= l, NEW B
    PROVE  /\ B \subseteq A => Cardinality(B) <= l
           /\ \A x : B \subseteq A \cup {x} => Cardinality(B) <= l + 1
<1>1. Cardinality(A) \in Nat
  BY FS_CardinalityType
<1>2. ASSUME B \subseteq A PROVE Cardinality(B) <= l
  <2>1. Cardinality(B) <= Cardinality(A) /\ Cardinality(B) \in Nat
    BY <1>2, FS_Subset, FS_CardinalityType
  <2> QED
    BY <1>1, <2>1
<1>3. ASSUME NEW x, B \subseteq A \cup {x} PROVE Cardinality(B) <= l + 1
  <2>1. /\ IsFiniteSet(A \cup {x})
        /\ Cardinality(A \cup {x}) = IF x \in A THEN Cardinality(A) ELSE Cardinality(A) + 1
    BY FS_AddElement, Zenon
  <2>2. Cardinality(B) <= Cardinality(A \cup {x}) /\ Cardinality(B) \in Nat
    BY <1>3, <2>1, FS_Subset, FS_CardinalityType
  <2> QED
    BY <1>1, <2>1, <2>2
<1> QED
  BY <1>2, <1>3

\* What the numbers of the packets and their ACKs are
LEMMA Numbers ==
    ASSUME TypeInv, AckInv
    PROVE  /\ num \in Nat /\ acked \in Nat \cup {-1} /\ NoSeq = -1 /\ losses \in Nat
           /\ scenario \in Scenarios
           /\ \A d \in data_net \cup acks : d.num \in Nat \cup {-1}
           /\ \A p \in data_net : p.num \in Nat
           /\ IsFiniteSet(Lost)
<1>1. num \in Nat /\ acked \in Nat \cup {-1} /\ NoSeq = -1 /\ losses \in Nat /\ scenario \in Scenarios
  BY DEF TypeInv, HistTypes, LinkInv, LinkTypes, NoSeq
<1>2. /\ \A d \in data_net \cup acks : d.num \in Nat \cup {-1}
      /\ \A p \in data_net : p.num \in Nat
  BY DEF TypeInv, NetTypes, NoSeq
<1>3. IsFiniteSet(Lost)
  <2>1. acked + 1 \in Int /\ num - 1 \in Int
    BY <1>1
  <2>2. IsFiniteSet((acked + 1)..(num - 1))
    BY <2>1, FS_Interval
  <2> QED
    BY <2>2, FS_Subset, Zenon DEF Lost
<1> QED
  BY <1>1, <1>2, <1>3

\* No packet after the one acknowledged last is half the sequence numbers away from it.
LEMMA Gap ==
    ASSUME TypeInv, AckInv, scenario.packets
    PROVE  num - 1 - acked <= MaxDelay + losses /\ MaxDelay + losses < SeqMod \div 2
<1>0. /\ num \in Nat /\ acked \in Nat \cup {-1} /\ losses \in Nat /\ MaxDelay \in Nat /\ IsFiniteSet(Lost)
      /\ Cardinality(Lost) <= losses
  BY Numbers, Delays DEF AckInv
<1>1. MaxDelay + losses < SeqMod \div 2
  <2>1. losses <= scenario.losses /\ scenario.losses \in Nat /\ MaxDelay + scenario.losses < SeqMod \div 2
    BY Numbers, Delays DEF TypeInv, HistTypes
  <2>2. SeqMod \div 2 \in Nat
    BY Delays, Half
  <2> QED
    BY <1>0, <2>1, <2>2
<1>2. CASE num - MaxDelay - 1 >= acked + 1
  <2> DEFINE I == (acked + 1)..(num - MaxDelay - 1)
  <2>1. ASSUME NEW k \in I PROVE k \in Lost
    <3>1. k \in (acked + 1)..(num - 1) /\ num - k > MaxDelay
      BY <1>0
    <3>2. ASSUME NEW d \in data_net \cup acks, d.num = k, k # NoSeq PROVE FALSE
      BY <1>0, <3>1, <3>2 DEF AckInv
    <3> QED
      BY <3>1, <3>2 DEF Lost, Flying
  <2>2. acked + 1 \in Int /\ num - MaxDelay - 1 \in Int
    BY <1>0
  <2>3. Cardinality(I) = num - MaxDelay - 1 - acked
    <3>1. Cardinality(I) = IF acked + 1 > num - MaxDelay - 1 THEN 0 ELSE (num - MaxDelay - 1) - (acked + 1) + 1
      BY <2>2, FS_Interval, Zenon
    <3> QED
      BY <1>0, <1>2, <3>1
  <2>4. Cardinality(I) <= Cardinality(Lost) /\ Cardinality(Lost) \in Nat
    BY <1>0, <2>1, FS_Subset, FS_CardinalityType
  <2> HIDE DEF I
  <2> QED
    BY <1>0, <1>1, <2>3, <2>4
<1>3. CASE ~(num - MaxDelay - 1 >= acked + 1)
  BY <1>0, <1>1, <1>3
<1> QED
  BY <1>2, <1>3

\* An ACK is applied exactly if its packet was sent after the one acknowledged last.
LEMMA AppliesIfNews ==
    ASSUME TypeInv, AckInv, NEW a \in acks, a.num # NoSeq
    PROVE  /\ (last_seq = NoSeq \/ SeqNewer(last_seq, a.seq)) <=> a.num > acked
           /\ a.num - acked < SeqMod \div 2 /\ a.num \in Nat /\ a.num < num /\ scenario.packets
<1>0. /\ num \in Nat /\ acked \in Nat \cup {-1} /\ NoSeq = -1 /\ losses \in Nat /\ MaxDelay \in Nat
      /\ a.num \in Nat /\ a.num < num /\ num - a.num <= MaxDelay /\ a.seq = a.num % SeqMod
      /\ acked < num
  BY Numbers, Delays DEF AckInv
<1>1. scenario.packets
  BY DEF AckInv
<1>2. PICK h \in Nat : h = SeqMod \div 2 /\ num - 1 - acked <= MaxDelay + losses /\ MaxDelay + losses < h
  <2>1. SeqMod \div 2 \in Nat
    BY Delays, Half
  <2> QED
    BY <1>1, <2>1, Gap
<1>3. a.num - acked < h /\ acked - a.num < h
  BY <1>0, <1>2
<1>4. CASE acked = NoSeq
  <2>1. last_seq = NoSeq
    BY <1>4 DEF AckInv
  <2> QED
    BY <1>0, <1>1, <1>2, <1>3, <1>4, <2>1
<1>5. CASE acked # NoSeq
  <2>1. last_seq = acked % SeqMod /\ acked \in Nat
    BY <1>0, <1>5 DEF AckInv
  <2>2. last_seq # NoSeq
    <3>1. acked % SeqMod \in 0..(SeqMod - 1)
      BY <2>1, Delays, ModType
    <3> QED
      BY <1>0, <2>1, <3>1
  <2>3. SeqNewer(acked % SeqMod, a.num % SeqMod) <=> a.num > acked
    BY <1>0, <1>2, <1>3, <2>1, SeqNewerMeans
  <2> QED
    BY <1>0, <1>1, <1>2, <1>3, <2>1, <2>2, <2>3
<1> QED
  BY <1>4, <1>5

\* A step that leaves the packets and their ACKs alone
LEMMA AckStays ==
    ASSUME TypeInv, AckInv, UNCHANGED <<scenario, num, acked, last_seq, data_net, acks, counts>>,
           losses' \in Nat, losses' >= losses
    PROVE  AckInv'
<1>1. Lost' = Lost /\ losses \in Nat /\ IsFiniteSet(Lost)
  BY Numbers DEF Lost, Flying
<1>2. Cardinality(Lost) \in Nat
  BY <1>1, FS_CardinalityType
<1>3. scenario.packets => Cardinality(Lost') <= losses'
  BY <1>1, <1>2 DEF AckInv
<1>4. NoPhantomFlight'
  BY DEF AckInv, NoPhantomFlight
<1> QED
  BY <1>3, <1>4 DEF AckInv

\* A step that takes ACKs or packets out of the network
LEMMA FewerFlying ==
    ASSUME TypeInv, AckInv, NEW x, UNCHANGED <<scenario, num, acked, last_seq>>,
           data_net' \subseteq data_net, acks' \subseteq acks, NoPhantomFlight',
           losses' \in Nat, losses' >= losses,
           \/ Flying \subseteq Flying'
           \/ Flying \subseteq Flying' \cup {x} /\ (x <= acked \/ losses' = losses + 1)
    PROVE  AckInv'
<1>0. losses \in Nat /\ IsFiniteSet(Lost) /\ num \in Nat /\ acked \in Nat \cup {-1}
  BY Numbers
<1>1. scenario.packets => Cardinality(Lost') <= losses'
  <2>1. SUFFICES ASSUME scenario.packets PROVE Cardinality(Lost') <= losses'
    OBVIOUS
  <2>2. Cardinality(Lost) <= losses /\ Cardinality(Lost) \in Nat
    BY <1>0, <2>1, FS_CardinalityType DEF AckInv
  <2>3. CASE Lost' \subseteq Lost
    <3>1. Cardinality(Lost) <= losses'
      BY <1>0, <2>2, LeqChain, Zenon
    <3> QED
      BY <1>0, <2>3, <3>1, FewerLost
  <2>4. CASE Lost' \subseteq Lost \cup {x} /\ losses' = losses + 1
    BY <1>0, <2>2, <2>4, FewerLost
  <2>5. Flying \subseteq Flying' => Lost' \subseteq Lost
    BY DEF Lost
  <2>6. Flying \subseteq Flying' \cup {x} => Lost' \subseteq Lost \cup {x}
    BY DEF Lost
  <2>7. Flying \subseteq Flying' \cup {x} /\ x <= acked => Lost' \subseteq Lost
    BY <1>0 DEF Lost
  <2> QED
    BY <2>3, <2>4, <2>5, <2>6, <2>7
<1>2. /\ \A d \in data_net' \cup acks' : d.num # NoSeq => d.num < num /\ num - d.num <= MaxDelay
      /\ \A a \in acks' : a.num # NoSeq => a.seq = a.num % SeqMod
      /\ ~scenario.packets => data_net' = {} /\ acks' = {}
  BY DEF AckInv
<1> QED
  BY <1>1, <1>2 DEF AckInv

\* What Take(a) leaves in the network
LEMMA Takes ==
    ASSUME NEW a \in acks, Take(a), UNCHANGED data_net, losses \in Nat
    PROVE  /\ acks' \subseteq acks /\ data_net' \subseteq data_net
           /\ losses' \in Nat /\ losses' >= losses
           /\ Flying \subseteq Flying' \cup {a.num}
           /\ a.num = NoSeq => Flying \subseteq Flying'
<1>1. (acks' = acks \/ acks' = acks \ {a}) /\ (losses' = losses \/ losses' = losses + 1)
  BY Zenon DEF Take, Lose
<1>2. losses' \in Nat /\ losses' >= losses
  BY <1>1, OneMoreAtMost, Zenon
<1>3. acks' \subseteq acks /\ data_net' \subseteq data_net
  BY <1>1, Zenon
<1>4. Flying \subseteq Flying' \cup {a.num} /\ (a.num = NoSeq => Flying \subseteq Flying')
  BY <1>1, Zenon DEF Flying
<1> QED
  BY <1>2, <1>3, <1>4

\* An ACK of a packet, newer than the last or not
LEMMA DataAck == ASSUME TypeInv, AckInv, NEW a \in acks, ApplyDataAck(a) PROVE AckInv'
<1>0. /\ num \in Nat /\ acked \in Nat \cup {-1} /\ NoSeq = -1 /\ losses \in Nat /\ IsFiniteSet(Lost)
      /\ a.num # NoSeq /\ Take(a) /\ UNCHANGED <<scenario, num, data_net>>
      /\ counts \in [Slots -> 0..FullPacket]
  BY Numbers DEF ApplyDataAck, TypeInv, WorkerTypes
<1>1. /\ a.num \in Nat /\ a.num < num /\ scenario.packets /\ a.num - acked < SeqMod \div 2
      /\ a.seq = a.num % SeqMod
      /\ (last_seq = NoSeq \/ SeqNewer(last_seq, a.seq)) <=> a.num > acked
  BY <1>0, AppliesIfNews DEF AckInv
<1>2. /\ acks' \subseteq acks /\ data_net' \subseteq data_net /\ losses' \in Nat /\ losses' >= losses
      /\ Flying \subseteq Flying' \cup {a.num}
  BY <1>0, Takes
<1>3. CASE ~(a.num > acked)
  <2>1. counts' = [counts EXCEPT ![a.seq] = 0] /\ UNCHANGED <<last_seq, acked>>
    BY <1>1, <1>3 DEF ApplyDataAck, estimateVars
  <2>2. \A s \in Slots : counts'[s] # 0 => counts[s] # 0
    BY <1>0, <2>1
  <2>3. NoPhantomFlight'
    BY <1>0, <2>1, <2>2 DEF AckInv, NoPhantomFlight
  <2>4. a.num <= acked
    BY <1>0, <1>1, <1>3
  <2> QED
    BY <1>0, <1>2, <2>1, <2>3, <2>4, FewerFlying
<1>4. CASE a.num > acked
  <2>1. /\ counts' = [s \in Slots |-> IF s \in Released(a.seq) THEN 0 ELSE counts[s]]
        /\ last_seq' = a.seq /\ acked' = a.num
    BY <1>1, <1>4 DEF ApplyDataAck
  <2>2. PICK h \in Nat : h = SeqMod \div 2 /\ SeqMod = h + h /\ a.num - acked < h /\ SeqMod \in Nat \ {0}
    BY <1>1, Delays, Half
  <2>3. ASSUME NEW k \in (acked + 1)..a.num PROVE k % SeqMod \in Released(a.seq)
    <3>1. CASE k = a.num
      BY <1>1, <3>1 DEF Released
    <3>2. CASE k # a.num
      <4>1. k \in (acked + 1)..(a.num - 1) /\ acked + 1 \in Nat /\ acked + 1 <= a.num /\ a.num - (acked + 1) < SeqMod
        BY <1>0, <1>1, <1>4, <2>2, <3>2, SMTT(30)
      <4>2. k % SeqMod \in SlotsBetween((acked + 1) % SeqMod, a.num % SeqMod)
        BY <1>1, <4>1, SlotsBetweenHas
      <4>3. (acked + 1) % SeqMod = IF last_seq = NoSeq THEN 0 ELSE (last_seq + 1) % SeqMod
        <5>1. CASE acked = NoSeq
          <6>1. last_seq = NoSeq /\ acked + 1 = 0
            BY <1>0, <5>1, SMTT(30) DEF AckInv
          <6>2. 0 % SeqMod = 0
            BY <2>2
          <6> QED
            BY <6>1, <6>2
        <5>2. CASE acked # NoSeq
          <6>1. last_seq = acked % SeqMod /\ acked \in Nat
            BY <1>0, <5>2 DEF AckInv
          <6>2. acked % SeqMod \in 0..(SeqMod - 1)
            BY <2>2, <6>1, ModType
          <6>3. ((acked % SeqMod) + 1) % SeqMod = (acked + 1) % SeqMod
            BY <2>2, <6>1, ModPlus
          <6> QED
            BY <1>0, <6>1, <6>2, <6>3, SMTT(30)
        <5> QED
          BY <5>1, <5>2
      <4> QED
        BY <1>1, <4>2, <4>3 DEF Released
    <3> QED
      BY <3>1, <3>2
  <2>4. NoPhantomFlight'
    <3>1. ASSUME NEW s \in Slots, counts'[s] # 0
          PROVE  \E k \in 0..(num - 1) : k % SeqMod = s /\ k > a.num /\ num - k <= SeqMod
      <4>1. s \notin Released(a.seq) /\ counts[s] # 0
        BY <2>1, <3>1
      <4>2. PICK k \in 0..(num - 1) : k % SeqMod = s /\ k > acked /\ num - k <= SeqMod
        BY <4>1 DEF AckInv, NoPhantomFlight
      <4>3. k > a.num
        <5>0. k \in Int /\ a.num \in Int /\ acked \in Int
          BY <1>0, <1>1
        <5>1. CASE k <= a.num
          <6>1. k \in (acked + 1)..a.num
            BY <4>2, <5>0, <5>1, AfterUpTo, Zenon
          <6> QED
            BY <2>3, <4>1, <4>2, <6>1, Zenon
        <5>2. k <= a.num \/ k > a.num
          BY <5>0, UpToOrOver, Zenon
        <5> QED
          BY <5>1, <5>2, Zenon
      <4> QED
        BY <4>2, <4>3
    <3> QED
      BY <1>0, <2>1, <3>1 DEF NoPhantomFlight
  <2>5. Cardinality(Lost') <= losses'
    <3>1. ASSUME NEW k \in Lost' PROVE k \in Lost
      <4>1. k \in (acked' + 1)..(num' - 1) /\ k \notin Flying' /\ acked' = a.num /\ num' = num
        BY <1>0, <2>1, <3>1, Zenon DEF Lost
      <4>2. k \in (a.num + 1)..(num - 1)
        BY <4>1, Zenon
      <4>3. k \in (acked + 1)..(num - 1) /\ k # a.num
        BY <1>0, <1>1, <1>4, <4>2
      <4>4. k \notin Flying
        BY <1>2, <4>1, <4>3, Zenon
      <4> QED
        BY <4>3, <4>4, Zenon DEF Lost
    <3>2. Cardinality(Lost) <= losses' /\ Cardinality(Lost) \in Nat
      <4>1. Cardinality(Lost) <= losses /\ Cardinality(Lost) \in Nat
        BY <1>0, <1>1, FS_CardinalityType DEF AckInv
      <4> QED
        BY <1>0, <1>2, <4>1
    <3> QED
      <4>1. Lost' \subseteq Lost
        BY <3>1, Zenon
      <4> QED
        BY <1>0, <1>2, <4>1, <3>2, FewerLost
  <2>6. last_seq' = IF acked' = NoSeq THEN NoSeq ELSE acked' % SeqMod
    BY <1>0, <1>1, <2>1
  <2>7. /\ \A d \in data_net' \cup acks' : d.num # NoSeq => d.num < num /\ num - d.num <= MaxDelay
        /\ \A b \in acks' : b.num # NoSeq => b.seq = b.num % SeqMod
    BY <1>2 DEF AckInv
  <2> QED
    BY <1>0, <1>1, <2>1, <2>4, <2>5, <2>6, <2>7 DEF AckInv
<1> QED
  BY <1>3, <1>4

\* An ACK without a sequence number
LEMMA CommandAck == ASSUME TypeInv, AckInv, NEW a \in acks, ApplyCommandAck(a) PROVE AckInv'
<1>0. /\ losses \in Nat /\ a.num = NoSeq /\ Take(a) /\ UNCHANGED <<scenario, num, acked, last_seq, data_net, counts>>
  BY Numbers DEF ApplyCommandAck, workerVars
<1>1. /\ acks' \subseteq acks /\ data_net' \subseteq data_net /\ losses' \in Nat /\ losses' >= losses
      /\ Flying \subseteq Flying'
  BY <1>0, Takes
<1>2. NoPhantomFlight'
  BY <1>0 DEF AckInv, NoPhantomFlight
<1> QED
  BY <1>0, <1>1, <1>2, FewerFlying

\* A packet or an ACK is lost.
LEMMA PacketLost == ASSUME TypeInv, AckInv, LosePacket PROVE AckInv'
<1>0. /\ losses \in Nat /\ losses' = losses + 1
      /\ UNCHANGED <<scenario, num, acked, last_seq, counts>>
  BY Numbers DEF LosePacket, Lose, workerVars, estimateVars
<1>1. PICK x : /\ data_net' \subseteq data_net /\ acks' \subseteq acks
               /\ Flying \subseteq Flying' \cup {x}
  <2>1. ASSUME NEW p \in data_net, data_net' = data_net \ {p}, acks' = acks
        PROVE  Flying \subseteq Flying' \cup {p.num}
    BY <2>1 DEF Flying
  <2>2. ASSUME NEW a \in acks, acks' = acks \ {a}, data_net' = data_net
        PROVE  Flying \subseteq Flying' \cup {a.num}
    BY <2>2 DEF Flying
  <2> QED
    BY <2>1, <2>2 DEF LosePacket
<1>2. NoPhantomFlight'
  BY <1>0 DEF AckInv, NoPhantomFlight
<1>3. losses' \in Nat /\ losses' >= losses
  BY <1>0
<1> QED
  BY <1>0, <1>1, <1>2, <1>3, FewerFlying

\* The device stores a packet and answers it.
LEMMA PacketStored == ASSUME TypeInv, AckInv, NEW p \in data_net, DeviceStores(p) PROVE AckInv'
<1>0. /\ UNCHANGED <<scenario, num, acked, last_seq, counts, losses>> /\ data_net' = data_net \ {p}
      /\ scenario.packets /\ p.num \in Nat /\ NoSeq = -1
  BY Numbers DEF DeviceStores, workerVars, estimateVars, histVars, AckInv
<1> DEFINE f == BufferTotal - fill'
           new == [num |-> p.num, seq |-> p.num % SeqMod, free |-> f]
           bare == [num |-> NoSeq, seq |-> NoSeq, free |-> f]
<1>1. acks' \in {acks \cup {new}, acks \cup {new, bare}}
  BY DEF DeviceStores
<1>2. new.num = p.num /\ new.seq = p.num % SeqMod /\ bare.num = NoSeq
  OBVIOUS
<1> HIDE DEF new, bare
<1>3. Flying' = Flying
  <2>1. ASSUME NEW k PROVE k \in Flying <=> \E d \in data_net \cup acks : d.num = k /\ k # NoSeq
    BY DEF Flying
  <2>2. ASSUME NEW k PROVE k \in Flying' <=> \E d \in data_net' \cup acks' : d.num = k /\ k # NoSeq
    BY DEF Flying
  <2>3. ASSUME NEW d \in data_net \cup acks, d.num # NoSeq
        PROVE  \E e \in data_net' \cup acks' : e.num = d.num
    BY <1>0, <1>1, <1>2
  <2>4. ASSUME NEW d \in data_net' \cup acks', d.num # NoSeq
        PROVE  \E e \in data_net \cup acks : e.num = d.num
    <3>1. d \in data_net \cup acks \/ d = new \/ d = bare
      BY <1>0, <1>1, <2>4
    <3> QED
      BY <1>2, <2>4, <3>1, Zenon
  <2>5. ASSUME NEW k PROVE k \in Flying <=> k \in Flying'
    BY <2>1, <2>2, <2>3, <2>4, Zenon
  <2> QED
    BY <2>5, Zenon
<1>4. Lost' = Lost
  BY <1>0, <1>3 DEF Lost
<1>5. \A d \in data_net' \cup acks' : d.num # NoSeq => d.num < num /\ num - d.num <= MaxDelay
  BY <1>0, <1>1, <1>2 DEF AckInv
<1>6. \A a \in acks' : a.num # NoSeq => a.seq = a.num % SeqMod
  BY <1>0, <1>1, <1>2 DEF AckInv
<1>7. NoPhantomFlight'
  BY <1>0 DEF AckInv, NoPhantomFlight
<1> QED
  BY <1>0, <1>4, <1>5, <1>6, <1>7 DEF AckInv

\* The next packet goes out, and its slot is counted again.
LEMMA PacketSent == ASSUME TypeInv, AckInv, SendOnePacket PROVE AckInv'
<1>0. /\ num \in Nat /\ acked \in Nat \cup {-1} /\ NoSeq = -1 /\ acked < num
      /\ IsFiniteSet(Lost) /\ SeqMod \in Nat \ {0} /\ MaxDelay \in Nat \ {0}
      /\ counts \in [Slots -> 0..FullPacket]
      /\ \A d \in data_net \cup acks : d.num \in Nat \cup {-1}
  BY Numbers, Delays DEF AckInv, TypeInv, WorkerTypes
<1>1. /\ UNCHANGED <<scenario, acked, last_seq, acks, losses>> /\ num' = num + 1 /\ Timely
      /\ data_net' = IF scenario.packets THEN data_net \cup {[num |-> num, len |-> Intended]} ELSE data_net
      /\ counts' = [counts EXCEPT ![num % SeqMod] = Intended]
  BY DEF SendOnePacket
<1>2. PICK p : p.num = num /\ data_net' = IF scenario.packets THEN data_net \cup {p} ELSE data_net
  BY <1>1, Zenon
<1>3. \A d \in data_net' \cup acks' : d.num # NoSeq => d.num < num + 1 /\ (num + 1) - d.num <= MaxDelay
  <2>1. ASSUME NEW d \in data_net \cup acks, d.num # NoSeq
        PROVE  d.num < num + 1 /\ (num + 1) - d.num <= MaxDelay
    <3>1. d.num \in Nat /\ d.num < num /\ num - d.num < MaxDelay
      BY <1>0, <1>1, <2>1 DEF AckInv, Timely
    <3> QED
      BY <1>0, <3>1
  <2>2. p.num < num + 1 /\ (num + 1) - p.num <= MaxDelay
    BY <1>0, <1>2
  <2> QED
    BY <1>1, <1>2, <2>1, <2>2
<1>4. scenario.packets => Lost' \subseteq Lost
  <2>1. SUFFICES ASSUME scenario.packets, NEW k \in Lost' PROVE k \in Lost
    OBVIOUS
  <2>2. k \in (acked + 1)..num /\ k \notin Flying'
    <3>1. k \in (acked + 1)..((num + 1) - 1) /\ k \notin Flying'
      BY <1>1, <2>1, Zenon DEF Lost
    <3>2. (num + 1) - 1 = num
      BY <1>0
    <3> QED
      BY <3>1, <3>2, Zenon
  <2>3. num \in Flying' /\ Flying \subseteq Flying'
    <3>1. num # NoSeq
      BY <1>0
    <3>2. data_net' = data_net \cup {p} /\ acks' = acks /\ p.num = num
      BY <1>1, <1>2, <2>1, Zenon
    <3> QED
      BY <3>1, <3>2, Zenon DEF Flying
  <2>4. k # num /\ k \notin Flying
    BY <2>2, <2>3
  <2>5. k \in (acked + 1)..(num - 1)
    BY <1>0, <2>2, <2>4, SMTT(30)
  <2> QED
    BY <2>4, <2>5 DEF Lost
<1>5. scenario.packets => Cardinality(Lost') <= losses'
  <2>1. SUFFICES ASSUME scenario.packets PROVE Cardinality(Lost') <= losses'
    OBVIOUS
  <2>2. Cardinality(Lost) <= losses /\ losses \in Nat
    BY <2>1, Numbers DEF AckInv
  <2> QED
    BY <1>0, <1>1, <1>4, <2>1, <2>2, FewerLost
<1>6. NoPhantomFlight'
  <2>1. ASSUME NEW s \in Slots, counts'[s] # 0
        PROVE  \E k \in 0..num : k % SeqMod = s /\ k > acked /\ (num + 1) - k <= SeqMod
    <3>1. CASE s = num % SeqMod
      <4>1. num \in 0..num /\ num > acked /\ (num + 1) - num <= SeqMod
        BY <1>0
      <4> QED
        BY <3>1, <4>1
    <3>2. CASE s # num % SeqMod
      <4>1. counts[s] # 0
        BY <1>0, <1>1, <2>1, <3>2
      <4>2. PICK k \in 0..(num - 1) : k % SeqMod = s /\ k > acked /\ num - k <= SeqMod
        BY <4>1 DEF AckInv, NoPhantomFlight
      <4>3. num - k # SeqMod
        <5>1. ASSUME num - k = SeqMod PROVE FALSE
          <6>1. num = SeqMod + k /\ k \in Nat
            BY <1>0, <5>1, SMTT(30)
          <6>2. (k + SeqMod) % SeqMod = k % SeqMod
            <7>1. k \div SeqMod \in Nat /\ k = SeqMod * (k \div SeqMod) + (k % SeqMod) /\ k % SeqMod \in 0..(SeqMod - 1)
              BY <1>0, <6>1, DivMod, Zenon
            <7> DEFINE q == k \div SeqMod
                       r == k % SeqMod
            <7> HIDE DEF q, r
            <7>2. q \in Nat /\ k = SeqMod * q + r /\ r \in 0..(SeqMod - 1)
              BY <7>1 DEF q, r
            <7>3. k + SeqMod = SeqMod * (q + 1) + r
              BY <1>0, <7>2
            <7>4. q + 1 \in Int /\ r \in Int /\ 0 <= r /\ r < SeqMod
              BY <1>0, <7>2, SMTT(30)
            <7>5. (SeqMod * (q + 1) + r) % SeqMod = r
              BY <1>0, <7>4, ModUnique
            <7> QED
              BY <7>3, <7>5 DEF r
          <6>3. SeqMod + k = k + SeqMod
            BY <1>0, <6>1, SMTT(30)
          <6> QED
            BY <3>2, <4>2, <6>1, <6>2, <6>3
        <5> QED
          BY <5>1
      <4>4. k \in 0..num /\ (num + 1) - k <= SeqMod
        BY <1>0, <4>2, <4>3, SMTT(30)
      <4> QED
        BY <4>2, <4>4
    <3> QED
      BY <3>1, <3>2
  <2>2. num' - 1 = num
    BY <1>0, <1>1, SMTT(30)
  <2> QED
    BY <1>1, <2>1, <2>2 DEF NoPhantomFlight
<1>7. acked' < num'
  BY <1>0, <1>1, SMTT(30)
<1> QED
  BY <1>1, <1>3, <1>5, <1>6, <1>7 DEF AckInv

\* A new link has no packet under way.
LEMMA InitAck == ASSUME Init PROVE AckInv
<1>1. /\ num = 0 /\ acked = NoSeq /\ last_seq = NoSeq /\ data_net = {} /\ acks = {} /\ losses = 0
      /\ counts = [s \in Slots |-> 0]
  BY Zenon DEF Init
<1>2. Lost = {}
  BY <1>1 DEF Lost, NoSeq
<1>3. Cardinality(Lost) = 0
  BY <1>2, FS_EmptySet
<1>4. NoPhantomFlight
  BY <1>1 DEF NoPhantomFlight
<1> QED
  BY <1>1, <1>3, <1>4 DEF AckInv, NoSeq

\* Every step keeps the invariant of the ACKs.
LEMMA NextAck == ASSUME TypeInv, AckInv, [Next]_vars PROVE AckInv'
<1> USE DEF handleVars, estimateVars, sharedVars, workerVars, netVars, deviceVars, histVars
<1> DEFINE Same == UNCHANGED <<scenario, num, acked, last_seq, data_net, acks, counts>>
<1>0. losses \in Nat
  BY Numbers
<1>1. CASE Same /\ losses' \in {losses, losses + 1}
  BY <1>0, <1>1, AckStays
<1>2. HandleStep \/ UNCHANGED vars => Same /\ losses' = losses
  BY Zenon DEF vars, HandleStep, Reserve, Enqueue, SetOutput, StopOutput, Shutdown, SendPriority
<1>3. NetStep => \/ (\E p \in data_net : DeviceStores(p)) \/ LosePacket
                 \/ Same /\ losses' \in {losses, losses + 1}
  BY DEF NetStep, DeviceSetOutput, DeviceReports, LoseCommand, Lose
<1>4. WorkerStep => \/ (\E a \in acks : ApplyDataAck(a) \/ ApplyCommandAck(a)) \/ SendOnePacket
                    \/ Same /\ losses' \in {losses, losses + 1}
  BY Zenon DEF WorkerStep, ProcessPriority, PriorityDrained, ProcessCommand, CommandsDrained, ApplyStatus,
         RecordCommandResponse, AcksDrained, SendFails, SendNothing, Wake, Exit, Lose
<1> QED
  BY <1>1, <1>2, <1>3, <1>4, DataAck, CommandAck, PacketStored, PacketLost, PacketSent DEF Next

\* However packets and ACKs are lost, repeated or overtaken by fewer than half the sequence
\* numbers: an ACK moves the estimate exactly if its packet was sent after the one acknowledged
\* last, and the slots counted as in flight are those of packets sent after it (apply_data_ack,
\* seq_newer).
THEOREM AckSafety == Spec => AcksSound
<1>1. Init => TypeInv /\ AckInv
  BY InitTypes, InitAck
<1>2. TypeInv /\ AckInv /\ [Next]_vars => (TypeInv /\ AckInv)'
  BY NextTypes, NextAck
<1>3. TypeInv /\ AckInv /\ [Next]_vars => [NoPhantomFlight' /\ AppliesNewest]_vars
  <2>1. SUFFICES ASSUME TypeInv, AckInv, [Next]_vars PROVE NoPhantomFlight' /\ AppliesNewest
    OBVIOUS
  <2>2. NoPhantomFlight'
    BY <2>1, NextAck DEF AckInv
  <2>3. ASSUME NEW a \in acks, ApplyDataAck(a)
        PROVE  acked' = IF a.num > acked THEN a.num ELSE acked
    <3>1. (last_seq = NoSeq \/ SeqNewer(last_seq, a.seq)) <=> a.num > acked
      BY <2>1, <2>3, AppliesIfNews DEF ApplyDataAck
    <3> QED
      BY <2>3, <3>1 DEF ApplyDataAck
  <2> QED
    BY <2>2, <2>3 DEF AppliesNewest
<1> QED
  BY <1>1, <1>2, <1>3, PTL DEF Spec, AcksSound

===============================================================================
