------------------------------- MODULE AudioSink -------------------------------
(***************************************************************************)
(* The write path that the audio backends share: the streaming resampler   *)
(* (src/resample.rs), and the ring between a producer and the audio        *)
(* callback (protocols/audio_sink.rs), one for every connection.           *)
(*                                                                         *)
(* Points that come at from_rate go out at to_rate, and the phase is       *)
(* carried from one chunk to the next.  A sample is named by its position  *)
(* in the input since the last reset, so buf is the `held` newest samples: *)
(* its front is sample n_in - held, and the code believes it to be sample  *)
(* buf_start.                                                              *)
(*                                                                         *)
(* A ring is the number of points in it.  A write reserves room for what   *)
(* the resampler will emit and then pushes point by point, while the       *)
(* callback goes on taking points out.                                     *)
(***************************************************************************)
EXTENDS Integers

CONSTANTS
    Rates,      \* rates points may be written at
    OutRates,   \* rates a device may play at
    ChunkLens   \* lengths a chunk may have

ASSUME ResamplerAssumption ==
    /\ Rates \subseteq Nat \ {0}
    /\ OutRates \subseteq Nat \ {0}
    /\ ChunkLens \subseteq Nat \ {0}

VARIABLES from_rate, to_rate, held, buf_start, n_in, n_out

resamplerVars == <<from_rate, to_rate, held, buf_start, n_in, n_out>>

ResamplerTypeOK ==
    /\ from_rate \in Nat \ {0} /\ to_rate \in Nat \ {0}
    /\ held \in Nat /\ buf_start \in Nat
    /\ n_in \in Nat /\ n_out \in Nat

\* The rates of a resampler that has not been written to are placeholders.
ResamplerInit ==
    /\ from_rate = 1 /\ to_rate = 1
    /\ held = 0 /\ buf_start = 0 /\ n_in = 0 /\ n_out = 0

Reset ==
    /\ held' = 0 /\ buf_start' = 0 /\ n_in' = 0 /\ n_out' = 0
    /\ UNCHANGED <<from_rate, to_rate>>

-------------------------------------------------------------------------------
\* total_emittable: the outputs that n inputs make possible.
TotalEmittable(from, to, n) == IF n = 0 THEN 0 ELSE ((n - 1) * to) \div from + 1

\* The input sample at or before output n, and whether n lies beyond it.
Index(from, to, n) == (n * from) \div to
Between(from, to, n) == (n * from) % to # 0

\* at: the sample asked for, clamped to the samples there are.
Clamp(i, last) == IF i < 0 THEN 0 ELSE IF i > last THEN last ELSE i

\* Faulty variant: the predecessor of the next output is dropped too.
PruneToNext(from, to, start, n, h) ==
    LET target == Index(from, to, n)
    IN  IF target <= start THEN start
        ELSE IF target <= start + h - 1 THEN target ELSE start + h - 1

\* What is left of the buffer: nothing before the predecessor of the next output
\* is needed again, but one sample is always kept.
PruneTo(from, to, start, n, h) ==
    LET target == Index(from, to, n) - 1
    IN  IF target <= start THEN start
        ELSE IF target <= start + h - 1 THEN target ELSE start + h - 1

\* set_rates followed by process, for a chunk of len points: what a write does to
\* the resampler once the room for its output is reserved.
Rephased(from, to) == from # from_rate \/ to # to_rate
InputsBefore(from, to) == IF Rephased(from, to) THEN 0 ELSE n_in
OutputsBefore(from, to) == IF Rephased(from, to) THEN 0 ELSE n_out
StartBefore(from, to) == IF Rephased(from, to) THEN 0 ELSE buf_start
HeldBefore(from, to) == IF Rephased(from, to) THEN 0 ELSE held

\* pending_output_count, once the rates are set.
PendingOutputCount(from, to, len) ==
    TotalEmittable(from, to, InputsBefore(from, to) + len) - OutputsBefore(from, to)

\* set_rates on its own: a chunk that does not fit has still changed the phase.
SetRates(from, to) ==
    /\ from_rate' = from /\ to_rate' = to
    /\ held' = HeldBefore(from, to) /\ buf_start' = StartBefore(from, to)
    /\ n_in' = InputsBefore(from, to) /\ n_out' = OutputsBefore(from, to)

Process(from, to, len) ==
    LET n == InputsBefore(from, to) + len
        out == TotalEmittable(from, to, n)
        h == HeldBefore(from, to) + len
        start == PruneTo(from, to, StartBefore(from, to), out, h)
    IN  /\ from_rate' = from /\ to_rate' = to
        /\ n_in' = n /\ n_out' = out
        /\ buf_start' = start
        /\ held' = h - (start - StartBefore(from, to))

ResamplerNext ==
    \/ Reset
    \/ \E from \in Rates, to \in OutRates :
          \/ SetRates(from, to)
          \/ \E len \in ChunkLens : Process(from, to, len)

ResamplerSpec == ResamplerInit /\ [][ResamplerNext]_resamplerVars

-------------------------------------------------------------------------------
(* What the backends rely on in the resampler *)

\* The samples output n asks for when n_in is N are all in the buffer, and the
\* buffer has them where at() looks.
Reads(n, N, start, h) ==
    \A d \in {-1, 0, 1, 2} :
        LET i == Clamp(Index(from_rate, to_rate, n) + d, N - 1)
        IN  /\ start <= i /\ i - start < h
            /\ (N - h) + (i - start) = i

\* However the stream was cut into chunks and whatever was pruned in between, the
\* next chunk finds every sample its outputs are interpolated from: at() neither
\* underflows nor reads another sample (the prune invariant of resample.rs).
ReadsTrue ==
    \A len \in ChunkLens :
        \A n \in n_out .. (TotalEmittable(from_rate, to_rate, n_in + len) - 1) :
            Reads(n, n_in + len, buf_start, held + len)

\* An output between two samples is emitted only once the later one has come, so
\* the clamp at the trailing edge of a chunk never moves a point: the phase at a
\* chunk boundary is the one a single pass over the whole stream would have.
NoSnap ==
    /\ n_out = TotalEmittable(from_rate, to_rate, n_in)
    /\ \A len \in ChunkLens :
        \A n \in n_out .. (TotalEmittable(from_rate, to_rate, n_in + len) - 1) :
            Between(from_rate, to_rate, n) =>
                Index(from_rate, to_rate, n) + 1 <= n_in + len - 1

-------------------------------------------------------------------------------
(* The ring *)

CONSTANTS
    Conns,      \* connections that may exist at a time
    Capacity    \* points a ring holds

ASSUME SinkAssumption ==
    /\ Conns \subseteq Nat \ {0}
    /\ Capacity \in Nat \ {0}
    /\ OutRates # {}

VARIABLES
    queue,        \* [Conns -> points in the ring]
    sample_rate,  \* [Conns -> rate the device plays at]
    pushing       \* points of the accepted chunk that are not in the ring yet

sinkVars == <<queue, sample_rate, pushing, resamplerVars>>

SinkTypeOK ==
    /\ queue \in [Conns -> 0..Capacity]
    /\ sample_rate \in [Conns -> OutRates]
    /\ pushing \in Nat
    /\ ResamplerTypeOK

SinkInit ==
    /\ queue = [c \in Conns |-> 0]
    /\ sample_rate = [c \in Conns |-> CHOOSE r \in OutRates : TRUE]
    /\ pushing = 0
    /\ ResamplerInit

\* A fresh runtime: an empty ring for a device that plays at `rate`.
NewRing(c, rate) ==
    /\ queue' = [queue EXCEPT ![c] = 0]
    /\ sample_rate' = [sample_rate EXCEPT ![c] = rate]

ClearQueue(c) == queue' = [queue EXCEPT ![c] = 0]

-------------------------------------------------------------------------------
HasCapacityFor(c, count) == count = 0 \/ Capacity - queue[c] >= count

Fits(c, pps, len) == HasCapacityFor(c, PendingOutputCount(pps, sample_rate[c], len))

\* The write path from set_rates on, for a chunk that fits...
Reserve(c, pps, len) ==
    /\ Fits(c, pps, len)
    /\ pushing' = PendingOutputCount(pps, sample_rate[c], len)
    /\ Process(pps, sample_rate[c], len)
    /\ UNCHANGED <<queue, sample_rate>>

\* ... and for one that does not: WouldBlock.
Block(c, pps, len) ==
    /\ ~Fits(c, pps, len)
    /\ SetRates(pps, sample_rate[c])
    /\ UNCHANGED <<queue, sample_rate, pushing>>

\* push_point: a point that finds the ring full is lost.
PushPoint(c) ==
    /\ pushing > 0
    /\ pushing' = pushing - 1
    /\ queue' = [queue EXCEPT ![c] = IF @ < Capacity THEN @ + 1 ELSE @]
    /\ UNCHANGED <<sample_rate, resamplerVars>>

\* The callback's pop; on an empty ring it holds the last position instead.
Pop(c) ==
    /\ queue' = [queue EXCEPT ![c] = IF @ = 0 THEN 0 ELSE @ - 1]
    /\ UNCHANGED <<sample_rate, pushing, resamplerVars>>

\* The room reserved for a chunk is there until the chunk is in the ring, whatever
\* the callback and the thread that owns the stream do meanwhile: no point of an
\* accepted chunk is lost (the debug_assert of push_point).
Reserved(c) == pushing > 0 => queue[c] + pushing <= Capacity
===============================================================================
