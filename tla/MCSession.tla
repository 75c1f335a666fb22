------------------------------- MODULE MCSession -------------------------------
(* Small instances of SessionDriver: see the MCSession_*.cfg files. *)
EXTENDS SessionDriver, TLC

CONSTANTS h1, h2

OneHandle == {h1}
TwoHandles == {h1, h2}
HandleSymmetry == Permutations(TwoHandles)

OneRate == {2}
ThreeRates == 1..3
OneRange == {[min |-> 1, max |-> 3]}
ThreeRanges == {[min |-> 1, max |-> 3], [min |-> 2, max |-> 2], [min |-> 2, max |-> 3]}

StreamOn(model) ==
    [model |-> model, source |-> "stream", idle_stop |-> FALSE,
     blocks |-> FALSE, policy |-> TRUE, limit |-> 1]

Udp == [StreamOn("UdpTimed") EXCEPT !.idle_stop = TRUE]
Net == StreamOn("NetworkFifo")
Usb == [StreamOn("UsbFrameSwap") EXCEPT !.source = "frame", !.limit = NoLimit]
Fifo == StreamOn("BlockingFifo")
BlockingFifo == [Fifo EXCEPT !.blocks = TRUE]
NoPolicy == [Net EXCEPT !.policy = FALSE]

BlockingOnly == {BlockingFifo}
EveryAdapter == {Udp, Net, Usb, Fifo, BlockingFifo}

\* The setups in which the rate, and not the armed state, is what changes.
RateSetups == {NoPolicy, [Udp EXCEPT !.idle_stop = FALSE]}
EveryQuestion == EveryAdapter \cup RateSetups

\* Both handles are in a call at once only on one of the adapters, up to a disarm.
OneCall == \A g, h \in Pending : g = h

OneQuestion ==
    IF setup \in RateSetups
    THEN desired = 0
    ELSE /\ OneCall \/ (setup = Udp /\ desired <= 4)
         /\ {caps, cand.caps} \subseteq OneRange
         /\ rate = [pps |-> 2, min |-> 1, max |-> 3]
===============================================================================
