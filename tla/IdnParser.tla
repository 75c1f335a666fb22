------------------------------- MODULE IdnParser -------------------------------
(***************************************************************************)
(* What the receiver's parser (receiver/parser.rs) makes of a channel      *)
(* message, given the configuration it remembers for the source.           *)
(*                                                                         *)
(* A channel message is a record: its chunk type, the configuration it     *)
(* carries (NoConfig for none), and the point format, the service data     *)
(* match and the number of its samples.                                    *)
(***************************************************************************)
EXTENDS Integers

CONSTANT SampleSize    \* point format -> bytes per sample

ASSUME ParserAssumption == \A f \in DOMAIN SampleSize : SampleSize[f] \in Nat \ {0}

Formats == DOMAIN SampleSize
NoConfig == [routing |-> FALSE, close |-> FALSE, format |-> "none", sdm |-> 0, mode |-> "none"]
NoState == [format |-> "none", sdm |-> 0, mode |-> "none"]

ChannelState ==
    [format : Formats, sdm : {0, 1}, mode : {"Continuous", "Discrete"}] \cup {NoState}

Accepts(mode, type) ==
    \/ mode = "Continuous" /\ type = "Wave"
    \/ mode = "Discrete" /\ type \in {"Frame", "FrameFirst", "FrameSequel"}

\* parse_frame_data_with_metadata: whether the datagram yields a chunk, in which
\* format it is read, and the channel state it leaves. The configuration is that of
\* the message, if it has one, or the one remembered for its source.
Parse(d, cached) ==
    LET state == IF d.config.routing
                 THEN [format |-> d.config.format, sdm |-> d.config.sdm, mode |-> d.config.mode]
                 ELSE cached
        update == IF d.config.close THEN NoState ELSE state
        result(chunk, left) == [chunk |-> chunk, state |-> left, as |-> state.format]
    IN  CASE d.type = "Void" -> result(FALSE, update)
          [] d.type # "Void" /\ state = NoState -> result(FALSE, cached)
          [] d.type # "Void" /\ state # NoState ->
                IF ~Accepts(state.mode, d.type) THEN result(FALSE, update)
                ELSE IF d.type # "FrameSequel" /\ d.sdm # state.sdm THEN result(FALSE, NoState)
                ELSE IF (d.n * SampleSize[d.format]) % SampleSize[state.format] # 0
                     THEN result(FALSE, cached)
                     ELSE result(TRUE, update)

===============================================================================
