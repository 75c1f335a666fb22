------------------------------ MODULE WireFormat ------------------------------
(***************************************************************************)
(* How the protocol modules of the crate lay out messages in bytes, and the*)
(* points that they send.                                                  *)
(***************************************************************************)
EXTENDS Integers, Sequences

-----------------------------------------------------------------------------
(***************************************************************************)
(* Fixed binary layouts, as the protocol modules of the crate write and    *)
(* read them.  A layout is the sequence of the fields of a message in wire *)
(* order; an integer field has a width in bytes and a sign, an octet field *)
(* is copied.  A message is a record with the fields' names.               *)
(*                                                                         *)
(* Values stay below 2^31, the integers of the model checker: the top bit  *)
(* of a 32-bit field is never set.                                         *)
(***************************************************************************)

Uint(name, width) == [name |-> name, kind |-> "uint", width |-> width]
Sint(name, width) == [name |-> name, kind |-> "sint", width |-> width]
Octets(name, width) == [name |-> name, kind |-> "octets", width |-> width]

BigEndian == "big"
LittleEndian == "little"

\* Byte k of v, the least significant one being byte 0; a negative number has the
\* bytes of its two's complement.
Digit(v, k) == (v \div 256^k) % 256

IntBytes(order, v, w) ==
    [i \in 1..w |-> Digit(v, IF order = BigEndian THEN w - i ELSE i - 1)]

IntOf(order, bytes) ==
    LET n == Len(bytes)
        up[k \in 0..n] == IF k = 0 THEN 0
                          ELSE up[k - 1] * 256 + bytes[IF order = BigEndian THEN k ELSE n + 1 - k]
    IN  up[n]

\* The value of a signed field from its unsigned one.
Signed(v, w) == IF v >= 256^w \div 2 THEN v - 256^w ELSE v

\* The sequences one after the other
Concat(seqs) ==
    LET upTo[k \in 0..Len(seqs)] == IF k = 0 THEN <<>> ELSE upTo[k - 1] \o seqs[k]
    IN  upTo[Len(seqs)]

\* The width of the first k fields
Offset(layout, k) ==
    LET upTo[i \in 0..k] == IF i = 0 THEN 0 ELSE upTo[i - 1] + layout[i].width
    IN  upTo[k]
Width(layout) == Offset(layout, Len(layout))

WriteBytes(order, layout, m) ==
    Concat([i \in DOMAIN layout |->
        IF layout[i].kind = "octets" THEN m[layout[i].name]
        ELSE IntBytes(order, m[layout[i].name], layout[i].width)])

\* The message at the start of `bytes`, which has to hold it.
ReadBytes(order, layout, bytes) ==
    LET index(name) == CHOOSE i \in DOMAIN layout : layout[i].name = name
        value(i) == LET at == Offset(layout, i - 1)
                        raw == SubSeq(bytes, at + 1, at + layout[i].width)
                    IN  CASE layout[i].kind = "octets" -> raw
                          [] layout[i].kind = "uint" -> IntOf(order, raw)
                          [] layout[i].kind = "sint" -> Signed(IntOf(order, raw), layout[i].width)
    IN  [name \in {layout[i].name : i \in DOMAIN layout} |-> value(index(name))]

LE(layout, m) == WriteBytes(LittleEndian, layout, m)
FromLE(layout, bytes) == ReadBytes(LittleEndian, layout, bytes)

After(bytes, n) == SubSeq(bytes, n + 1, Len(bytes))
Take(bytes, n) == SubSeq(bytes, 1, n)

-----------------------------------------------------------------------------
(***************************************************************************)
(* LaserPoint and its conversions (point.rs).  A coordinate is an integer  *)
(* in units of 1/32767, and may be outside -1.0..1.0; colours have 16      *)
(* bits.                                                                   *)
(***************************************************************************)

Full == 32767
ClampUnit(v) == IF v > Full THEN Full ELSE IF v < -Full THEN -Full ELSE v

\* The integer nearest to n / d, halves away from zero, for n >= 0
Rounded(n, d) == (2 * n + d) \div (2 * d)

CoordToU12(v) == Rounded((ClampUnit(v) + Full) * 4095, 2 * Full)
CoordToU12Inverted(v) == CoordToU12(-v)
CoordToI16Inverted(v) == -ClampUnit(v)
ColorToU8(c) == (c * 255 + 32767) \div 65535
ColorToU12(c) == c \div 16

\* c * intensity / 65535, rounded down, from factors whose product stays below 2^31
Dim(c, intensity) ==
    IF intensity <= Full THEN (c * intensity) \div 65535
    ELSE c - (c * (65535 - intensity) + 65534) \div 65535

===============================================================================
