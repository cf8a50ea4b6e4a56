---------------------------- MODULE FrameParser ----------------------------
(***************************************************************************)
(* The wire format of frames: FrameParser of _core.pyx.                    *)
(*                                                                         *)
(* The widths are scaled down.  A length up to Inline (125) stands in the  *)
(* second byte, Inline + 1 (126) announces two and Inline + 2 (127) Wide   *)
(* (8) digits of base Base (256).  The rest of the header is as it is.     *)
(***************************************************************************)
EXTENDS Naturals, Sequences

CONSTANTS Inline,    \* 125: longest length in the second byte, and of a control frame
          Base,      \* 256: values of a byte
          Wide,      \* 8: bytes of the longest form of a length
          MaxFrame   \* max_frame_size

\* Base to the power n.
Power(n) == LET power[i \in 0 .. n] == IF i = 0 THEN 1 ELSE Base * power[i - 1]
            IN power[n]

ASSUME WidthsAssumption == /\ {Inline, Base, Wide, MaxFrame} \subseteq Nat
                           /\ Base \in 1 .. 256
                           /\ Inline + 2 < 128
                           /\ Inline < Base * Base
                           /\ MaxFrame < Power(Wide)

Byte == 0 .. 255

TEXT == 1
CLOSE == 8
PING == 9
PONG == 10
Opcodes == {0, TEXT, 2, CLOSE, PING, PONG}
IsControl(op) == op >= 8

\* The exclusive or of two bytes, bit by bit: w is the bit's weight.
XorBit(a, b, w) == w * ((a \div w + b \div w) % 2)
Xor(a, b) == XorBit(a, b, 1) + XorBit(a, b, 2) + XorBit(a, b, 4) + XorBit(a, b, 8)
             + XorBit(a, b, 16) + XorBit(a, b, 32) + XorBit(a, b, 64) + XorBit(a, b, 128)

\* Stands for the four random bytes of a mask.
MaskKey == <<5, 0, 3, 6>>
ApplyMask(s, key) == [i \in DOMAIN s |-> Xor(s[i], key[((i - 1) % 4) + 1])]
-----------------------------------------------------------------------------
(***************************************************************************)
(* Encoding.                                                               *)
(***************************************************************************)
Digits(n, width) == [i \in 1 .. width |-> (n \div Power(width - i)) % Base]

\* Mutant of LengthForm: the longest two-byte length is taken to fit in one byte.
LengthFormInlines(n) == IF n <= Inline + 1 THEN <<n, <<>>>>
                        ELSE IF n < Base * Base THEN <<Inline + 1, Digits(n, 2)>>
                        ELSE <<Inline + 2, Digits(n, Wide)>>

\* The length in the second byte, and the bytes that follow it.
LengthForm(n) == IF n <= Inline THEN <<n, <<>>>>
                 ELSE IF n < Base * Base THEN <<Inline + 1, Digits(n, 2)>>
                 ELSE <<Inline + 2, Digits(n, Wide)>>

Encode(f, masked) ==
    LET form == LengthForm(Len(f.payload))
    IN <<f.op + (IF f.fin THEN 128 ELSE 0), form[1] + (IF masked THEN 128 ELSE 0)>> \o form[2]
       \o (IF masked THEN MaskKey \o ApplyMask(f.payload, MaskKey) ELSE f.payload)
-----------------------------------------------------------------------------
(***************************************************************************)
(* Parsing.                                                                *)
(***************************************************************************)
Number(digits) == LET value[i \in 0 .. Len(digits)] ==
                          IF i = 0 THEN 0 ELSE value[i - 1] * Base + digits[i]
                  IN value[Len(digits)]

Fin(b) == b[1] >= 128
ReservedBits(b) == (b[1] \div 16) % 4
OpcodeOf(b) == b[1] % 16
Masked(b) == b[2] >= 128
ShortLen(b) == b[2] % 128

\* How many bytes of length follow the second byte.
Extra(b) == IF ShortLen(b) <= Inline THEN 0 ELSE IF ShortLen(b) = Inline + 1 THEN 2 ELSE Wide
PayloadLen(b) == IF Extra(b) = 0 THEN ShortLen(b) ELSE Number(SubSeq(b, 3, 2 + Extra(b)))
HeaderSize(b) == 2 + Extra(b) + (IF Masked(b) THEN 4 ELSE 0)
TotalSize(b) == HeaderSize(b) + PayloadLen(b)

\* What is at the front of b: a frame, too little for one ("more"), or "error".
\* The checks come in this order: a frame is refused before its payload is there.
\* The exception is a ValueError, or, at 2^63 and more, the OverflowError of the
\* conversion to Py_ssize_t, which nobody turns into an error of the protocol.
FrontOf(b) ==
    IF Len(b) < 2 THEN "more"
    ELSE IF OpcodeOf(b) \notin Opcodes \/ ReservedBits(b) # 0 THEN "error"
    ELSE IF Len(b) < 2 + Extra(b) THEN "more"
    ELSE IF PayloadLen(b) > MaxFrame THEN "error"
    ELSE IF IsControl(OpcodeOf(b)) /\ (PayloadLen(b) > Inline \/ ~Fin(b)) THEN "error"
    ELSE IF Len(b) < TotalSize(b) THEN "more"
    ELSE "frame"

FrameOf(b) ==
    LET body == SubSeq(b, HeaderSize(b) + 1, TotalSize(b))
        key == SubSeq(b, HeaderSize(b) - 3, HeaderSize(b))
    IN [op |-> OpcodeOf(b), fin |-> Fin(b),
        payload |-> IF Masked(b) THEN ApplyMask(body, key) ELSE body]

\* Mutant of Feed: what is left of an incomplete frame is thrown away.
FeedForgets(b) ==
    LET from[i \in 1 .. Len(b) + 1] ==
            LET rest == SubSeq(b, i, Len(b))
                front == FrontOf(rest)
            IN IF front = "frame"
               THEN LET next == from[i + TotalSize(rest)]
                    IN [next EXCEPT !.frames = <<FrameOf(rest)>> \o @]
               ELSE [frames |-> <<>>, rest |-> <<>>, ok |-> front = "more"]
    IN from[1]

\* feed(), for the buffer and the new chunk together: the complete frames at
\* the front and the bytes that stay in the buffer.  If ok is FALSE it raises and
\* the frames are never returned, though they have left the buffer.
Feed(b) ==
    LET from[i \in 1 .. Len(b) + 1] ==
            LET rest == SubSeq(b, i, Len(b))
                front == FrontOf(rest)
            IN IF front = "frame"
               THEN LET next == from[i + TotalSize(rest)]
                    IN [next EXCEPT !.frames = <<FrameOf(rest)>> \o @]
               ELSE [frames |-> <<>>, rest |-> rest, ok |-> front = "more"]
    IN from[1]
=============================================================================
