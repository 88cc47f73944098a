--------------------------------- MODULE Wire ---------------------------------
(* The framing of the wire protocol: a u32 length, least significant byte   *)
(* first, and a body.  A byte is a number below 256; what bodies mean is    *)
(* left to their readers.                                                   *)
EXTENDS Naturals, Sequences

Byte == 0 .. 255
Prefix == 4

(* encode: the length is cut to 32 bits.                                    *)
Encode(body) ==
    LET a == Len(body)
        b == a \div 256
        c == b \div 256
        d == c \div 256
    IN  << a % 256, b % 256, c % 256, d % 256 >> \o body

(* decode: how long a frame at the front of b is, whether all of it is      *)
(* there, its body, and what follows it.                                    *)
Size(b) == Prefix + b[1] + 256 * (b[2] + 256 * (b[3] + 256 * b[4]))
Whole(b) == Len(b) >= Prefix /\ Len(b) >= Size(b)
Body(b) == SubSeq(b, Prefix + 1, Size(b))
After(b) == SubSeq(b, Size(b) + 1, Len(b))
===============================================================================
