--------------------------------- MODULE Utf8 ---------------------------------
(***************************************************************************)
(* The UTF-8 decoder in KTerm_ProcessNormalChar (kterm_impl.h), which is   *)
(* given one byte at a time and keeps what it has of a character between   *)
(* calls.  Where the decoded character is put is left out; the mapping of  *)
(* some of them to CP437 glyphs, too.                                      *)
(***************************************************************************)
EXTENDS Integers, Sequences

CONSTANT
    HostBytes       \* the bytes the host sends, 32 .. 255

Replacement == 65533    \* U+FFFD

VARIABLES
    utf8,       \* session->utf8: left (bytes_remaining), codepoint, min (min_codepoint)
    pieces,     \* ghost: what the last byte made visible, characters with their bytes
    pending     \* ghost: the bytes of the character that is not complete

decode == <<utf8, pieces, pending>>

None == [left |-> 0, codepoint |-> 0, min |-> 0]
Piece(c, bytes) == [char |-> c, bytes |-> bytes]

-------------------------------------------------------------------------------
\* What a start byte announces: how many follow it, its own bits and the least
\* code point that needs as many.  C0, C1 and F5 and above start nothing.
Start(b) ==
    CASE b \in 194 .. 223 -> [left |-> 1, codepoint |-> b % 32, min |-> 128]
      [] b \in 224 .. 239 -> [left |-> 2, codepoint |-> b % 16, min |-> 2048]
      [] b \in 240 .. 244 -> [left |-> 3, codepoint |-> b % 8, min |-> 65536]
      [] OTHER -> None

IsContinuation(b) == b \in 128 .. 191

Surrogate(codepoint) == codepoint >= 55296 /\ codepoint <= 57343

\* Wrong variant: the shortest form is not asked for.
ValidOverlong(codepoint, min) == ~Surrogate(codepoint) /\ codepoint <= 1114111

\* Neither overlong, nor a surrogate, nor beyond the last code point.
Valid(codepoint, min) ==
    codepoint >= min /\ ~Surrogate(codepoint) /\ codepoint <= 1114111

\* A byte outside a character.
FirstByte(b) ==
    IF Start(b) # None THEN [utf8 |-> Start(b), out |-> << >>, rest |-> <<b>>]
    ELSE [utf8 |-> utf8, rest |-> << >>,
          out |-> <<Piece(IF b < 128 THEN b ELSE Replacement, <<b>>)>>]

\* Six bits more.
SixMore(codepoint, b) == codepoint * 64 + (b % 64)

ContinueChar(b) ==
    LET codepoint == SixMore(utf8.codepoint, b)
        char == IF Valid(codepoint, utf8.min) THEN codepoint ELSE Replacement
        next == [utf8 EXCEPT !.codepoint = codepoint, !.left = @ - 1]
    IN  IF utf8.left > 1
        THEN [utf8 |-> next, out |-> << >>, rest |-> Append(pending, b)]
        ELSE [utf8 |-> next, out |-> <<Piece(char, Append(pending, b))>>, rest |-> << >>]

\* A byte that does not continue the character: a replacement for what there is of
\* it, and the byte begins anew.
Interrupt(b) ==
    LET fresh == FirstByte(b)
    IN  [fresh EXCEPT !.out = <<Piece(Replacement, pending)>> \o @,
                      !.utf8 = IF Start(b) # None THEN @
                               ELSE [utf8 EXCEPT !.left = 0, !.codepoint = 0]]

Step(b) ==
    CASE utf8.left = 0 -> FirstByte(b)
      [] utf8.left > 0 /\ IsContinuation(b) -> ContinueChar(b)
      [] utf8.left > 0 /\ ~IsContinuation(b) -> Interrupt(b)

Utf8Init == utf8 = None /\ pieces = << >> /\ pending = << >>

NormalChar ==
    \E b \in HostBytes :
        /\ utf8' = Step(b).utf8
        /\ pieces' = Step(b).out
        /\ pending' = Step(b).rest

\* Control characters come first and do not touch the decoder, within a character too.
ControlChar ==
    /\ pieces' = <<Piece(10, <<10>>)>>
    /\ UNCHANGED <<utf8, pending>>

Utf8Next == NormalChar \/ ControlChar

Utf8Spec == Utf8Init /\ [][Utf8Next]_decode

-------------------------------------------------------------------------------
\* The encoding of a character as RFC 3629 has it.
Following(n) == 128 + (n % 64)
Encoding(c) ==
    IF c < 128 THEN <<c>>
    ELSE IF c < 2048 THEN <<192 + (c \div 64), Following(c)>>
    ELSE IF c < 65536 THEN <<224 + (c \div 4096), Following(c \div 64), Following(c)>>
    ELSE <<240 + (c \div 262144), Following(c \div 4096), Following(c \div 64), Following(c)>>
IsScalar(c) == c \in Nat /\ c <= 1114111 /\ ~Surrogate(c)

\* The character of which bytes is the encoding, if there is one.
Decoded(bytes) ==
    CASE Len(bytes) = 1 -> bytes[1] % 128
      [] Len(bytes) = 2 -> SixMore(bytes[1] % 32, bytes[2])
      [] Len(bytes) = 3 -> SixMore(SixMore(bytes[1] % 16, bytes[2]), bytes[3])
      [] OTHER -> SixMore(SixMore(SixMore(bytes[1] % 8, bytes[2]), bytes[3]), bytes[4])
WellFormed(bytes) == IsScalar(Decoded(bytes)) /\ Encoding(Decoded(bytes)) = bytes

\* Every byte shows in one character, in order: the bytes of a well-formed encoding
\* as the character they encode, others as a replacement that hides no character and
\* takes no byte a character could start with.
DecodesUtf8 ==
    /\ \A k \in 1 .. Len(pieces) :
          LET p == pieces[k]
          IN  IF WellFormed(p.bytes) THEN p.char = Decoded(p.bytes)
              ELSE /\ p.char = Replacement
                   /\ \A i \in 2 .. Len(p.bytes) : IsContinuation(p.bytes[i])
                   /\ \A i \in 1 .. Len(p.bytes) : ~WellFormed(SubSeq(p.bytes, 1, i))
    /\ (pending # << >>) <=> (utf8.left > 0)

===============================================================================
