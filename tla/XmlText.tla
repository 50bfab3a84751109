------------------------------ MODULE XmlText ------------------------------
(***************************************************************************)
(* escapeXml and decodeUtf8 of the JUnit reporter: names and messages are  *)
(* bytes of any kind, and the report must be well-formed XML in UTF-8. The *)
(* loop of escapeXml is a state machine over one value. A piece of output  *)
(* is a character, written as it is or as an entity. The reference, at the *)
(* end, is the tables of the standards, without the arithmetic of the code.*)
(***************************************************************************)
EXTENDS Integers, Sequences

CONSTANTS Byte,        \* the bytes a value is made of
          MaxLength    \* bound: the length of a value

ASSUME ByteAssumption == Byte \subseteq 0 .. 255
ASSUME LengthAssumption == MaxLength \in Nat

VARIABLES value, offset, escaped

textVars == <<value, offset, escaped>>

-----------------------------------------------------------------------------
(* decodeUtf8. The first byte tells the length, the bits it contributes    *)
(* and the smallest code point that needs that many bytes. The C++ masks   *)
(* are divisions here, and shifts by six are multiplications by 64.        *)

MaxCodePoint == 1114111
Surrogate == 55296 .. 57343
Invalid == [codePoint |-> -1, length |-> 0]

Class(first) ==
    CASE first \div 32 = 6   -> [length |-> 2, bits |-> first % 32, minimum |-> 128]
      [] first \div 16 = 14  -> [length |-> 3, bits |-> first % 16, minimum |-> 2048]
      [] first \div 8 = 30   -> [length |-> 4, bits |-> first % 8,  minimum |-> 65536]

IsLead(first) == first \div 32 = 6 \/ first \div 16 = 14 \/ first \div 8 = 30
IsContinuation(byte) == byte \div 64 = 2

(* Fault: a code point may be encoded in more bytes than it needs. *)
IsAllowed_Overlong(codePoint, minimum) ==
    codePoint <= MaxCodePoint /\ codePoint \notin Surrogate

(* No overlong form, nothing beyond U+10FFFF, no surrogate. *)
IsAllowed(codePoint, minimum) ==
    codePoint >= minimum /\ codePoint <= MaxCodePoint /\ codePoint \notin Surrogate

(* The bits of the lead byte, then six of each continuation byte.         *)
CodePoint(bytes, at, class) ==
    LET code[k \in 1 .. class.length] ==
            IF k = 1 THEN class.bits ELSE (code[k - 1] * 64) + (bytes[at + k] % 64)
    IN  code[class.length]

(* The character at an offset, which counts from 0 as in the code. *)
DecodeUtf8(bytes, at) ==
    LET first == bytes[at + 1]
        class == Class(first)
        codePoint == CodePoint(bytes, at, class)
    IN  IF first <= 127 THEN [codePoint |-> first, length |-> 1]
        ELSE IF /\ IsLead(first)
                /\ at + class.length <= Len(bytes)
                /\ \A k \in 2 .. class.length : IsContinuation(bytes[at + k])
                /\ IsAllowed(codePoint, class.minimum)
             THEN [codePoint |-> codePoint, length |-> class.length]
             ELSE Invalid

(* Fault: control characters pass. *)
IsXmlCharacter_Controls(c) == c \notin {65534, 65535}

IsXmlCharacter(c) ==
    \/ c \in {9, 10, 13}
    \/ c \in 32 .. 55295
    \/ c \in 57344 .. 65533
    \/ c \in 65536 .. MaxCodePoint

-----------------------------------------------------------------------------
(* escapeXml *)

Replacement == 65533
Special == {38, 60, 62, 34, 39}      \* & < > " and the apostrophe

Piece(c) == [char |-> c, entity |-> c \in Special]

(* Fault: an invalid byte is replaced but not passed. *)
Advance_Stays(decoded) == decoded.length

(* The bytes that one iteration consumes: an invalid byte alone, so that   *)
(* what follows it is decoded on its own.                                  *)
Advance(decoded) == IF decoded = Invalid THEN 1 ELSE decoded.length

EscapeInit ==
    /\ value \in UNION {[1 .. n -> Byte] : n \in 0 .. MaxLength}
    /\ offset = 0
    /\ escaped = <<>>

(* A character that is not escaped is appended as the bytes it was read    *)
(* from; the model appends its code point, and the encoding of that is     *)
(* these bytes, since DecodeUtf8 passes nothing else on (DecodeIs).        *)
EscapeNext ==
    /\ offset < Len(value)
    /\ LET decoded == DecodeUtf8(value, offset)
           piece   == IF decoded = Invalid \/ ~IsXmlCharacter(decoded.codePoint)
                      THEN Piece(Replacement) ELSE Piece(decoded.codePoint)
       IN  /\ escaped' = Append(escaped, piece)
           /\ offset' = offset + Advance(decoded)
    /\ UNCHANGED value

EscapeSpec == EscapeInit /\ [][EscapeNext]_textVars

-----------------------------------------------------------------------------
(* The reference. *)

(* The table of well-formed byte sequences in the Unicode standard: ranges *)
(* of the first and second byte and the length.                            *)
Row == {[first |-> 0 .. 127,   second |-> {},         length |-> 1],
        [first |-> 194 .. 223, second |-> 128 .. 191, length |-> 2],
        [first |-> {224},      second |-> 160 .. 191, length |-> 3],
        [first |-> 225 .. 236, second |-> 128 .. 191, length |-> 3],
        [first |-> {237},      second |-> 128 .. 159, length |-> 3],
        [first |-> 238 .. 239, second |-> 128 .. 191, length |-> 3],
        [first |-> {240},      second |-> 144 .. 191, length |-> 4],
        [first |-> 241 .. 243, second |-> 128 .. 191, length |-> 4],
        [first |-> {244},      second |-> 128 .. 143, length |-> 4]}

Starts(bytes, i, row) ==
    /\ i + row.length <= Len(bytes) + 1
    /\ bytes[i] \in row.first
    /\ row.length > 1 => bytes[i + 1] \in row.second
    /\ \A k \in 2 .. row.length - 1 : bytes[i + k] \in 128 .. 191

(* The rows of the character at i: one, or none if it is not well-formed.  *)
Fitting(bytes, i) == {row \in Row : Starts(bytes, i, row)}

(* Encoding, the inverse of decoding, digit by digit. *)
Encoding(c) ==
    LET low(n) == 128 + (n % 64)
    IN  IF c < 128 THEN <<c>>
        ELSE IF c < 2048 THEN <<192 + c \div 64, low(c)>>
        ELSE IF c < 65536 THEN <<224 + c \div 4096, low(c \div 64), low(c)>>
        ELSE <<240 + c \div 262144, low(c \div 4096), low(c \div 64), low(c)>>

(* What the text becomes, from i on: pieces of well-formed input stay      *)
(* together, each other byte becomes U+FFFD.                               *)
Pieces(bytes) ==
    LET from[i \in 1 .. Len(bytes) + 1] ==
            IF i > Len(bytes) THEN <<>>
            ELSE IF Fitting(bytes, i) = {} THEN <<Encoding(Replacement)>> \o from[i + 1]
            ELSE LET n == (CHOOSE row \in Fitting(bytes, i) : TRUE).length
                 IN  <<SubSeq(bytes, i, i + n - 1)>> \o from[i + n]
    IN  from[1]

IsControl(bytes) == Len(bytes) = 1 /\ bytes[1] < 32 /\ bytes[1] \notin {9, 10, 13}
IsNonCharacter(bytes) == bytes \in {<<239, 191, 190>>, <<239, 191, 191>>}

-----------------------------------------------------------------------------
(* Properties. *)

(* The loop never leaves the value, and consumes a byte for each piece it  *)
(* writes, so that it ends; the output is code points.                     *)
TextTypeOK ==
    /\ offset \in Len(escaped) .. Len(value)
    /\ escaped \in Seq([char : 0 .. MaxCodePoint, entity : BOOLEAN])

(* The escaped text is the input piece by piece: every well-formed         *)
(* character survives, whatever stands before it, and nothing else does.   *)
KeepsEveryCharacter ==
    offset >= Len(value) =>
        LET pieces == Pieces(value)
        IN  /\ Len(escaped) = Len(pieces)
            /\ \A i \in DOMAIN pieces :
                  Encoding(escaped[i].char) =
                     IF IsControl(pieces[i]) \/ IsNonCharacter(pieces[i])
                     THEN Encoding(Replacement) ELSE pieces[i]

(* At any time the output is text that an XML parser accepts: well-formed  *)
(* UTF-8, no control or non-character and no markup of its own.            *)
OutputIsXmlText ==
    \A i \in DOMAIN escaped :
        /\ Fitting(Encoding(escaped[i].char), 1) # {}
        /\ ~IsControl(Encoding(escaped[i].char))
        /\ ~IsNonCharacter(Encoding(escaped[i].char))
        /\ escaped[i].entity <=> escaped[i].char \in {38, 60, 62, 34, 39}
=============================================================================
