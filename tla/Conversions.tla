----------------------------- MODULE Conversions -----------------------------
(***************************************************************************)
(* The string conversions the components rely on (src/tools.cpp and        *)
(* src/base64.cpp): hexadecimal, base64, splitting and replacing.  A text  *)
(* is a sequence of bytes; positions are counted from 1, and npos is the   *)
(* position after the last byte, which no search returns otherwise.        *)
(*                                                                         *)
(* The state is one text, which grows byte by byte: the conversions are    *)
(* functions, compared with what they should compute at every text.        *)
(***************************************************************************)
EXTENDS Integers, Sequences

CONSTANTS
    Bytes,      \* the bytes that texts are made of
    Delim,      \* a delimiter: "." of dotted keys
    Other,      \* what replaces it: "#" in the key of an account
    MaxLength   \* bound: the longest text

ASSUME BytesAssumption ==
    Bytes \subseteq 0..255 /\ Delim \in 0..255 /\ Other \in 0..255 /\ MaxLength \in Nat

VARIABLE text

Throws == "throws std::out_of_range"
Fails == "returns false"

----------------------------------------------------------------------------
(* Searching, as std::string does.                                         *)

Npos(s) == Len(s) + 1

\* The least element of S, or the position after s.
Lowest(s, S) == IF S = {} THEN Npos(s) ELSE CHOOSE i \in S : \A j \in S : i <= j
FindFirstOf(s, delim, pos) == Lowest(s, {i \in pos..Len(s) : s[i] \in delim})
FindFirstNotOf(s, delim, pos) == Lowest(s, {i \in pos..Len(s) : s[i] \notin delim})
FindLastOf(s, delim) ==
    LET S == {i \in 1..Len(s) : s[i] \in delim} IN
    IF S = {} THEN Npos(s) ELSE CHOOSE i \in S : \A j \in S : i >= j
Find(s, from, pos) ==
    Lowest(s, {i \in pos..Len(s) + 1 - Len(from) : SubSeq(s, i, i + Len(from) - 1) = from})

\* substr(pos, end - pos) and substr(pos), which throws when pos is npos.
Between(s, pos, end) == SubSeq(s, pos, end - 1)
From(s, pos) == IF pos = Npos(s) THEN Throws ELSE SubSeq(s, pos, Len(s))

----------------------------------------------------------------------------
(* Hexadecimal.  Both directions stop at a zero byte, one at the first of  *)
(* a pair; the target, which is empty, was made as long as the source      *)
(* says, so zeroes fill the rest.                                          *)

Zeroes(n) == [i \in 1..n |-> 0]
UpToZero(s) == Between(s, 1, FindFirstOf(s, {0}, 1))
HexDigit(x) == IF x + 48 > 57 THEN x + 48 + 39 ELSE x + 48
HexValue(c) == (IF c > 57 THEN c - 39 ELSE c) % 16

Str2hex(s) ==
    LET n == Len(UpToZero(s)) IN
    [i \in 1..2 * n |-> LET c == s[(i + 1) \div 2] IN
                        HexDigit(IF i % 2 = 1 THEN c \div 16 ELSE c % 16)]
        \o Zeroes(2 * (Len(s) - n))

Firsts(s) == [i \in 1..Len(s) \div 2 |-> s[2 * i - 1]]

\* A text of odd length is refused.
Hex2str(s) ==
    LET n == Len(UpToZero(Firsts(s))) IN
    IF Len(s) % 2 = 1 THEN Fails
    ELSE [i \in 1..n |-> HexValue(s[2 * i - 1]) * 16 + HexValue(s[2 * i])]
            \o Zeroes(Len(s) \div 2 - n)

----------------------------------------------------------------------------
(* base64: groups of three bytes and of four characters; the last group is *)
(* padded.  A character is its index in the alphabet until it is printed.  *)

\* base64_chars
Upper == [i \in 1..26 |-> 64 + i]
Lower == [i \in 1..26 |-> 96 + i]
Digits == [i \in 1..10 |-> 47 + i]
Base64Chars == Upper \o Lower \o Digits \o <<43, 47>>
Pad == 61

\* Byte i of group g, with zero bytes after the end.
ByteOf(s, i) == IF i <= Len(s) THEN s[i] ELSE 0

\* char_array_4 of the three bytes a, b, c.
Quadruple(a, b, c) == <<a \div 4, (a % 4) * 16 + b \div 16, (b % 16) * 4 + c \div 64, c % 64>>

\* Mutant: the padding of the last group is one short.
PaddingShort(s) == IF Len(s) % 3 = 0 THEN 0 ELSE 2 - (Len(s) % 3)

\* The number of '=' after the last group.
Padding(s) == IF Len(s) % 3 = 0 THEN 0 ELSE 3 - (Len(s) % 3)

Base64Encode(s) ==
    LET n == (Len(s) + 2) \div 3
        all == [i \in 1..4 * n |->
                   LET g == (i - 1) \div 4 IN
                   Base64Chars[1 + Quadruple(ByteOf(s, 3 * g + 1), ByteOf(s, 3 * g + 2),
                                             ByteOf(s, 3 * g + 3))[((i - 1) % 4) + 1]]]
    IN [i \in 1..4 * n |-> IF i > 4 * n - Padding(s) THEN Pad ELSE all[i]]

\* base64_chars.find(c) in an unsigned char: npos becomes 255.
Index(c) ==
    IF \E i \in 1..64 : Base64Chars[i] = c THEN (CHOOSE i \in 1..64 : Base64Chars[i] = c) - 1
    ELSE 255

\* char_array_3 of four indices.
Triple(a, b, c, d) ==
    <<(a * 4 + ((b \div 16) % 4)) % 256,
      ((b % 16) * 16 + ((c \div 4) % 16)) % 256,
      ((c % 4) * 64 + d) % 256>>

\* Decoding ends at '=' or at any character that is not of the alphabet; a group
\* that is not complete gives one byte less than it has characters.
Base64Decode(s) ==
    LET m == Lowest(s, {i \in 1..Len(s) : Index(s[i]) = 255}) - 1
        at(i) == IF i <= m THEN Index(s[i]) ELSE 255
        size == (m \div 4) * 3 + (IF m % 4 = 0 THEN 0 ELSE (m % 4) - 1) IN
    [i \in 1..size |->
        LET g == 4 * ((i - 1) \div 3) IN
        Triple(at(g + 1), at(g + 2), at(g + 3), at(g + 4))[((i - 1) % 3) + 1]]

----------------------------------------------------------------------------
(* Replacing and splitting.                                                *)

\* replace(): from is not empty (with an empty one the loop never ends).
Replace(s, from, to) ==
    LET rest[pos \in 1..Npos(s)] ==
            LET f == Find(s, from, pos) IN
            IF f = Npos(s) THEN SubSeq(s, pos, Len(s))
            ELSE Between(s, pos, f) \o to \o rest[f + Len(from)]
    IN rest[1]

\* replace_any(): from is a set of bytes.  A text of them alone throws.
ReplaceAny(s, from, to) ==
    LET rest[pos2 \in 1..Npos(s)] ==
            LET pos == FindFirstOf(s, from, pos2)
                next == FindFirstNotOf(s, from, pos) IN
            IF next = Npos(s) THEN Between(s, pos2, pos)
            ELSE Between(s, pos2, pos) \o to \o rest[next]
        first == FindFirstNotOf(s, from, 1) IN
    IF first = Npos(s) THEN Throws ELSE rest[first]

\* Mutant: a delimiter at the end adds no empty element.
SplitDropsLast(s, delim) ==
    LET rest[pos \in 1..Npos(s)] ==
            LET pos2 == FindFirstOf(s, delim, pos)
                next == FindFirstNotOf(s, delim, pos2) IN
            <<Between(s, pos, pos2)>> \o (IF next = Npos(s) THEN <<>> ELSE rest[next])
    IN rest[1]

\* split(): a run of delimiters counts as one; at the end it adds an empty element.
Split(s, delim) ==
    LET rest[pos \in 1..Npos(s)] ==
            LET pos2 == FindFirstOf(s, delim, pos)
                next == FindFirstNotOf(s, delim, pos2) IN
            <<Between(s, pos, pos2)>>
                \o (IF next # Npos(s) THEN rest[next]
                    ELSE IF pos2 # Npos(s) THEN <<<<>>>> ELSE <<>>)
    IN rest[1]

SplitFirst(s, delim) ==
    LET pos == FindFirstOf(s, delim, 1) IN
    IF pos = Npos(s) THEN <<>> ELSE Between(s, 1, pos)

SplitSecond(s, delim) ==
    LET pos == FindFirstOf(s, delim, 1) IN
    IF pos = Npos(s) THEN <<>> ELSE From(s, FindFirstNotOf(s, delim, pos))

\* The last part with its delimiter in front.
SplitLast(s, delim) ==
    LET pos == FindLastOf(s, delim) IN
    IF pos = Npos(s) THEN <<>> ELSE From(s, pos)

PathPrev(s, delim) ==
    LET found == FindLastOf(s, delim) IN
    IF found = Npos(s) THEN <<>> ELSE Between(s, 1, found)

KeyPrev(s, delim) ==
    LET found == FindLastOf(s, delim) IN
    IF found = Npos(s) THEN s ELSE SubSeq(s, found + 1, Len(s))

----------------------------------------------------------------------------
TextInit == text = <<>>

Grow(b) ==
    /\ Len(text) < MaxLength
    /\ text' = Append(text, b)

TextNext == \E b \in Bytes : Grow(b)

TextSpec == TextInit /\ [][TextNext]_text
----------------------------------------------------------------------------
(* Properties.                                                             *)

\* What base64_encode and str2hex make of a text is read back as that text (hex:
\* up to a zero byte, after which both directions stop and leave zeroes), although
\* the decoder fills an incomplete last group with the index 255 of "not found".
DecodingInverts ==
    /\ Base64Decode(Base64Encode(text)) = text
    /\ Len(Base64Encode(text)) % 4 = 0
    /\ Hex2str(Str2hex(text)) =
          UpToZero(text) \o Zeroes(Len(text) - Len(UpToZero(text)))

\* All elements of parts, with one delimiter between two of them.
Joined(parts) ==
    LET from[i \in 1..Len(parts)] ==
            IF i = Len(parts) THEN parts[i] ELSE parts[i] \o <<Delim>> \o from[i + 1]
    IN IF parts = <<>> THEN <<>> ELSE from[1]

\* s with every run of delimiters as a single one.
Collapsed(s) ==
    LET from[i \in 1..Npos(s)] ==
            IF i = Npos(s) THEN <<>>
            ELSE (IF i < Len(s) /\ s[i] = Delim /\ s[i + 1] = Delim THEN <<>> ELSE <<s[i]>>)
                     \o from[i + 1]
    IN from[1]

\* s without a delimiter at its beginning and at its end.
Stripped(s) ==
    SubSeq(s, IF s # <<>> /\ s[1] = Delim THEN 2 ELSE 1,
              IF s # <<>> /\ s[Len(s)] = Delim THEN Len(s) - 1 ELSE Len(s))

\* What the splitting and replacing functions take apart is the text: the elements
\* of split() give it back but for repeated delimiters, also when it begins or ends
\* with one; split_first and split_second, and path_prev and key_prev, are the two
\* sides of a dotted key, and split_second throws exactly when nothing follows;
\* replace_any() leaves the same but for the delimiters at the ends, and throws
\* exactly when there is nothing else; and replace() changes each delimiter and no
\* other byte, which makes the key of an account the same for "a.b" and "a#b"
\* (auth.cpp:507).
PartsRejoin ==
    LET parts == Split(text, {Delim})
        first == FindFirstOf(text, {Delim}, 1)
        dotted == first # Npos(text) IN
    /\ Joined(parts) = Collapsed(text)
    /\ \A i \in 1..Len(parts) : \A j \in 1..Len(parts[i]) : parts[i][j] # Delim
    /\ dotted =>
          /\ PathPrev(text, {Delim}) \o <<Delim>> \o KeyPrev(text, {Delim}) = text
          /\ PathPrev(text, {Delim}) \o SplitLast(text, {Delim}) = text
          /\ IF \A i \in first..Len(text) : text[i] = Delim
             THEN SplitSecond(text, {Delim}) = Throws
             ELSE /\ SplitFirst(text, {Delim}) = parts[1]
                  /\ Joined(<<parts[1], SplitSecond(text, {Delim})>>)
                        = SubSeq(text, 1, first) \o
                              SubSeq(text, FindFirstNotOf(text, {Delim}, first), Len(text))
    /\ ~dotted => SplitFirst(text, {Delim}) = <<>> /\ KeyPrev(text, {Delim}) = text
    /\ ReplaceAny(text, {Delim}, <<Delim>>) =
          IF \A i \in 1..Len(text) : text[i] = Delim THEN Throws ELSE Stripped(Collapsed(text))
    /\ Replace(text, <<Delim>>, <<Other>>) =
          [i \in 1..Len(text) |-> IF text[i] = Delim THEN Other ELSE text[i]]
=============================================================================
