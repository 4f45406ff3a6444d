------------------------------ MODULE Strings ------------------------------
(***************************************************************************)
(* stw::string (system/string.cpp) and the URI functions that socket.cpp   *)
(* and web_socket.cpp share: strings are sequences of character codes.     *)
(* Each function is defined as the code computes it, and followed by what  *)
(* it is meant to compute where that is said differently.                  *)
(***************************************************************************)
EXTENDS Integers, Sequences, SequencesExt, FiniteSetsExt

Percent == 37   Plus == 43   Space == 32   Semicolon == 59   Ampersand == 38
Colon == 58     Slash == 47  Question == 63  Hash == 35      LowerX == 120
Minus == 45     Digit == 48..57

\* A character is a byte.
Chars == 0..255

\* std::string::find from position i on: the place of the first match, or 0.
FindFrom(str, sub, i) ==
    LET at == {j \in i..(Len(str) - Len(sub) + 1) : SubSeq(str, j, j + Len(sub) - 1) = sub}
    IN IF at = {} THEN 0 ELSE Min(at)

\* std::string::substr, from i to the end.
From(str, i) == SubSeq(str, i, Len(str))

contains(haystack, needle) == FindFrom(haystack, needle, 1) # 0
starts_with(haystack, needle) == IsPrefix(needle, haystack)
ends_with(haystack, needle) == IsSuffix(needle, haystack)
index_of(str, subStr) == FindFrom(str, subStr, 1) - 1

---------------------------------------------------------------------------
(* UTF-8.  numBytes is what is still expected of the current character.    *)

Continuation(byte) == byte \in 128..191

ExpectedAfter(byte) ==
    CASE byte < 128          -> 0
      [] byte \in 192..223   -> 1
      [] byte \in 224..239   -> 2
      [] byte \in 240..247   -> 3
      [] OTHER               -> -1

\* Mutant: the last character may be cut off.
IsValidUtf8Unfinished(data) ==
    LET step(numBytes, byte) ==
            CASE numBytes < 0 -> -1
              [] numBytes = 0 -> ExpectedAfter(byte)
              [] OTHER        -> IF Continuation(byte) THEN numBytes - 1 ELSE -1
    IN FoldLeft(step, 0, data) >= 0

IsValidUtf8(data) ==
    LET step(numBytes, byte) ==
            CASE numBytes < 0 -> -1
              [] numBytes = 0 -> ExpectedAfter(byte)
              [] OTHER        -> IF Continuation(byte) THEN numBytes - 1 ELSE -1
    IN FoldLeft(step, 0, data) = 0

\* Data in which every character is as long as its leading byte says.
LeadBytes(data) == {i \in DOMAIN data : ~Continuation(data[i])}
NextAfter(data, i) == Min({j \in LeadBytes(data) : j > i} \cup {Len(data) + 1})
Utf8Shaped(data) ==
    /\ data # <<>> => 1 \in LeadBytes(data)
    /\ \A i \in LeadBytes(data) : NextAfter(data, i) - i - 1 = ExpectedAfter(data[i])

\* A character of UTF-8, by the table in section 4 of RFC 3629: the shortest
\* form of a code point up to 0x10FFFF that is no surrogate.
Utf8Character(c) ==
    LET tail(i) == c[i] \in 128..191
    IN \/ Len(c) = 1 /\ c[1] \in 0..127
       \/ Len(c) = 2 /\ c[1] \in 194..223 /\ tail(2)
       \/ /\ Len(c) = 3 /\ tail(2) /\ tail(3)
          /\ \/ c[1] \in (225..239) \ {237}
             \/ c[1] = 224 /\ c[2] >= 160
             \/ c[1] = 237 /\ c[2] < 160
       \/ /\ Len(c) = 4 /\ tail(2) /\ tail(3) /\ tail(4)
          /\ \/ c[1] \in 241..243
             \/ c[1] = 240 /\ c[2] >= 144
             \/ c[1] = 244 /\ c[2] < 144

\* What RFC 3629 calls UTF-8: each stretch up to the next leading byte is one.
Utf8WellFormed(data) ==
    /\ data # <<>> => 1 \in LeadBytes(data)
    /\ \A i \in LeadBytes(data) : Utf8Character(SubSeq(data, i, NextAfter(data, i) - 1))

\* The bytes that html_decode writes for a code point: none above 0x10FFFF.
SixBits(code) == 128 + (code % 64)
HighBits(code) == code \div 4096
Utf8(code) ==
    CASE code \in 0..127                           -> <<code>>
      [] code \in 128..2047                        -> <<192 + (code \div 64), SixBits(code)>>
      [] code > 2047 /\ HighBits(code) \in 0..15    ->
             <<224 + HighBits(code), SixBits(code \div 64), SixBits(code)>>
      [] HighBits(code) \in 16..271                ->
             <<240 + (HighBits(code) \div 64), SixBits(HighBits(code)),
               SixBits(code \div 64), SixBits(code)>>
      [] OTHER -> <<>>

---------------------------------------------------------------------------
(* Numbers.  Value is a digit's value in any base up to 16, 99 for others. *)

Value(c) == CASE c \in Digit -> c - 48
              [] c \in 65..70 -> c - 55
              [] c \in 97..102 -> c - 87
              [] OTHER -> 99

\* The digits str begins with, and their value.
Digits(str, base) ==
    LET stops == {i \in DOMAIN str : Value(str[i]) >= base}
    IN SubSeq(str, 1, Min(stops \cup {Len(str) + 1}) - 1)
Number(digits, base) == FoldLeft(LAMBDA n, c : base * n + Value(c), 0, digits)

\* operator>> of a stringstream: blanks are skipped.
Blank == {Space, 9, 10, 11, 12, 13}
trim_start(str) == From(str, Min({i \in DOMAIN str : str[i] \notin Blank} \cup {Len(str) + 1}))

\* Numbers of 16 and of 32 bits, without the numbers that are too large for TLC.
FitsIn16Bits(n) == n < 65536
FitsIn32Bits(n) == n \div 65536 < 65536
FitsIn(n, bits) == IF bits = 16 THEN FitsIn16Bits(n) ELSE FitsIn32Bits(n)
Largest(bits) == IF bits = 16 THEN 65535 ELSE 65536 * 65535 + 65535
Negated(n, bits) == IF n = 0 THEN 0 ELSE (Largest(bits) - n) + 1

\* try_parse_uint16 and try_parse_uint32: whether they succeed, and what they
\* store.  A sign may come first, and a negative number wraps; one that is too
\* large is stored as the largest, no digits as 0, and what follows the digits
\* is an error but leaves the number stored.  Nothing is stored when there is
\* nothing but blanks.
UnsignedRead(str, bits) ==
    LET trimmed == trim_start(str)
        signed == trimmed # <<>> /\ trimmed[1] \in {Plus, Minus}
        body == IF signed THEN From(trimmed, 2) ELSE trimmed
        digits == Digits(body, 10)
        n == Number(digits, 10)
    IN [ok |-> digits # <<>> /\ digits = body /\ FitsIn(n, bits),
        stored |-> CASE trimmed = <<>> -> {}
                     [] trimmed # <<>> /\ digits = <<>> -> {0}
                     [] digits # <<>> /\ ~FitsIn(n, bits) -> {Largest(bits)}
                     [] OTHER -> {IF signed /\ trimmed[1] = Minus THEN Negated(n, bits) ELSE n}]
TryParseUint16(str) == IF UnsignedRead(str, 16).ok THEN UnsignedRead(str, 16).stored ELSE {}

---------------------------------------------------------------------------
(* url_decode.  The two characters after % go through an istringstream in  *)
(* hexadecimal: blanks and a sign may come first, and what follows the     *)
(* digits is skipped; 0x is the beginning of a number without digits.  The *)
(* null character stands for the exception.                                *)

HexRead(two) ==
    LET trimmed == trim_start(two)
        sign == IF trimmed # <<>> /\ trimmed[1] \in {Plus, Minus} THEN trimmed[1] ELSE 0
        digits == Digits(IF sign = 0 THEN trimmed ELSE From(trimmed, 2), 16)
        n == Number(digits, 16)
    IN IF digits = <<>> \/ two \in {<<48, LowerX>>, <<48, 88>>} THEN {}
       ELSE {IF sign = Minus THEN (256 - n) % 256 ELSE n}

url_decode(str) ==
    LET hex(i) == IF i + 2 <= Len(str) THEN HexRead(SubSeq(str, i + 1, i + 2)) ELSE {}
        decode[i \in 1..(Len(str) + 1)] ==
            IF i > Len(str) THEN <<>>
            ELSE IF str[i] = Percent /\ hex(i) # {}
                 THEN <<CHOOSE n \in hex(i) : TRUE>> \o decode[i + 3]
                 ELSE <<IF str[i] = Plus THEN Space ELSE str[i]>> \o decode[i + 1]
    IN decode[1]

HexDigit(n) == IF n < 10 THEN n + 48 ELSE n + 55
\* The digits for n: a client may write small letters.
HexDigits(n) == {d \in Digit \cup 65..70 \cup 97..102 : Value(d) = n}

\* What a client may write for a character: a space is also a plus sign.
UrlForms(c) ==
    {<<Percent, h, l>> : h \in HexDigits(c \div 16), l \in HexDigits(c % 16)}
    \cup (IF c \in {Percent, Plus, Space} THEN {} ELSE {<<c>>})
    \cup (IF c = Space THEN {<<Plus>>} ELSE {})

---------------------------------------------------------------------------
(* html_decode.  Entities is the table of named entities, a function from  *)
(* names to values: the table is sorted, so lower_bound finds every name.  *)
(* A name has letters and digits, two of them at least.                    *)

EntitiesOK(Entities) ==
    \A name \in DOMAIN Entities :
        /\ name \in Seq(Chars) /\ Entities[name] \in Seq(Chars) /\ Len(name) >= 2
        /\ \A i \in 1..Len(name) : name[i] \in Digit \cup 65..90 \cup 97..122

NumericEntity(entity) ==
    IF Len(entity) > 2 /\ entity[2] \in {LowerX, 88}
       THEN [digits |-> Digits(From(entity, 3), 16), base |-> 16]
       ELSE [digits |-> Digits(From(entity, 2), 10), base |-> 10]

\* The replacement of an entity, if it has one.  A code is read into a
\* uint32_t: a larger number is an error.
Replacement(entity, Entities) ==
    LET numeric == NumericEntity(entity)
        code == Number(numeric.digits, numeric.base)
    IN IF entity[1] = Hash
          THEN IF numeric.digits # <<>> /\ FitsIn32Bits(code) THEN {Utf8(code)} ELSE {}
          ELSE IF entity \in DOMAIN Entities THEN {Entities[entity]} ELSE {}

html_decode(str, Entities) ==
    LET end(i) == FindFrom(str, <<Semicolon>>, i)
        found(i) == IF str[i] = Ampersand /\ end(i) # 0 /\ end(i) - i > 2
                       THEN Replacement(SubSeq(str, i + 1, end(i) - 1), Entities) ELSE {}
        decode[i \in 1..(Len(str) + 1)] ==
            IF i > Len(str) THEN <<>>
            ELSE IF found(i) # {} THEN (CHOOSE r \in found(i) : TRUE) \o decode[end(i) + 1]
                                  ELSE <<str[i]>> \o decode[i + 1]
    IN decode[1]

Decimal(n) ==
    LET digits[m \in 0..n] == IF m < 10 THEN <<m + 48>> ELSE digits[m \div 10] \o <<(m % 10) + 48>>
    IN digits[n]
Hexadecimal(n) ==
    LET digits[m \in 0..n] == IF m < 16 THEN <<HexDigit(m)>> ELSE digits[m \div 16] \o <<HexDigit(m % 16)>>
    IN digits[n]

---------------------------------------------------------------------------
(* Cutting and pasting.                                                    *)

trim_end(str) == SubSeq(str, 1, Max({i \in DOMAIN str : str[i] \notin Blank} \cup {0}))
trim(str) == trim_end(trim_start(str))

\* The parts behind the first start characters, when so many have been cut off.
\* The test for maxParts comes after the first cut: a maximum of 1 allows two.
split(str, separator, maxParts) ==
    LET cut[at \in {p \in (0..Len(str)) \X (0..Len(str)) : p[2] <= p[1]}] ==
            LET start == at[1] + 1
                parts == at[2]
                end == FindFrom(str, <<separator>>, start)
            IN IF end = 0 \/ (maxParts > 0 /\ parts > 0 /\ parts >= maxParts - 1)
                  THEN <<From(str, start)>>
                  ELSE <<SubSeq(str, start, end - 1)>> \o cut[<<end, parts + 1>>]
    IN cut[<<0, 0>>]

\* For a target that is not empty: the loop does not end for an empty one.
replace(str, target, replacement) ==
    LET paste[start \in 1..(Len(str) + 1)] ==
            LET at == FindFrom(str, target, start)
            IN IF at = 0 THEN From(str, start)
               ELSE SubSeq(str, start, at - 1) \o replacement \o paste[at + Len(target)]
    IN paste[1]

ToLower(c) == IF c \in 65..90 THEN c + 32 ELSE c
to_lower(str) == [i \in DOMAIN str |-> ToLower(str[i])]
to_upper(str) == [i \in DOMAIN str |-> IF str[i] \in 97..122 THEN str[i] - 32 ELSE str[i]]

compare(str1, str2, ignoreCase) ==
    IF ~ignoreCase THEN str1 = str2 ELSE to_lower(str1) = to_lower(str2)

\* The parts with text between them.
JoinedWith(parts, text) ==
    FoldLeft(LAMBDA whole, part : whole \o text \o part, Head(parts), Tail(parts))

---------------------------------------------------------------------------
(* URIs: the first match of each regular expression, {} without one.       *)

Delimiters == <<Colon, Slash, Slash>>

\* The longest run of characters not in stop that begins at i.
RunFrom(str, i, stop) ==
    SubSeq(str, i, Min({j \in i..Len(str) : str[j] \in stop} \cup {Len(str) + 1}) - 1)

\* The places of :// with something before them that the scheme may be.
uri_get_scheme(uri) ==
    LET at == {i \in 2..(Len(uri) - 2) :
                  /\ SubSeq(uri, i, i + 2) = Delimiters
                  /\ uri[i - 1] \notin {Colon, Slash, Question, Hash}}
        end == Min(at)
        begin == Max({j \in 1..(end - 1) : uri[j] \in {Colon, Slash, Question, Hash}} \cup {0})
    IN IF at = {} THEN {} ELSE {SubSeq(uri, begin + 1, end - 1)}

\* The places after :// where a host begins.
HostAt(uri) ==
    {i + 3 : i \in {j \in 1..(Len(uri) - 3) :
        /\ SubSeq(uri, j, j + 2) = Delimiters
        /\ RunFrom(uri, j + 3, {Slash, Question, Hash}) # <<>>}}
uri_get_host(uri) ==
    IF HostAt(uri) = {} THEN {} ELSE {RunFrom(uri, Min(HostAt(uri)), {Slash, Question, Hash})}

\* Mutant: the query stays with the path.
uri_get_pathAndQuery(uri) ==
    LET after == Min(HostAt(uri)) + Len(RunFrom(uri, Min(HostAt(uri)), {Slash, Question, Hash}))
    IN IF HostAt(uri) = {} THEN {} ELSE {RunFrom(uri, after, {Hash})}

uri_get_path(uri) ==
    LET after == Min(HostAt(uri)) + Len(RunFrom(uri, Min(HostAt(uri)), {Slash, Question, Hash}))
    IN IF HostAt(uri) = {} THEN {} ELSE {RunFrom(uri, after, {Question, Hash})}

\* resolve() up to getaddrinfo: host and port, with the schemes' own ports.
Resolved(uri, ports) ==
    LET host == CHOOSE h \in uri_get_host(uri) : TRUE
        scheme == CHOOSE s \in uri_get_scheme(uri) : TRUE
        parts == split(host, Colon, 0)
        named == IF Len(parts) = 2 THEN TryParseUint16(parts[2]) ELSE {}
    IN IF uri_get_scheme(uri) = {} \/ uri_get_host(uri) = {} \/ uri_get_path(uri) = {} THEN {}
       ELSE IF contains(host, <<Colon>>) THEN {<<parts[1], p>> : p \in named}
       ELSE IF scheme \in DOMAIN ports THEN {<<host, ports[scheme]>>} ELSE {}
=============================================================================
