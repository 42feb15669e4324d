---------------------------- MODULE UrlEncoding ----------------------------
(***************************************************************************)
(* Percent-encoding (urlencoding.c) and the arguments of a URL's query     *)
(* (the end of dfk__http_request_read_headers, request.c), as functions on *)
(* sequences of bytes.  A byte is its ASCII code.                          *)
(***************************************************************************)
EXTENDS Integers, Sequences, FiniteSets, SequencesExt

Percent == 37
Ampersand == 38
EqualSign == 61

(***************************************************************************)
(* The tables.                                                             *)
(***************************************************************************)
Invalid == 255

\* hex_to_byte.
HexToByte(c) ==
  CASE c \in 48 .. 57  -> c - 48
    [] c \in 65 .. 70  -> c - 55
    [] c \in 97 .. 102 -> c - 87
    [] OTHER           -> Invalid

HexDigit(n) == IF n < 10 THEN 48 + n ELSE 55 + n

\* bytelo_to_hex, bytehi_to_hex.
ByteLoToHex(b) == HexDigit(b % 16)
ByteHiToHex(b) == HexDigit(b \div 16)

\* dfk__urlencode_unreserved.
Unreserved(c) == c \in (97 .. 122) \cup (65 .. 90) \cup (48 .. 57) \cup {45, 46, 95, 126}

(***************************************************************************)
(* Encoding and decoding.                                                  *)
(***************************************************************************)
\* Mutant: the two digits are swapped.
EncodeByteSwapped(b) ==
  IF Unreserved(b) THEN <<b>> ELSE <<Percent, ByteLoToHex(b), ByteHiToHex(b)>>

EncodeByte(b) ==
  IF Unreserved(b) THEN <<b>> ELSE <<Percent, ByteHiToHex(b), ByteLoToHex(b)>>

\* dfk_urlencode, dfk_urlencode_hint.
Urlencode(buf) == FlattenSeq([i \in DOMAIN buf |-> EncodeByte(buf[i])])
UrlencodeHint(buf) == Len(buf) + 2 * Cardinality({i \in DOMAIN buf : ~ Unreserved(buf[i])})

\* A '%' at i with two hexadecimal digits behind it.
Escape(buf, i) ==
  /\ i + 2 <= Len(buf)
  /\ HexToByte(buf[i + 1]) # Invalid /\ HexToByte(buf[i + 2]) # Invalid

\* dfk_urldecode: what is written, and how many bytes are consumed.
Urldecode(buf) ==
  LET From[i \in 1 .. Len(buf) + 1] ==
        IF i > Len(buf) THEN [out |-> <<>>, consumed |-> i - 1]
        ELSE IF buf[i] # Percent
             THEN [From[i + 1] EXCEPT !.out = <<buf[i]>> \o @]
        ELSE IF Escape(buf, i)
             THEN [From[i + 3] EXCEPT
                     !.out = <<16 * HexToByte(buf[i + 1]) + HexToByte(buf[i + 2])>> \o @]
        ELSE [out |-> <<>>, consumed |-> i - 1]
  IN  From[1]

\* dfk_urldecode_hint, in the arithmetic of size_t (here: 16 bits).
UrldecodeHint(buf) ==
  (Len(buf) - 2 * Cardinality({i \in DOMAIN buf : buf[i] = Percent})) % 2^16

(***************************************************************************)
(* The arguments of a query.  The query is decoded first and split then.   *)
(***************************************************************************)
\* Mutant: the comparison of the map takes a longer stored key for equal, too.
AddArgumentEither(args, key, value) ==
  IF \E i \in DOMAIN args : IsPrefix(args[i][1], key) \/ IsPrefix(key, args[i][1]) THEN args
  ELSE Append(args, <<key, value>>)

\* dfk_http_request_add_argument, to the end of dfk_strmap_insert, for a key without
\* NUL: to dfk__strmap_lookup_cmp a stored key that is equal to the new one or a
\* prefix of it is the same key, and the new item is dropped without a word.  Of
\* three arguments and more, the search in the tree may pass by such a key: what
\* becomes of the third is not settled here.
AddArgument(args, key, value) ==
  IF \E i \in DOMAIN args : IsPrefix(args[i][1], key) THEN args
  ELSE Append(args, <<key, value>>)

\* One round of the switch: `state' is 0 (initial), 1 (reading key), 2 (behind
\* '='), or 3 (reading value); key and value are what lies between the pointers.
QueryByte(q, b) ==
  CASE q.state = 0 -> [q EXCEPT !.key = <<b>>, !.state = 1]
    [] q.state = 1 -> IF b = EqualSign THEN [q EXCEPT !.state = 2] ELSE [q EXCEPT !.key = Append(@, b)]
    [] q.state = 2 -> [q EXCEPT !.value = <<b>>, !.state = 3]
    [] q.state = 3 -> IF b = Ampersand
                      THEN [q EXCEPT !.args = AddArgument(@, q.key, q.value), !.state = 0]
                      ELSE [q EXCEPT !.value = Append(@, b)]

\* The arguments that are stored, in the order of dfk_http_request_add_argument, and
\* the error.
ParseQuery(query) ==
  LET decoded == Urldecode(query)
      q == FoldLeft(QueryByte, [state |-> 0, key |-> <<>>, value |-> <<>>, args |-> <<>>],
                    decoded.out)
      ok == decoded.consumed = Len(query) /\ q.state \in {0, 3}
  IN  [err  |-> IF ok THEN "ok" ELSE "protocol",
       args |-> IF q.state = 3 THEN AddArgument(q.args, q.key, q.value) ELSE q.args]
=============================================================================
