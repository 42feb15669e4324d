--------------------------- MODULE UrlProperties ---------------------------
(***************************************************************************)
(* What the functions of UrlEncoding promise, over all inputs of a bounded *)
(* length: a text that is encoded or decoded, and the arguments a client   *)
(* puts into a query.                                                      *)
(***************************************************************************)
EXTENDS UrlEncoding

CONSTANTS
  TextBytes,   \* bytes texts are made of
  PartBytes,   \* bytes keys and values are made of
  MaxText,     \* bound on the length of a text
  MaxPart,     \* bound on the length of a key or a value
  MaxArgs      \* bound on the number of arguments

ASSUME UrlAssumption ==
  /\ TextBytes \subseteq 0 .. 255 /\ PartBytes \subseteq 1 .. 255
  /\ MaxText \in Nat /\ MaxPart \in Nat
  /\ MaxArgs \in 0 .. 2              \* see AddArgument

VARIABLES text, args

urlVars == <<text, args>>

UrlInit == text = <<>> /\ args = <<>>

Parts == SeqOf(PartBytes, MaxPart)

UrlNext ==
  \/ /\ args = <<>> /\ Len(text) < MaxText
     /\ \E b \in TextBytes : text' = Append(text, b)
     /\ UNCHANGED args
  \/ /\ text = <<>> /\ Len(args) < MaxArgs
     /\ \E k \in Parts \ {<<>>}, v \in Parts : args' = Append(args, <<k, v>>)
     /\ UNCHANGED text

\* The query of a client that encodes keys and values as RFC 3986 asks.
ClientQuery ==
  FlattenSeq([i \in DOMAIN args |->
    (IF i = 1 THEN <<>> ELSE <<Ampersand>>)
      \o Urlencode(args[i][1]) \o <<EqualSign>> \o Urlencode(args[i][2])])

-----------------------------------------------------------------------------
(***************************************************************************)
(* Properties.                                                             *)
(***************************************************************************)
\* Decoding undoes encoding, byte for byte and to the end of the text, and what is
\* written fills a buffer of the size dfk_urlencode_hint or dfk_urldecode_hint
\* returns.  Only for a text that dfk_urldecode rejects may the hint be too small:
\* what is written before the bad escape need not fit.
CodecInverse ==
  LET encoded == Urlencode(text)
      decoded == Urldecode(text)
  IN  /\ Len(encoded) = UrlencodeHint(text)
      /\ Urldecode(encoded) = [out |-> text, consumed |-> Len(encoded)]
      /\ decoded.consumed = Len(text) => Len(decoded.out) = UrldecodeHint(text)

\* A key or value that the splitting of the decoded query cannot cut short: the
\* first byte is never taken for a separator, any other may be.
Uncut(part, separator) == \A i \in 2 .. Len(part) : part[i] # separator

\* Every argument of the client arrives in req->arguments with its key and its value
\* exactly if no value is empty, no key contains '=' and no value '&' behind its first
\* byte (because decoding comes first, an encoded separator separates), and no key is
\* equal to an earlier one or begins with it (dfk_strmap_insert would drop it).
QueryExact ==
  args # <<>> =>
    (ParseQuery(ClientQuery) = [err |-> "ok", args |-> args]
       <=> \A i \in DOMAIN args : /\ Uncut(args[i][1], EqualSign)
                                  /\ args[i][2] # <<>>
                                  /\ Uncut(args[i][2], Ampersand)
                                  /\ \A j \in 1 .. i - 1 : ~ IsPrefix(args[j][1], args[i][1]))
=============================================================================
