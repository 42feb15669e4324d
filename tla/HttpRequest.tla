---------------------------- MODULE HttpRequest ----------------------------
(***************************************************************************)
(* Reading a request (http/request.c): dfk__http_request_read_headers with *)
(* the buffers it parses from, and dfk_http_request_read with the bytes it *)
(* finds in `_remainder'.                                                  *)
(*                                                                         *)
(* What the client sends is `stream', a sequence of cells.  A cell stands  *)
(* for a stretch of bytes that http_parser treats alike: a piece of the    *)
(* URL, of a header's name or value, the '\n' that ends the headers, a     *)
(* byte of the body, the size line of a chunk or the last chunk.  Bytes    *)
(* are read in order, so what the code keeps of them are positions: `sent' *)
(* cells have arrived, `got' were read from the socket, and the last       *)
(* req.rem of those are the request's _remainder.                          *)
(***************************************************************************)
EXTENDS UrlEncoding

CONSTANTS
  HeadersBufferSize,    \* http->headers_buffer_size, in cells
  HeaderMax             \* DFK_HTTP_HEADER_MAX_SIZE, in cells

ASSUME HttpRequestAssumption ==
  /\ HeaderMax \in Nat \ {0}
  /\ HeadersBufferSize \in Nat /\ HeadersBufferSize >= HeaderMax

VARIABLES
  conf,     \* the build, the server's settings and the habits of the client; constant
  faults,   \* how many more times the environment may fail
  stream,   \* the cells of the requests conf.script
  sent,     \* how many cells have arrived
  peer,     \* the client's side of the connection: "open", "closed", "broken"
  got,      \* how many cells were read from the socket
  pc,       \* where the connection's fiber is
  req,      \* the dfk_http_request_t, and the locals of read_headers
  rd        \* the dfk_http_request_read in progress

clientVars == <<conf, stream, sent, peer>>
requestVars == <<got, req, rd>>

-----------------------------------------------------------------------------
(***************************************************************************)
(* The client's bytes.  A request has the length of its URL, the lengths   *)
(* of the names and values of its headers, and what they say: the version, *)
(* the Connection header, the length of the body (-1 without such header), *)
(* whether Content-Length is written with 22 characters or more, whether   *)
(* the body is chunked, the method, the query and what the path refers to. *)
(* No byte of a body can be taken for the first byte of a request line.    *)
(***************************************************************************)
\* The types of the fields that the cells of a request and its response depend on.
WellTyped(r) ==
  /\ r.url \in Nat /\ r.fields \in Seq(Nat \X Nat) /\ r.len \in Nat \cup {-1}
  /\ r.chunked \in BOOLEAN /\ r.minor \in Nat

Repeat(kind, line, n) == [i \in 1 .. n |-> [kind |-> kind, line |-> line]]

Cells(script, k) ==
  LET r == script[k]
      n == IF r.len = -1 THEN 0 ELSE r.len
      head == Repeat("url", 0, r.url)
                \o FlattenSeq([i \in DOMAIN r.fields |->
                     Repeat("name", i, r.fields[i][1]) \o Repeat("value", i, r.fields[i][2])])
                \o Repeat("lf", 0, 1)
      content == Repeat("body", 0, n)
      all == head \o IF r.chunked THEN Repeat("size", 0, 1) \o content \o Repeat("last", 0, 1)
                     ELSE content
  IN  [i \in DOMAIN all |-> [req |-> k, n |-> i, kind |-> all[i].kind, line |-> all[i].line]]

Stream(script) == FlattenSeq([k \in DOMAIN script |-> Cells(script, k)])

\* The last cell of request k.
MessageEnd(k) == CHOOSE p \in DOMAIN stream : /\ stream[p].req = k
                                              /\ p = Len(stream) \/ stream[p + 1].req # k

-----------------------------------------------------------------------------
(***************************************************************************)
(* dfk__http_request_init and the first allocate_headers_buf.              *)
(***************************************************************************)
NewRequest ==
  [k |-> 0, base |-> got, err |-> "none", nbufs |-> 1, cur |-> HeadersBufferSize,
   rem |-> 0, clen |-> -1, conn |-> "none", chunked |-> FALSE, nread |-> 0, complete |-> FALSE,
   taken |-> <<>>]

Idle == [left |-> 0, out |-> 0, caller |-> "none"]

(***************************************************************************)
(* dfk__http_request_read_headers: one round of its loop per action.       *)
(***************************************************************************)
HeadersReturn(e) == pc' = "returned" /\ req' = [req EXCEPT !.err = e]

\* dfk__mocked_read returns 0 or fails.
NothingToRead == peer = "broken" \/ (sent = got /\ peer = "closed")

MayReadHeaders == pc = "headers" /\ (conf.ndebug \/ req.cur >= HeaderMax)

\* assert(curbuf.size >= DFK_HTTP_HEADER_MAX_SIZE).
HeadersAssertion ==
  /\ pc = "headers" /\ ~ conf.ndebug /\ req.cur < HeaderMax
  /\ pc' = "aborted"
  /\ UNCHANGED <<requestVars, clientVars, faults>>

\* nread <= 0; read(2) of no bytes returns 0.
HeadersEof ==
  /\ MayReadHeaders /\ (NothingToRead \/ req.cur = 0)
  /\ HeadersReturn("eof")
  /\ UNCHANGED <<got, rd, clientVars, faults>>

\* The next cells continue what the parser has seen: it starts at a request line, and
\* goes on where it stopped.
InSync == stream[got + 1].n = got - req.base + 1

\* The callbacks' checks of the URL's, a name's or a value's length, for the
\* headers up to position hi.
Oversized(hi) ==
  \E p \in req.base + 1 .. hi :
    /\ stream[p].kind \in {"url", "name", "value"}
    /\ Cardinality({q \in req.base + 1 .. hi : /\ stream[q].kind = stream[p].kind
                                               /\ stream[q].line = stream[p].line}) > HeaderMax

\* Where pdata.cheader_field begins: the name of the last header seen, or 0.
FieldBegin(hi) ==
  LET names == {p \in req.base + 1 .. hi : stream[p].kind = "name"}
      last == {p \in names : \A q \in names : stream[q].line <= stream[p].line}
  IN  IF names = {} THEN 0 ELSE CHOOSE p \in last : \A q \in last : p <= q

\* dfk_strtoll: its copy of the text holds 21 characters and the 0 behind them.
Strtoll(r) == IF r.padded THEN "overflow" ELSE "ok"

\* req->content_length once the headers are parsed; a chunked request has no
\* Content-Length header.  `lost' is the header there was no memory for.
ContentLength(r, lost) ==
  IF r.len # -1 /\ ~ r.chunked /\ lost # "length" /\ Strtoll(r) = "ok" THEN r.len
  ELSE IF r.chunked THEN -1 ELSE 0

\* Where on_headers_complete pauses the parser within what was read up to hi.
HeadersEnd(hi) == {p \in got + 1 .. hi : stream[p].kind = "lf"}

\* The parser was paused at the '\n' in position p: what was read from there on is
\* the remainder.  The callback ignores that the last header cannot be stored.  The
\* query is parsed last.
HeadersComplete(p, hi) ==
  LET k == stream[p].req
      r == conf.script[k]
      query == IF r.query = <<>> THEN "ok" ELSE ParseQuery(r.query).err
  IN  \E lost \in {"no"} \cup IF faults > 0 /\ r.fields # <<>> THEN {"length", "conn"} ELSE {} :
        /\ pc' = "returned"
        /\ req' = [req EXCEPT !.k = k, !.err = query, !.rem = hi - p + 1,
                              !.clen = ContentLength(r, lost), !.chunked = r.chunked,
                              !.conn = IF lost = "conn" THEN "none" ELSE r.conn]
        /\ faults' = IF lost = "no" THEN faults ELSE faults - 1

\* The buffer is full and the headers have not ended.
NextBuffer(n, hi) ==
  IF FieldBegin(hi) # 0 /\ hi - FieldBegin(hi) + 1 < HeaderMax
  THEN IF req.nbufs = conf.buffers
       THEN HeadersReturn("overflow")
       ELSE req' = [req EXCEPT !.nbufs = @ + 1, !.cur = HeadersBufferSize - n] /\ UNCHANGED pc
  ELSE req' = [req EXCEPT !.cur = @ - n] /\ UNCHANGED pc

\* The parser is given all of curbuf, not the nread bytes of it that were read:
\* unless these end the headers or fill the buffer, it goes on with whatever the
\* memory holds.
StaleBytes ==
  \/ HeadersReturn("protocol")
  \/ HeadersReturn("overflow")
  \/ pc' = (IF conf.ndebug THEN "undefined" ELSE "aborted") /\ UNCHANGED req

Smaller(a, b) == IF a < b THEN a ELSE b

ReadHeaders ==
  /\ MayReadHeaders /\ ~ NothingToRead /\ req.cur > 0 /\ sent > got
  /\ LET n == Smaller(req.cur, sent - got)
         hi == got + n
         ends == HeadersEnd(hi)
         p == CHOOSE q \in ends : \A s \in ends : q <= s
     IN  /\ got' = hi
         /\ \/ ~ InSync /\ HeadersReturn("protocol") /\ UNCHANGED faults
            \/ /\ InSync /\ Oversized(IF ends = {} THEN hi ELSE p)
               /\ HeadersReturn("overflow") /\ UNCHANGED faults
            \/ /\ InSync /\ ends # {} /\ ~ Oversized(p)
               /\ HeadersComplete(p, hi)
            \/ /\ InSync /\ ends = {} /\ ~ Oversized(hi)
               /\ IF n < req.cur THEN StaleBytes ELSE NextBuffer(n, hi)
               /\ UNCHANGED faults
  /\ UNCHANGED <<rd, clientVars>>

\* An allocation fails: a headers buffer, the item of a header or of an argument.
HeadersNoMem ==
  /\ MayReadHeaders /\ faults > 0
  /\ HeadersReturn("nomem")
  /\ faults' = faults - 1
  /\ UNCHANGED <<got, rd, clientVars>>

HeadersStep == HeadersAssertion \/ HeadersEof \/ ReadHeaders \/ HeadersNoMem

-----------------------------------------------------------------------------
(***************************************************************************)
(* dfk_http_request_read(req, buf, n), called by the handler or to skip    *)
(* the body.  Without a body it returns -1 at once.                        *)
(***************************************************************************)
HasBody == req.clen # 0 \/ req.chunked

ReadCall(n, who) ==
  /\ HasBody
  /\ pc' = "read" /\ rd' = [left |-> n, out |-> 0, caller |-> who]

\* The condition of its loop.
ReadGoesOn == pc = "read" /\ rd.left > 0 /\ (rd.out = 0 \/ req.rem > 0)

\* Mutant: what the body has left is not counted.
ToReadUnbounded == rd.left

\* The cells that may be read; the difference of an unknown length is huge.
ToRead == IF req.clen = -1 THEN rd.left ELSE Smaller(rd.left, req.clen - req.nread)

\* What http_parser consumes of m cells from position p on: on_message_complete
\* pauses it at the end of the message, and then it consumes nothing.
Consumed(p, m) == IF req.complete THEN 0 ELSE Smaller(m, MessageEnd(req.k) - p + 1)

\* What on_body gets of c cells from position p on: the stretch of them that is body,
\* since a body has at most one chunk that is not empty.  None is malformed, so
\* http_parser never stops with an error in the middle of a body.
BodyBytes(p, c) ==
  LET body == {q \in p .. p + c - 1 : stream[q].kind = "body"}
  IN  [i \in 1 .. Cardinality(body) |-> stream[Min(body) + i - 1]]

\* Mutant: the remainder shrinks by what the body got of it.
ExecuteCountsBody(p, m, fromRem) ==
  LET c == Consumed(p, m)
      bytes == BodyBytes(p, c)
      b == Len(bytes)
  IN  /\ req' = [req EXCEPT !.rem = IF fromRem THEN @ - b ELSE @,
                            !.nread = @ + b,
                            !.taken = @ \o [i \in 1 .. b |-> bytes[i].n],
                            !.complete = @ \/ p + c - 1 = MessageEnd(req.k)]
      /\ rd' = [rd EXCEPT !.left = @ - b, !.out = @ + b]

\* Execute the parser on m cells from position p on, which are in the remainder or
\* were just read; on_body copies those of the body.
Execute(p, m, fromRem) ==
  LET c == Consumed(p, m)
      bytes == BodyBytes(p, c)
      b == Len(bytes)
  IN  /\ req' = [req EXCEPT !.rem = IF fromRem THEN @ - c ELSE @,
                            !.nread = @ + b,
                            !.taken = @ \o [i \in 1 .. b |-> bytes[i].n],
                            !.complete = @ \/ p + c - 1 = MessageEnd(req.k)]
      /\ rd' = [rd EXCEPT !.left = @ - b, !.out = @ + b]

\* Bytes are cached.
ReadRemainder ==
  /\ ReadGoesOn /\ req.rem > 0 /\ ToRead > 0 /\ ~ req.complete
  /\ Execute(got - req.rem + 1, Smaller(ToRead, req.rem), TRUE)
  /\ UNCHANGED <<got, pc, clientVars, faults>>

\* Bytes are cached, but the message is over: assert(inbuf.size > 0), or, for a
\* chunked body and without assertions, a loop that nothing ends.
ReadBeyond ==
  /\ ReadGoesOn /\ req.rem > 0 /\ (ToRead = 0 \/ req.complete)
  /\ pc' = IF ToRead > 0 \/ conf.ndebug THEN "spinning" ELSE "aborted"
  /\ UNCHANGED <<requestVars, clientVars, faults>>

\* Bytes are read from the socket.  What the parser leaves of them is dropped.
ReadSocket ==
  /\ ReadGoesOn /\ req.rem = 0 /\ ToRead > 0 /\ sent > got /\ peer # "broken"
  /\ LET m == Smaller(ToRead, sent - got) IN
     /\ got' = got + m
     /\ Execute(got + 1, m, FALSE)
  /\ UNCHANGED <<pc, clientVars, faults>>

\* End of file, and read(2) of no bytes, which dfk_tcp_socket_read asserts against.
ReadEof ==
  /\ ReadGoesOn /\ req.rem = 0
  /\ \/ ToRead > 0 /\ sent = got /\ peer = "closed"
     \/ ToRead = 0 /\ conf.ndebug
  /\ rd' = [rd EXCEPT !.left = 0]
  /\ UNCHANGED <<got, req, pc, clientVars, faults>>

ReadNothing ==
  /\ ReadGoesOn /\ req.rem = 0 /\ ToRead = 0 /\ ~ conf.ndebug
  /\ pc' = "aborted"
  /\ UNCHANGED <<requestVars, clientVars, faults>>

\* A failed read is stored in a size_t: not <= 0, and the length of what is parsed.
ReadFails ==
  /\ ReadGoesOn /\ req.rem = 0 /\ ToRead > 0 /\ peer = "broken"
  /\ pc' = "undefined"
  /\ UNCHANGED <<requestVars, clientVars, faults>>

ReadStep == ReadRemainder \/ ReadBeyond \/ ReadSocket \/ ReadEof \/ ReadNothing \/ ReadFails

\* The call returns rd.out.
ReadReturns(who) == pc = "read" /\ ~ ReadGoesOn /\ rd.caller = who
=============================================================================
