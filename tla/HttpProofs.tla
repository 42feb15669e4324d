----------------------------- MODULE HttpProofs -----------------------------
(***************************************************************************)
(* Proofs about a connection with either handler (http/protocol.c,         *)
(* http/response.c, middleware/fileserver.c): what a response announces    *)
(* about the connection is what happens to it, and the length in its       *)
(* headers is the length of its body.                                      *)
(*                                                                         *)
(* The argument needs little of what the requests are made of.  HttpInv    *)
(* follows the headers from the setter to the wire: while the handler is   *)
(* at work, either nothing is on the wire or the handler flushed the       *)
(* headers itself, so that the Connection header dfk__http_protocol adds   *)
(* afterwards is sent exactly when it still can be.                        *)
(*                                                                         *)
(* ResponseInv follows the content: what the handler has counted is what   *)
(* is on the wire, so that its length is the one in the headers.           *)
(***************************************************************************)
EXTENDS RequestProofs

OutFields == {"k", "head", "conn", "length", "minor", "status", "body", "early", "mishaps"}

RespFields == {"status", "minor", "clen", "keepalive", "flushed", "items", "conn", "length"}

\* A response with all its fields.
GoodResp(r) == DOMAIN r = RespFields /\ r.items \in [Names -> {"absent", "set"}]

\* What has been written of a response.
GoodOut(o) == DOMAIN o = OutFields

\* The part of HttpInv that no step but the handler's is about.
GoodState == GoodResp(resp) /\ GoodOut(out)

\* HttpInv says that the response and its output are good.
LEMMA GoodStateShape ==
  ASSUME HttpShape, ItemsTyped
  PROVE  GoodState
BY DEF HttpShape, ItemsTyped, GoodState, GoodResp, GoodOut, OutFields, RespFields,
       NothingOut, NewResponse

-----------------------------------------------------------------------------
(***************************************************************************)
(* The operators of a response.                                            *)
(***************************************************************************)
\* A new response has no items, and is not flushed.
LEMMA NewResponseGood ==
  ASSUME NEW m, NEW ka
  PROVE  /\ GoodResp(NewResponse(m, ka))
         /\ ~ NewResponse(m, ka).flushed
         /\ NewResponse(m, ka).items["Connection"] = "absent"
BY DEF NewResponse, GoodResp, RespFields, Names

\* Nothing has been written when a request begins.
LEMMA NothingOutGood ==
  ASSUME NEW k
  PROVE  /\ GoodOut(NothingOut)
         /\ GoodOut([NothingOut EXCEPT !.k = k])
         /\ NothingOut.head = "none"
         /\ [NothingOut EXCEPT !.k = k].head = "none"
BY DEF NothingOut, GoodOut, OutFields

\* dfk_strmap_insert of a header.
LEMMA InsertFacts ==
  ASSUME NEW r, GoodResp(r), NEW name \in Names, NEW conn, NEW length
  PROVE  /\ GoodResp(Insert(r, name, conn, length))
         /\ Insert(r, name, conn, length).flushed = r.flushed
         /\ Insert(r, name, conn, length).clen = r.clen
         /\ Insert(r, name, conn, length).keepalive = r.keepalive
         /\ name # "Connection" =>
              /\ Insert(r, name, conn, length).items["Connection"] = r.items["Connection"]
              /\ Insert(r, name, conn, length).conn = r.conn
         /\ name = "Connection" /\ r.items["Connection"] = "absent" =>
              Insert(r, name, conn, length).conn = conn
<1> DEFINE q == [r EXCEPT !.items[name] = "set",
                          !.conn = IF name = "Connection" THEN conn ELSE @,
                          !.length = IF name = "Content-Length" THEN length ELSE @]
<1>1. /\ DOMAIN q = RespFields
      /\ q.flushed = r.flushed /\ q.clen = r.clen /\ q.keepalive = r.keepalive
      /\ q.items = [r.items EXCEPT ![name] = "set"]
      /\ q.conn = IF name = "Connection" THEN conn ELSE r.conn
  BY DEF GoodResp, RespFields
<1>2. q.items \in [Names -> {"absent", "set"}]
  BY <1>1 DEF GoodResp
<1>3. name # "Connection" => q.items["Connection"] = r.items["Connection"]
  BY <1>1 DEF GoodResp, Names
<1>4. GoodResp(q)
  BY <1>1, <1>2 DEF GoodResp
<1>5. CASE r.items[name] # "absent"
  BY <1>5 DEF Insert
<1>6. CASE r.items[name] = "absent"
  <2>1. Insert(r, name, conn, length) = q
    BY <1>6 DEF Insert
  <2> HIDE DEF q
  <2> QED BY <2>1, <1>1, <1>3, <1>4
<1> QED BY <1>5, <1>6

\* q is r with other headers than Connection changed.
SameConnection(r, q) ==
  /\ GoodResp(q) /\ q.flushed = r.flushed
  /\ q.items["Connection"] = r.items["Connection"] /\ q.conn = r.conn

\* The Content-Length of the flush and of dfk__http_protocol leaves Connection alone.
LEMMA LengthInserted ==
  ASSUME NEW r, GoodResp(r), NEW conn, NEW length
  PROVE  SameConnection(r, Insert(r, "Content-Length", conn, length))
<1>1. "Content-Length" \in Names /\ "Content-Length" # "Connection"
  BY DEF Names
<1> QED BY <1>1, InsertFacts DEF SameConnection

\* q is r with another status or length.
Amended(r, q) == GoodResp(q) /\ q.items = r.items /\ q.flushed = r.flushed

\* An assignment to response.status.
LEMMA StatusSet ==
  ASSUME NEW r, GoodResp(r), NEW s
  PROVE  Amended(r, [r EXCEPT !.status = s])
BY DEF Amended, GoodResp, RespFields

\* An assignment to response.content_length.
LEMMA LengthSet ==
  ASSUME NEW r, GoodResp(r), NEW l
  PROVE  Amended(r, [r EXCEPT !.clen = l])
BY DEF Amended, GoodResp, RespFields

\* The Content-Length that the flush adds.
LEMMA WithLengthFacts ==
  ASSUME NEW r, GoodResp(r)
  PROVE  /\ GoodResp(WithLength(r))
         /\ WithLength(r).items["Connection"] = r.items["Connection"]
         /\ WithLength(r).conn = r.conn
<1>1. CASE r.clen = -1
  BY <1>1 DEF WithLength
<1>2. CASE r.clen # -1
  <2>1. WithLength(r) = Insert(r, "Content-Length", "", r.clen)
    BY <1>2 DEF WithLength
  <2>2. SameConnection(r, WithLength(r))
    BY <2>1, LengthInserted, Zenon
  <2> QED BY <2>2 DEF SameConnection
<1> QED BY <1>1, <1>2

\* What f, an outcome of a flush or of a write of response r, may be: the process is
\* at the end, or nothing happened to the headers since they had been flushed, or
\* they are on the wire now.
Flushed(r, f) ==
  /\ GoodResp(f.resp) /\ GoodOut(f.out)
  /\ out.mishaps \subseteq f.out.mishaps
  /\ f.resp.items["Connection"] = r.items["Connection"]
  /\ \/ f.crash /\ ~ r.flushed /\ f.out = out
     \/ /\ ~ f.crash /\ r.flushed /\ f.resp.flushed
        /\ f.out.early = out.early /\ f.out.head = out.head /\ f.out.conn = out.conn
     \/ /\ ~ f.crash /\ ~ r.flushed /\ f.resp.flushed
        /\ f.out.early = (pc = "handler")
        /\ f.out.conn = IF f.out.head = "whole" THEN r.conn ELSE "absent"

\* What dfk__http_response_flush_headers puts on the wire, by what happens to its writes.
LEMMA HeadWrittenFacts ==
  ASSUME GoodOut(out), NEW r, GoodResp(r), NEW fate
  PROVE  /\ GoodOut(HeadWritten(r, fate))
         /\ out.mishaps \subseteq HeadWritten(r, fate).mishaps
         /\ HeadWritten(r, fate).head = fate
         /\ HeadWritten(r, fate).early = (pc = "handler")
         /\ HeadWritten(r, fate).conn = IF fate = "whole" THEN r.conn ELSE "absent"
BY DEF GoodOut, OutFields, HeadWritten

\* dfk__http_response_flush_headers.
LEMMA FlushFacts ==
  ASSUME GoodOut(out), NEW r, GoodResp(r), NEW f \in FlushOutcomes(r)
  PROVE  Flushed(r, f)
<1>1. CASE r.flushed
  <2>1. f = [resp |-> r, out |-> out, cost |-> 0, crash |-> FALSE, ret |-> 0]
    BY <1>1 DEF FlushOutcomes
  <2>2. f.resp = r /\ f.out = out /\ ~ f.crash
    BY <2>1
  <2> QED BY <1>1, <2>2 DEF Flushed
<1>2. CASE ~ r.flushed
  <2> DEFINE q == [WithLength(r) EXCEPT !.flushed = TRUE]
             p == [q EXCEPT !.status = 500]
  <2>1. /\ GoodResp(q) /\ q.flushed /\ q.conn = r.conn
        /\ q.items["Connection"] = r.items["Connection"]
    BY WithLengthFacts DEF GoodResp, RespFields
  <2>2. /\ GoodResp(p) /\ p.flushed /\ p.items = q.items
    BY <2>1 DEF GoodResp, RespFields
  <2>3. \/ \E fate : f = [resp |-> IF fate = "status" THEN p ELSE q,
                          out |-> HeadWritten(q, fate), cost |-> FaultIf(fate \in {"cut", "status"}),
                          crash |-> FALSE, ret |-> 0]
        \/ f = [resp |-> r, out |-> out, cost |-> 1, crash |-> TRUE, ret |-> 0]
    BY <1>2, Zenon DEF FlushOutcomes
  <2> HIDE DEF p, q
  <2>4. ASSUME NEW fate,
               f = [resp |-> IF fate = "status" THEN p ELSE q,
                    out |-> HeadWritten(q, fate), cost |-> FaultIf(fate \in {"cut", "status"}),
                    crash |-> FALSE, ret |-> 0]
        PROVE  Flushed(r, f)
    <3>1. f.resp \in {p, q} /\ f.out = HeadWritten(q, fate) /\ ~ f.crash
      BY <2>4
    <3> QED BY <1>2, <2>1, <2>2, <3>1, HeadWrittenFacts DEF Flushed
  <2>5. ASSUME f = [resp |-> r, out |-> out, cost |-> 1, crash |-> TRUE, ret |-> 0]
        PROVE  Flushed(r, f)
    <3>1. f.resp = r /\ f.out = out /\ f.crash
      BY <2>5
    <3> QED BY <1>2, <3>1 DEF Flushed
  <2> QED BY <2>3, <2>4, <2>5
<1> QED BY <1>1, <1>2

\* dfk_http_response_writev and dfk_http_response_write.
LEMMA WriteFacts ==
  ASSUME GoodOut(out), NEW r, GoodResp(r), NEW from, NEW pieces,
         NEW w \in WriteOutcomes(r, from, pieces)
  PROVE  Flushed(r, w)
<1>1. PICK f \in FlushOutcomes(r) :
        \/ f.crash /\ w = f
        \/ ~ f.crash /\ \E b, s, c, t : w = [resp |-> f.resp,
                                             out |-> [f.out EXCEPT !.body = b, !.mishaps = @ \cup s],
                                             cost |-> c, crash |-> FALSE, ret |-> t]
  <2>1. PICK f \in FlushOutcomes(r) :
          w \in IF f.crash THEN {f}
                ELSE {[resp  |-> f.resp,
                       out   |-> [f.out EXCEPT !.body = @ \o [i \in 1 .. v.n |-> from + i - 1],
                                               !.mishaps = @ \cup IF v.short /\ Len(pieces) > 1
                                                                  THEN {"writev"} ELSE {}],
                       cost  |-> f.cost + FaultIf(v.short), crash |-> FALSE, ret |-> v.ret] :
                        v \in {u \in WritevOutcomes(pieces) : f.cost + FaultIf(u.short) <= faults}}
    BY Zenon DEF WriteOutcomes
  <2>2. CASE f.crash
    BY <2>1, <2>2
  <2>3. CASE ~ f.crash
    <3>1. PICK v : w = [resp  |-> f.resp,
                        out   |-> [f.out EXCEPT !.body = @ \o [i \in 1 .. v.n |-> from + i - 1],
                                                !.mishaps = @ \cup IF v.short /\ Len(pieces) > 1
                                                                   THEN {"writev"} ELSE {}],
                        cost  |-> f.cost + FaultIf(v.short), crash |-> FALSE, ret |-> v.ret]
      BY <2>1, <2>3, Zenon
    <3> QED BY <2>3, <3>1, Zenon
  <2> QED BY <2>2, <2>3
<1>2. Flushed(r, f)
  BY FlushFacts
<1>3. ASSUME ~ f.crash, NEW b, NEW s, NEW c, NEW t,
             w = [resp |-> f.resp, out |-> [f.out EXCEPT !.body = b, !.mishaps = @ \cup s],
                  cost |-> c, crash |-> FALSE, ret |-> t]
      PROVE  Flushed(r, w)
  <2>1. w.resp = f.resp /\ w.out = [f.out EXCEPT !.body = b, !.mishaps = @ \cup s] /\ ~ w.crash
    BY <1>3
  <2>2. GoodOut(f.out)
    BY <1>2 DEF Flushed
  <2>3. /\ GoodOut(w.out) /\ f.out.mishaps \subseteq w.out.mishaps
        /\ w.out.early = f.out.early /\ w.out.head = f.out.head /\ w.out.conn = f.out.conn
    BY <2>1, <2>2 DEF GoodOut, OutFields
  <2> QED BY <1>2, <1>3, <2>1, <2>3 DEF Flushed
<1> QED BY <1>1, <1>2, <1>3

-----------------------------------------------------------------------------
(***************************************************************************)
(* How the steps keep HttpInv.                                             *)
(***************************************************************************)
LEMMA InvFromParts ==
  ASSUME HttpInv, GoodResp(resp'), GoodOut(out'), DOMAIN rd' = DOMAIN rd, conf' = conf,
         nrequests' \in Nat, HandlerFlushes', Announced', WithinLimit'
  PROVE  HttpInv'
<1>1. HttpShape'
  BY DEF HttpInv, HttpShape, GoodResp, GoodOut, OutFields, RespFields, NothingOut, NewResponse, Idle
<1>2. ItemsTyped'
  BY DEF ItemsTyped, GoodResp
<1> QED BY <1>1, <1>2 DEF HttpInv

\* A step that leaves the response and the loop of the requests alone.
LEMMA QuietStep ==
  ASSUME HttpInv, UNCHANGED <<conf, resp, out, keepalive, nrequests>>, DOMAIN rd' = DOMAIN rd,
         Handling' => Handling, Skipping' => Skipping, pc' # "closed" => pc # "closed"
  PROVE  HttpInv'
<1>1. GoodResp(resp') /\ GoodOut(out') /\ nrequests' \in Nat
  BY GoodStateShape DEF HttpInv, HttpShape, GoodState
<1>2. HandlerFlushes'
  BY DEF HttpInv, HandlerFlushes
<1>3. Announced'
  BY DEF HttpInv, Announced
<1>4. WithinLimit'
  <2>1. conf.limit \in Int /\ nrequests \in Nat /\ WithinLimit
    BY DEF HttpInv, HttpShape
  <2> QED BY <2>1 DEF WithinLimit
<1> QED BY <1>1, <1>2, <1>3, <1>4, InvFromParts

\* A step of the handler: it flushes the headers or it does not, and nobody but the
\* handler sets Connection meanwhile.
LEMMA HandlerStep ==
  ASSUME HttpInv, pc = "handler", pc' \in {"handler", "respond", "undefined"},
         UNCHANGED <<conf, rd, keepalive, nrequests>>,
         GoodResp(resp'), GoodOut(out'),
         pc' # "undefined" => IF resp'.flushed THEN out'.early ELSE out'.head = "none",
         pc' # "undefined" /\ resp'.items["Connection"] # "absent" => "manual" \in out'.mishaps,
         out' = out \/ out'.early \/ out'.head = "none"
  PROVE  HttpInv'
<1>1. nrequests' \in Nat /\ conf' = conf /\ DOMAIN rd' = DOMAIN rd
  BY DEF HttpInv, HttpShape
<1>2. HandlerFlushes'
  BY DEF HandlerFlushes, Handling
<1>3. Announced'
  <2>1. CASE out' = out
    BY <2>1 DEF HttpInv, Announced
  <2>2. CASE out'.early \/ out'.head = "none"
    BY <2>2 DEF Announced
  <2> QED BY <2>1, <2>2
<1>4. WithinLimit'
  <2>1. conf.limit \in Int /\ nrequests \in Nat /\ WithinLimit
    BY DEF HttpInv, HttpShape
  <2> QED BY <2>1 DEF WithinLimit, Skipping
<1> QED BY <1>1, <1>2, <1>3, <1>4, InvFromParts

\* The facts about a state in which the handler runs that its steps start from.
LEMMA HandlerState ==
  ASSUME HttpInv, pc \in {"handler", "respond"}
  PROVE  /\ GoodResp(resp) /\ GoodOut(out)
         /\ IF resp.flushed THEN out.early ELSE out.head = "none"
         /\ resp.items["Connection"] # "absent" => "manual" \in out.mishaps
BY GoodStateShape DEF HttpInv, GoodState, HandlerFlushes, Handling

\* Something going wrong is noted.
LEMMA MishapAdded ==
  ASSUME NEW o, GoodOut(o), NEW s, NEW q, q = [o EXCEPT !.mishaps = @ \cup s]
  PROVE  /\ GoodOut(q) /\ q.mishaps = o.mishaps \cup s
         /\ q.early = o.early /\ q.head = o.head /\ q.conn = o.conn
BY DEF GoodOut, OutFields

-----------------------------------------------------------------------------
(***************************************************************************)
(* Reading.                                                                *)
(***************************************************************************)
\* read_headers returns or does not, and nothing else depends on it.
LEMMA HeadersMove ==
  ASSUME HeadersStep
  PROVE  pc = "headers" /\ rd' = rd /\ conf' = conf /\ pc' \in {"headers", "returned", "aborted", "undefined"}
<1>1. pc = "headers" /\ rd' = rd /\ conf' = conf
  BY Zenon DEF HeadersStep, HeadersAssertion, HeadersEof, ReadHeaders, HeadersNoMem, MayReadHeaders,
     requestVars, clientVars
<1>2. pc' \in {"headers", "returned", "aborted", "undefined"}
  <2>1. CASE HeadersAssertion
    BY <2>1 DEF HeadersAssertion
  <2>2. CASE HeadersEof
    BY <2>2 DEF HeadersEof, HeadersReturn
  <2>3. CASE ReadHeaders
    <3>1. PICK p, n, hi : \/ \E e : HeadersReturn(e)
                          \/ HeadersComplete(p, hi)
                          \/ StaleBytes
                          \/ NextBuffer(n, hi)
      BY <2>3, Zenon DEF ReadHeaders
    <3>2. HeadersComplete(p, hi) => pc' = "returned"
      BY Zenon DEF HeadersComplete
    <3>3. StaleBytes => pc' \in {"returned", "aborted", "undefined"}
      BY DEF StaleBytes, HeadersReturn
    <3>4. NextBuffer(n, hi) => pc' \in {"returned", pc}
      BY Zenon DEF NextBuffer, HeadersReturn
    <3>5. \A e : HeadersReturn(e) => pc' = "returned"
      BY DEF HeadersReturn
    <3> QED BY <1>1, <3>1, <3>2, <3>3, <3>4, <3>5
  <2>4. CASE HeadersNoMem
    BY <2>4 DEF HeadersNoMem, HeadersReturn
  <2> QED BY <2>1, <2>2, <2>3, <2>4 DEF HeadersStep
<1> QED BY <1>1, <1>2

LEMMA HeadersKeep ==
  ASSUME HttpInv, HeadersStep, UNCHANGED <<responseVars, protocolVars>>
  PROVE  HttpInv'
BY HeadersMove, QuietStep DEF Handling, Skipping, responseVars, protocolVars

\* on_body counts what it copied, and the call stays that of its caller.
LEMMA ExecuteKeeps ==
  ASSUME DOMAIN rd = DOMAIN Idle, NEW p, NEW m, NEW fromRem, Execute(p, m, fromRem)
  PROVE  DOMAIN rd' = DOMAIN rd /\ rd'.caller = rd.caller
<1>1. PICK b : rd' = [rd EXCEPT !.left = @ - b, !.out = @ + b]
  BY Zenon DEF Execute
<1> QED BY <1>1 DEF Idle

\* A round of dfk_http_request_read is for the one who called it.
LEMMA ReadMove ==
  ASSUME DOMAIN rd = DOMAIN Idle, ReadStep
  PROVE  /\ pc = "read" /\ conf' = conf /\ pc' \in {"read", "spinning", "aborted", "undefined"}
         /\ DOMAIN rd' = DOMAIN rd /\ rd'.caller = rd.caller
<1> USE DEF requestVars, clientVars
<1>1. pc = "read" /\ conf' = conf
  BY Zenon DEF ReadStep, ReadRemainder, ReadBeyond, ReadSocket, ReadEof, ReadNothing, ReadFails, ReadGoesOn
<1>2. pc' \in {"read", "spinning", "aborted", "undefined"}
  BY <1>1 DEF ReadStep, ReadRemainder, ReadBeyond, ReadSocket, ReadEof, ReadNothing, ReadFails
<1>3. DOMAIN rd' = DOMAIN rd /\ rd'.caller = rd.caller
  <2>1. CASE ReadRemainder
    BY <2>1, ExecuteKeeps, Zenon DEF ReadRemainder
  <2>2. CASE ReadSocket
    BY <2>2, ExecuteKeeps, Zenon DEF ReadSocket
  <2>3. CASE ReadEof
    BY <2>3 DEF ReadEof, Idle
  <2>4. CASE ReadBeyond \/ ReadNothing \/ ReadFails
    BY <2>4 DEF ReadBeyond, ReadNothing, ReadFails
  <2> QED BY <2>1, <2>2, <2>3, <2>4 DEF ReadStep
<1> QED BY <1>1, <1>2, <1>3

LEMMA ReadKeeps ==
  ASSUME HttpInv, ReadStep, UNCHANGED <<responseVars, protocolVars>>
  PROVE  HttpInv'
<1>1. DOMAIN rd = DOMAIN Idle
  BY DEF HttpInv, HttpShape
<1> QED BY <1>1, ReadMove, QuietStep DEF Handling, Skipping, responseVars, protocolVars

\* The calls of dfk_http_request_read by the handler and by the loop that skips the
\* body, and their returns.
LEMMA CallsKeep ==
  ASSUME HttpInv, HandlerReads \/ HandlerReadDone \/ SkipRead \/ SkipReadDone
  PROVE  HttpInv'
<1> USE DEF clientVars, responseVars, protocolVars
<1>1. DOMAIN rd = DOMAIN Idle
  BY DEF HttpInv, HttpShape
<1>2. UNCHANGED <<conf, resp, out, keepalive, nrequests>>
  BY DEF HandlerReads, HandlerReadDone, SkipRead, SkipReadDone
<1>3. CASE HandlerReads
  <2>1. PICK n : ReadCall(n, "handler")
    BY <1>3, Zenon DEF HandlerReads
  <2>2. DOMAIN rd' = DOMAIN rd /\ rd'.caller = "handler" /\ pc' = "read"
    BY <1>1, <2>1 DEF ReadCall, Idle
  <2>3. pc = "handler"
    BY <1>3 DEF HandlerReads, Calls, InHandler
  <2> QED BY <1>2, <2>2, <2>3, QuietStep DEF Handling, Skipping
<1>4. CASE HandlerReadDone
  <2>1. pc = "read" /\ rd.caller = "handler" /\ pc' = "handler" /\ rd' = Idle
    BY <1>4 DEF HandlerReadDone, ReadReturns
  <2> QED BY <1>1, <1>2, <2>1, QuietStep DEF Handling, Skipping
<1>5. CASE SkipRead
  <2>1. PICK n : ReadCall(n, "skip")
    BY <1>5, Zenon DEF SkipRead
  <2>2. DOMAIN rd' = DOMAIN rd /\ rd'.caller = "skip" /\ pc' = "read"
    BY <1>1, <2>1 DEF ReadCall, Idle
  <2>3. pc = "skip"
    BY <1>5 DEF SkipRead
  <2> QED BY <1>2, <2>2, <2>3, QuietStep DEF Handling, Skipping
<1>6. CASE SkipReadDone
  <2>1. pc = "read" /\ rd.caller = "skip" /\ pc' = "skip" /\ rd' = Idle
    BY <1>6 DEF SkipReadDone, ReadReturns
  <2> QED BY <1>1, <1>2, <2>1, QuietStep DEF Handling, Skipping
<1> QED BY <1>3, <1>4, <1>5, <1>6

-----------------------------------------------------------------------------
(***************************************************************************)
(* The handler in user code.                                               *)
(***************************************************************************)
\* What a handler's step finds if it writes: it may only crash before the headers are
\* flushed, and the headers it flushes are early.
LEMMA WriteInHandler ==
  ASSUME HttpInv, pc = "handler", NEW r, GoodResp(r), r.items = resp.items, r.flushed = resp.flushed,
         NEW from, NEW pieces, NEW w \in WriteOutcomes(r, from, pieces)
  PROVE  /\ GoodResp(w.resp) /\ GoodOut(w.out)
         /\ w.resp.items["Connection"] # "absent" => "manual" \in w.out.mishaps
         /\ w.crash => w.out.head = "none"
         /\ ~ w.crash => w.resp.flushed /\ w.out.early
<1>1. Flushed(r, w)
  BY HandlerState, WriteFacts
<1> QED BY <1>1, HandlerState DEF Flushed

\* The calls a handler makes on its response, and its return, keep HttpInv.
LEMMA UserHandlerKeeps ==
  ASSUME HttpInv, HandlerBegins \/ HandlerSets \/ HandlerWrites \/ HandlerReturns
  PROVE  HttpInv'
<1> USE DEF clientVars, requestVars, responseVars, protocolVars
<1>1. pc = "handler" /\ UNCHANGED <<conf, rd, keepalive, nrequests>>
  BY DEF HandlerBegins, HandlerSets, HandlerWrites, HandlerReturns, Calls, InHandler
<1>2. CASE HandlerBegins
  <2>1. PICK l, k : resp' = [resp EXCEPT !.clen = l, !.keepalive = k, !.minor = 1]
    BY <1>2, Zenon DEF HandlerBegins
  <2>2. GoodResp(resp') /\ resp'.items = resp.items /\ resp'.flushed = resp.flushed
    BY <1>1, <2>1, HandlerState DEF GoodResp, RespFields
  <2>3. out' = out /\ pc' = pc
    BY <1>2 DEF HandlerBegins
  <2> QED BY <1>1, <2>2, <2>3, HandlerState, HandlerStep
<1>3. CASE HandlerSets
  <2>1. PICK name \in Names :
          /\ resp' = Insert(resp, name, "Keep-Alive", app.size)
          /\ out' = [out EXCEPT !.mishaps = @ \cup IF name = "Connection" THEN {"manual"} ELSE {}]
    BY <1>3, Zenon DEF HandlerSets
  <2>3. /\ GoodResp(resp') /\ resp'.flushed = resp.flushed
        /\ name # "Connection" => resp'.items["Connection"] = resp.items["Connection"]
    BY <1>1, <2>1, HandlerState, InsertFacts
  <2>4. /\ GoodOut(out') /\ out'.early = out.early /\ out'.head = out.head
        /\ out'.mishaps = out.mishaps \cup IF name = "Connection" THEN {"manual"} ELSE {}
    BY <1>1, <2>1, HandlerState, MishapAdded
  <2>5. pc' = pc
    BY <1>3 DEF HandlerSets
  <2> QED BY <1>1, <2>3, <2>4, <2>5, HandlerState, HandlerStep
<1>4. CASE HandlerWrites
  <2>1. PICK pieces : \E w \in WriteOutcomes(resp, app.at, pieces) : Written(w)
    BY <1>4, Zenon DEF HandlerWrites
  <2>2. PICK w \in WriteOutcomes(resp, app.at, pieces) :
          resp' = w.resp /\ out' = w.out /\ pc' = IF w.crash THEN "undefined" ELSE pc
    BY <2>1, Zenon DEF Written
  <2>3. /\ GoodResp(w.resp) /\ GoodOut(w.out)
        /\ w.resp.items["Connection"] # "absent" => "manual" \in w.out.mishaps
        /\ w.crash => w.out.head = "none"
        /\ ~ w.crash => w.resp.flushed /\ w.out.early
    BY <1>1, HandlerState, WriteInHandler
  <2> QED BY <1>1, <2>2, <2>3, HandlerStep
<1>5. CASE HandlerReturns
  <2>1. PICK ok \in BOOLEAN : Return(ok, resp)
    BY <1>5, Zenon DEF HandlerReturns
  <2>2. pc' = "respond" /\ (resp' = resp \/ resp' = [resp EXCEPT !.status = 500])
    BY <2>1, Zenon DEF Return
  <2>3. GoodResp(resp') /\ resp'.items = resp.items /\ resp'.flushed = resp.flushed
    BY <1>1, <2>2, HandlerState DEF GoodResp, RespFields
  <2>4. PICK s : out' = [out EXCEPT !.mishaps = @ \cup s]
    BY <1>5, Zenon DEF HandlerReturns
  <2>5. GoodOut(out') /\ out'.early = out.early /\ out'.head = out.head /\ out.mishaps \subseteq out'.mishaps
    BY <1>1, <2>4, HandlerState, MishapAdded
  <2> QED BY <1>1, <2>2, <2>3, <2>5, HandlerState, HandlerStep
<1> QED BY <1>2, <1>3, <1>4, <1>5

-----------------------------------------------------------------------------
(***************************************************************************)
(* The file server.                                                        *)
(***************************************************************************)
\* An answer without content, the opening of a file, and the returns.
LEMMA FileServerReturns ==
  ASSUME HttpInv, FsAnswer \/ FsOpen \/ FsReadShort \/ FsDone
  PROVE  HttpInv'
<1> USE DEF clientVars, requestVars, responseVars, protocolVars
<1>1. pc = "handler" /\ UNCHANGED <<conf, rd, keepalive, nrequests>>
  BY DEF FsAnswer, FsOpen, FsReadShort, FsDone, Serving
<1>2. pc' \in {"handler", "respond"}
  BY <1>1 DEF FsAnswer, FsOpen, FsReadShort, FsDone, FsReturn, Return
<1>3. GoodResp(resp)
  BY <1>1, HandlerState
<1>4. Amended(resp, resp')
  <2>1. CASE FsAnswer
    <3>1. FsReturn(404) \/ FsReturn(405) \/ FsReturn(500)
      BY <2>1 DEF FsAnswer
    <3>2. PICK s : FsReturn(s)
      BY <3>1, Zenon
    <3>3. resp' = [resp EXCEPT !.status = s]
      BY <3>2, Zenon DEF FsReturn, Return
    <3> QED BY <1>3, <3>3, StatusSet
  <2>2. CASE FsOpen
    <3>1. \/ resp' = [resp EXCEPT !.clen = FileSize]
          \/ Return(TRUE, [[resp EXCEPT !.clen = FileSize] EXCEPT !.status = 500])
      BY <2>2, Zenon DEF FsOpen
    <3>2. PICK r : r = [resp EXCEPT !.clen = FileSize]
      OBVIOUS
    <3>3. resp' = r \/ resp' = [r EXCEPT !.status = 500]
      BY <3>1, <3>2, Zenon DEF Return
    <3>4. Amended(resp, r)
      BY <1>3, <3>2, LengthSet
    <3>5. ASSUME resp' = [r EXCEPT !.status = 500] PROVE Amended(r, resp')
      BY <3>4, <3>5, StatusSet DEF Amended
    <3> QED BY <3>3, <3>4, <3>5 DEF Amended
  <2>3. CASE FsReadShort
    <3>1. Return(FALSE, resp)
      BY <2>3 DEF FsReadShort
    <3>2. resp' = [resp EXCEPT !.status = 500]
      BY <3>1, Zenon DEF Return
    <3> QED BY <1>3, <3>2, StatusSet
  <2>4. CASE FsDone
    <3>1. Return(TRUE, resp)
      BY <2>4 DEF FsDone
    <3>2. resp' = resp
      BY <3>1, Zenon DEF Return
    <3> QED BY <1>3, <3>2 DEF Amended
  <2> QED BY <2>1, <2>2, <2>3, <2>4
<1>5. out' = out \/ \E s : out' = [out EXCEPT !.mishaps = @ \cup s]
  BY Zenon DEF FsAnswer, FsOpen, FsReadShort, FsDone
<1>6. GoodOut(out') /\ out'.early = out.early /\ out'.head = out.head /\ out.mishaps \subseteq out'.mishaps
  BY <1>1, <1>5, HandlerState, MishapAdded
<1> QED BY <1>1, <1>2, <1>4, <1>6, HandlerState, HandlerStep DEF Amended

\* A listing is one write: it flushes the headers before the handler returns.
LEMMA FsListingKeeps ==
  ASSUME HttpInv, FsListing
  PROVE  HttpInv'
<1> USE DEF clientVars, requestVars, responseVars, protocolVars
<1>1. pc = "handler" /\ UNCHANGED <<conf, rd, keepalive, nrequests>>
  BY DEF FsListing, Serving
<1>2. PICK separator, pieces, r :
        /\ \E l : r = [resp EXCEPT !.clen = l]
        /\ \E w \in WriteOutcomes(r, 1, pieces) :
             /\ resp' = [w.resp EXCEPT !.status = 200] /\ out' = w.out
             /\ pc' = IF w.crash \/ Len(pieces) # Len(Pieces(separator)) THEN "undefined" ELSE "respond"
  BY ZenonT(40) DEF FsListing
<1>3. PICK w \in WriteOutcomes(r, 1, pieces) :
        /\ resp' = [w.resp EXCEPT !.status = 200] /\ out' = w.out
        /\ pc' = IF w.crash \/ Len(pieces) # Len(Pieces(separator)) THEN "undefined" ELSE "respond"
  BY <1>2, Zenon
<1>4. GoodResp(r) /\ r.items = resp.items /\ r.flushed = resp.flushed
  BY <1>1, <1>2, HandlerState DEF GoodResp, RespFields
<1>5. /\ GoodResp(w.resp) /\ GoodOut(w.out)
      /\ w.resp.items["Connection"] # "absent" => "manual" \in w.out.mishaps
      /\ w.crash => w.out.head = "none"
      /\ ~ w.crash => w.resp.flushed /\ w.out.early
  BY <1>1, <1>4, WriteInHandler
<1>6. GoodResp(resp') /\ resp'.items = w.resp.items /\ resp'.flushed = w.resp.flushed
  BY <1>3, <1>5 DEF GoodResp, RespFields
<1>7. pc' \in {"respond", "undefined"} /\ (w.crash => pc' = "undefined") /\ out' = w.out
  BY <1>3
<1> QED BY <1>1, <1>5, <1>6, <1>7, HandlerStep

\* A round of the copy loop flushes the headers, if none did before.
LEMMA FsCopyKeeps ==
  ASSUME HttpInv, FsCopy
  PROVE  HttpInv'
<1> USE DEF clientVars, requestVars, responseVars, protocolVars
<1>1. pc = "handler" /\ UNCHANGED <<conf, rd, keepalive, nrequests>>
  BY DEF FsCopy, Serving
<1>2. PICK pieces, from : \E w \in WriteOutcomes(resp, from, pieces) : \E s :
        /\ out' = [w.out EXCEPT !.mishaps = @ \cup s]
        /\ \/ w.crash /\ resp' = w.resp /\ pc' = "undefined"
           \/ ~ w.crash /\ Return(FALSE, w.resp)
           \/ ~ w.crash /\ resp' = w.resp /\ pc' = pc
  BY Zenon DEF FsCopy
<1>3. PICK w, s :
        /\ w \in WriteOutcomes(resp, from, pieces)
        /\ out' = [w.out EXCEPT !.mishaps = @ \cup s]
        /\ \/ w.crash /\ resp' = w.resp /\ pc' = "undefined"
           \/ ~ w.crash /\ Return(FALSE, w.resp)
           \/ ~ w.crash /\ resp' = w.resp /\ pc' = pc
  BY <1>2, Zenon
<1>4. /\ GoodResp(w.resp) /\ GoodOut(w.out)
      /\ w.resp.items["Connection"] # "absent" => "manual" \in w.out.mishaps
      /\ w.crash => w.out.head = "none"
      /\ ~ w.crash => w.resp.flushed /\ w.out.early
  BY <1>1, <1>3, HandlerState, WriteInHandler
<1>5. resp' = w.resp \/ resp' = [w.resp EXCEPT !.status = 500]
  BY <1>3 DEF Return
<1>6. GoodResp(resp') /\ resp'.items = w.resp.items /\ resp'.flushed = w.resp.flushed
  BY <1>4, <1>5 DEF GoodResp, RespFields
<1>7. GoodOut(out') /\ out'.early = w.out.early /\ out'.head = w.out.head /\ w.out.mishaps \subseteq out'.mishaps
  BY <1>3, <1>4, MishapAdded
<1>8. pc' \in {"handler", "respond", "undefined"} /\ (w.crash => pc' = "undefined")
  BY <1>1, <1>3 DEF Return
<1> QED BY <1>1, <1>4, <1>6, <1>7, <1>8, HandlerStep

-----------------------------------------------------------------------------
(***************************************************************************)
(* The loop over the requests.                                             *)
(***************************************************************************)
LEMMA RequestRefusedKeeps ==
  ASSUME HttpInv, RequestRefused
  PROVE  HttpInv'
<1> USE DEF clientVars, requestVars
<1>1. /\ pc = "returned" /\ pc' = "closed" /\ out' = NothingOut
      /\ UNCHANGED <<conf, rd, resp, nrequests>>
  BY DEF RequestRefused
<1>2. GoodResp(resp') /\ GoodOut(out') /\ out'.head = "none" /\ nrequests' \in Nat
  BY <1>1, NothingOutGood, GoodStateShape DEF HttpInv, HttpShape, GoodState
<1>3. HandlerFlushes' /\ Announced'
  BY <1>1, <1>2 DEF HandlerFlushes, Handling, Announced
<1>4. WithinLimit'
  <2>1. conf.limit \in Int /\ nrequests \in Nat /\ WithinLimit
    BY DEF HttpInv, HttpShape
  <2> QED BY <1>1, <2>1 DEF WithinLimit, Skipping
<1> QED BY <1>1, <1>2, <1>3, <1>4, InvFromParts

\* A handler starts with a fresh response, of which nothing is on the wire.
LEMMA RunHandlerKeeps ==
  ASSUME HttpInv, RunHandler
  PROVE  HttpInv'
<1> USE DEF clientVars, requestVars
<1>1. /\ pc = "returned" /\ pc' = "handler" /\ UNCHANGED <<conf, rd, nrequests>>
      /\ resp' = NewResponse(Request.minor, keepalive') /\ out' = [NothingOut EXCEPT !.k = req.k]
  BY DEF RunHandler
<1>2. /\ GoodResp(resp') /\ ~ resp'.flushed /\ resp'.items["Connection"] = "absent"
      /\ GoodOut(out') /\ out'.head = "none" /\ nrequests' \in Nat
  BY <1>1, NewResponseGood, NothingOutGood DEF HttpInv, HttpShape
<1>3. HandlerFlushes' /\ Announced'
  BY <1>1, <1>2 DEF HandlerFlushes, Handling, Announced
<1>4. WithinLimit'
  <2>1. conf.limit \in Int /\ nrequests \in Nat /\ WithinLimit
    BY DEF HttpInv, HttpShape
  <2> QED BY <1>1, <2>1 DEF WithinLimit, Skipping
<1> QED BY <1>1, <1>2, <1>3, <1>4, InvFromParts

\* The request is counted, and the connection is kept as long as there is room.
LEMMA RequestDoneKeeps ==
  ASSUME HttpInv, RequestDone
  PROVE  HttpInv'
<1> USE DEF clientVars
<1>1. /\ pc = "skip" /\ pc' = (IF keepalive THEN "headers" ELSE "closed")
      /\ nrequests' = nrequests + 1 /\ resp' = NewResponse(1, TRUE)
      /\ UNCHANGED <<conf, rd, out, keepalive>>
  BY DEF RequestDone
<1>2. GoodResp(resp') /\ GoodOut(out') /\ nrequests' \in Nat
  <2>1. GoodState /\ nrequests \in Nat
    BY GoodStateShape DEF HttpInv, HttpShape
  <2>2. GoodResp(resp')
    BY <1>1, NewResponseGood, Zenon
  <2>3. out' = out /\ nrequests' = nrequests + 1
    BY <1>1
  <2> QED BY <2>1, <2>2, <2>3 DEF GoodState
<1>3. HandlerFlushes'
  BY <1>1 DEF HandlerFlushes, Handling
<1>4. Announced'
  BY <1>1 DEF HttpInv, Announced
<1>5. WithinLimit'
  <2>1. conf.limit \in Int /\ nrequests \in Nat /\ WithinLimit
    BY DEF HttpInv, HttpShape
  <2>2. CASE keepalive
    <3>1. pc' = "headers"
      BY <1>1, <2>2
    <3> QED BY <1>1, <2>1, <2>2, <3>1 DEF WithinLimit, Skipping
  <2>3. CASE ~ keepalive
    <3>1. pc' = "closed"
      BY <1>1, <2>3
    <3> QED BY <1>1, <2>1, <2>3, <3>1 DEF WithinLimit, Skipping
  <2> QED BY <2>2, <2>3
<1> QED BY <1>1, <1>2, <1>3, <1>4, <1>5, InvFromParts

\* After the handler: the headers that dfk__http_protocol adds, and the flush if the
\* handler made none.
LEMMA RespondKeeps ==
  ASSUME HttpInv, Respond
  PROVE  HttpInv'
<1> USE DEF clientVars, requestVars
<1>1. /\ pc = "respond" /\ UNCHANGED <<conf, rd, nrequests>>
      /\ keepalive' = (keepalive /\ resp.keepalive /\ ~ LimitReached(nrequests))
  BY DEF Respond
<1>2. PICK lost, r :
        /\ r = WithHeaders(Clamped(resp), keepalive', lost)
        /\ \E f \in FlushOutcomes(r) :
             /\ resp' = f.resp
             /\ out' = [f.out EXCEPT !.mishaps = @ \cup IF lost # {} THEN {"nomem"} ELSE {}]
             /\ pc' = IF f.crash THEN "undefined" ELSE "skip"
  BY Zenon DEF Respond
<1>3. PICK f \in FlushOutcomes(r) :
        /\ resp' = f.resp
        /\ out' = [f.out EXCEPT !.mishaps = @ \cup IF lost # {} THEN {"nomem"} ELSE {}]
        /\ pc' = IF f.crash THEN "undefined" ELSE "skip"
  BY <1>2, Zenon
<1> DEFINE c == Clamped(resp)
           a == IF keepalive' THEN "Keep-Alive" ELSE "close"
           h == Insert(c, "Connection", a, -1)
           d == IF "Connection" \in lost THEN c ELSE h
<1>4. GoodResp(c) /\ c.items = resp.items /\ c.flushed = resp.flushed
  BY <1>1, HandlerState DEF Clamped, GoodResp, RespFields
<1>5. /\ GoodResp(h) /\ h.flushed = resp.flushed
      /\ resp.items["Connection"] = "absent" => h.conn = a
  <2>1. "Connection" \in Names
    BY DEF Names
  <2> HIDE DEF a, c
  <2>2. GoodResp(c)
    BY <1>4
  <2>3. /\ GoodResp(h) /\ h.flushed = c.flushed
        /\ c.items["Connection"] = "absent" => h.conn = a
    BY <2>1, <2>2, InsertFacts
  <2> HIDE DEF h
  <2> QED BY <1>4, <2>3
<1>6. /\ GoodResp(d) /\ d.flushed = resp.flushed
      /\ lost = {} /\ resp.items["Connection"] = "absent" =>
            d.conn = a
  <2> HIDE DEF a, c, h
  <2> QED BY <1>4, <1>5
<1>7. r = IF "Content-Length" \in lost THEN d ELSE Insert(d, "Content-Length", "", 0)
  BY <1>2, Zenon DEF WithHeaders
<1> HIDE DEF a, c, h, d
<1>8. /\ GoodResp(r) /\ r.flushed = resp.flushed
      /\ lost = {} /\ resp.items["Connection"] = "absent" =>
            r.conn = a
  <2>1. CASE "Content-Length" \in lost
    BY <1>6, <1>7, <2>1
  <2>2. CASE "Content-Length" \notin lost
    <3>1. r = Insert(d, "Content-Length", "", 0)
      BY <1>7, <2>2
    <3>2. GoodResp(r) /\ r.flushed = d.flushed /\ r.conn = d.conn
      <4>1. SameConnection(d, r)
        BY <1>6, <3>1, LengthInserted, Zenon
      <4> QED BY <4>1 DEF SameConnection
    <3> QED BY <1>6, <3>2
  <2> QED BY <2>1, <2>2
<1>9. Flushed(r, f)
  BY <1>1, <1>8, HandlerState, FlushFacts
<1>10. /\ GoodOut(out') /\ out'.early = f.out.early /\ out'.head = f.out.head /\ out'.conn = f.out.conn
       /\ out'.mishaps = f.out.mishaps \cup IF lost # {} THEN {"nomem"} ELSE {}
  BY <1>3, <1>9, MishapAdded DEF Flushed
<1>11. GoodResp(resp') /\ nrequests' \in Nat /\ pc' \in {"undefined", "skip"}
  BY <1>1, <1>3, <1>9 DEF Flushed, HttpInv, HttpShape
<1>12. HandlerFlushes'
  BY <1>11 DEF HandlerFlushes, Handling
<1>13. Announced'
  <2>1. CASE f.crash \/ r.flushed
    <3>1. out'.head = "none" \/ out'.early
      BY <1>1, <1>8, <1>9, <1>10, <2>1, HandlerState DEF Flushed
    <3> QED BY <3>1 DEF Announced
  <2>2. CASE ~ f.crash /\ ~ r.flushed
    <3>1. SUFFICES ASSUME out'.head = "whole", out'.mishaps \cap {"manual", "nomem"} = {}
                   PROVE  out'.conn = IF keepalive' THEN "Keep-Alive" ELSE "close"
      BY DEF Announced
    <3>2. lost = {} /\ "manual" \notin f.out.mishaps
      BY <1>10, <3>1
    <3>3. resp.items["Connection"] = "absent"
      BY <1>1, <1>9, <3>2, HandlerState DEF Flushed
    <3>4. out'.conn = r.conn
      BY <1>9, <1>10, <2>2, <3>1 DEF Flushed
    <3> QED BY <1>8, <3>2, <3>3, <3>4 DEF a
  <2> QED BY <2>1, <2>2
<1>14. WithinLimit'
  <2>1. conf.limit \in Int /\ nrequests \in Nat /\ WithinLimit
    BY DEF HttpInv, HttpShape
  <2>2. keepalive' => ~ LimitReached(nrequests)
    BY <1>1
  <2> QED BY <1>1, <1>11, <2>1, <2>2 DEF WithinLimit, LimitReached
<1> QED BY <1>1, <1>10, <1>11, <1>12, <1>13, <1>14, InvFromParts

-----------------------------------------------------------------------------
(***************************************************************************)
(* The theorems.                                                           *)
(***************************************************************************)
LEMMA ClientStepKeeps ==
  ASSUME HttpInv, ClientSends \/ ClientLeaves
  PROVE  HttpInv'
<1> USE DEF requestVars, responseVars, protocolVars
<1>1. UNCHANGED <<conf, resp, out, keepalive, nrequests, pc, rd>>
  BY DEF ClientSends, ClientLeaves
<1> QED BY <1>1, QuietStep DEF Handling, Skipping

\* Every state of a connection satisfies HttpInv, with either handler and whatever the
\* client sends: the headers of a response are either still to be written or were
\* flushed by the handler itself, and the requests stay within keepalive_requests.
THEOREM HttpInvariance == Spec => []HttpInv
<1>1. Init => HttpInv
  <2> SUFFICES ASSUME Init PROVE HttpInv
    OBVIOUS
  <2>1. /\ resp = NewResponse(1, TRUE) /\ out = NothingOut /\ rd = Idle /\ pc = "headers"
        /\ nrequests = 0 /\ conf.limit \in Int
    BY HttpProtocolAssumption DEF Init
  <2>2. HttpShape
    BY <2>1, Zenon DEF HttpShape
  <2>3. ItemsTyped
    BY <2>1 DEF ItemsTyped, NewResponse
  <2>4. Announced
    BY <2>1 DEF Announced, NothingOut
  <2>5. HandlerFlushes /\ WithinLimit
    BY <2>1 DEF HandlerFlushes, WithinLimit, Handling, Skipping
  <2> QED BY <2>2, <2>3, <2>4, <2>5 DEF HttpInv
<1>2. HttpInv /\ [Next]_vars => HttpInv'
  <2> SUFFICES ASSUME HttpInv, [Next]_vars PROVE HttpInv'
    OBVIOUS
  <2>1. CASE HeadersStep /\ UNCHANGED <<responseVars, protocolVars>>
    BY <2>1, HeadersKeep
  <2>2. CASE ReadStep /\ UNCHANGED <<responseVars, protocolVars>>
    BY <2>2, ReadKeeps
  <2>3. CASE RequestRefused \/ RunHandler \/ RequestDone
    BY <2>3, RequestRefusedKeeps, RunHandlerKeeps, RequestDoneKeeps
  <2>4. CASE HandlerBegins \/ HandlerSets \/ HandlerWrites \/ HandlerReturns
    BY <2>4, UserHandlerKeeps
  <2>5. CASE HandlerReads \/ HandlerReadDone \/ SkipRead \/ SkipReadDone
    BY <2>5, CallsKeep
  <2>6. CASE Respond
    BY <2>6, RespondKeeps
  <2>7. CASE FileServerStep
    BY <2>7, FileServerReturns, FsListingKeeps, FsCopyKeeps DEF FileServerStep
  <2>8. CASE ClientSends \/ ClientLeaves
    BY <2>8, ClientStepKeeps
  <2>9. CASE UNCHANGED vars
    BY <2>9, QuietStep DEF vars, clientVars, requestVars, responseVars, protocolVars, Handling, Skipping
  <2> QED BY <2>1, <2>2, <2>3, <2>4, <2>5, <2>6, <2>7, <2>8, <2>9, Zenon DEF Next, Server, Connection
<1> QED BY <1>1, <1>2, PTL DEF Spec

\* dfk__http_protocol closes the connection after keepalive_requests requests, and the
\* Connection header that it adds to a response says what happens to the connection.
THEOREM AnnounceSafety == Spec => []ClosedAsAnnounced
<1>1. HttpInv => ClosedAsAnnounced
  BY DEF HttpInv, Announced, WithinLimit, ClosedAsAnnounced, Responded
<1> QED BY <1>1, HttpInvariance, PTL

-----------------------------------------------------------------------------
(***************************************************************************)
(* What a flush and a write put on the wire if nothing goes wrong.         *)
(***************************************************************************)
\* q is r with the Content-Length l, unless r has one.
Lengthened(r, q, l) ==
  /\ GoodResp(q) /\ LengthKnown(q) /\ q.flushed = r.flushed /\ q.clen = r.clen /\ q.minor = r.minor
  /\ q.length = IF r.length = -1 THEN l ELSE r.length

\* The insertion of a Content-Length.
LEMMA LengthAdded ==
  ASSUME NEW r, GoodResp(r), LengthKnown(r), NEW l \in Int, l # -1, NEW conn
  PROVE  Lengthened(r, Insert(r, "Content-Length", conn, l), l)
<1>0. PICK q : q = Insert(r, "Content-Length", conn, l)
  OBVIOUS
<1>1. "Content-Length" \in Names
  BY DEF Names
<1>2. GoodResp(q) /\ q.flushed = r.flushed /\ q.clen = r.clen
  BY <1>0, <1>1, InsertFacts
<1>3. CASE r.items["Content-Length"] # "absent"
  <2>1. q = r
    BY <1>0, <1>3 DEF Insert
  <2> QED BY <1>0, <1>2, <1>3, <2>1 DEF LengthKnown, Lengthened
<1>4. CASE r.items["Content-Length"] = "absent"
  <2>1. q = [r EXCEPT !.items["Content-Length"] = "set",
                      !.conn = IF "Content-Length" = "Connection" THEN conn ELSE @,
                      !.length = IF "Content-Length" = "Content-Length" THEN l ELSE @]
    BY <1>0, <1>4 DEF Insert
  <2>2. q.length = l /\ q.minor = r.minor /\ q.items = [r.items EXCEPT !["Content-Length"] = "set"]
    BY <2>1 DEF GoodResp, RespFields
  <2>3. q.items["Content-Length"] = "set"
    BY <1>1, <2>2 DEF GoodResp
  <2> QED BY <1>0, <1>2, <1>4, <2>2, <2>3 DEF LengthKnown, Lengthened
<1> QED BY <1>3, <1>4

\* The response q, and the output o, after the headers of r were flushed.
HeadOut(r, q, o) ==
  /\ GoodResp(q) /\ LengthKnown(q) /\ q.flushed /\ q.minor = r.minor /\ q.clen = r.clen
  /\ q.length = IF r.length = -1 THEN r.clen ELSE r.length
  /\ o.head = "whole" /\ o.body = out.body /\ o.k = out.k /\ o.minor = r.minor /\ o.length = q.length
  /\ peer # "broken"

LEMMA CleanFlush ==
  ASSUME GoodOut(out), NEW r, GoodResp(r), LengthKnown(r), NEW f \in FlushOutcomes(r), ~ f.crash,
         f.out.mishaps \subseteq {"manual"}
  PROVE  IF r.flushed THEN f.resp = r /\ f.out = out ELSE HeadOut(r, f.resp, f.out)
<1>1. CASE r.flushed
  <2>1. f = [resp |-> r, out |-> out, cost |-> 0, crash |-> FALSE, ret |-> 0]
    BY <1>1 DEF FlushOutcomes
  <2> QED BY <1>1, <2>1
<1>2. CASE ~ r.flushed
  <2>1. PICK w, q, p : w = WithLength(r) /\ q = [w EXCEPT !.flushed = TRUE] /\ p = [q EXCEPT !.status = 500]
    OBVIOUS
  <2>2. Lengthened(r, w, r.clen)
    <3>1. CASE r.clen = -1
      BY <2>1, <3>1 DEF WithLength, LengthKnown, Lengthened
    <3>2. CASE r.clen # -1
      <4>1. w = Insert(r, "Content-Length", "", r.clen) /\ r.clen \in Int
        BY <2>1, <3>2 DEF WithLength, LengthKnown
      <4>2. Lengthened(r, Insert(r, "Content-Length", "", r.clen), r.clen)
        BY <3>2, <4>1, LengthAdded
      <4> QED BY <4>1, <4>2, Zenon
    <3> QED BY <3>1, <3>2
  <2>3. /\ GoodResp(q) /\ LengthKnown(q) /\ q.flushed /\ q.minor = r.minor /\ q.clen = r.clen
        /\ q.length = IF r.length = -1 THEN r.clen ELSE r.length
    BY <2>1, <2>2 DEF GoodResp, RespFields, LengthKnown, Lengthened
  <2>a. PICK fates : fates = IF peer = "broken" THEN {"nothing"}
                             ELSE {"whole"} \cup IF faults > 0 THEN {"cut", "status"} ELSE {}
    OBVIOUS
  <2>4. \/ \E fate \in fates :
             f = [resp |-> IF fate = "status" THEN p ELSE q,
                  out |-> HeadWritten(q, fate), cost |-> FaultIf(fate \in {"cut", "status"}),
                  crash |-> FALSE, ret |-> 0]
        \/ f = [resp |-> r, out |-> out, cost |-> 1, crash |-> TRUE, ret |-> 0]
    BY <1>2, <2>1, <2>a, ZenonT(40) DEF FlushOutcomes
  <2>5. f # [resp |-> r, out |-> out, cost |-> 1, crash |-> TRUE, ret |-> 0]
    OBVIOUS
  <2>6. PICK fate \in fates :
          f = [resp |-> IF fate = "status" THEN p ELSE q,
               out |-> HeadWritten(q, fate), cost |-> FaultIf(fate \in {"cut", "status"}),
               crash |-> FALSE, ret |-> 0]
    BY <2>4, <2>5, Zenon
  <2>7. f.out = HeadWritten(q, fate) /\ f.resp = IF fate = "status" THEN p ELSE q
    BY <2>6
  <2>8. fate = "whole" /\ peer # "broken"
    <3>1. fate = "whole" \/ fate \in f.out.mishaps
      BY <2>7 DEF HeadWritten, GoodOut, OutFields
    <3> QED BY <2>a, <2>6, <3>1
  <2>9. /\ f.out.head = "whole" /\ f.out.body = out.body /\ f.out.k = out.k
        /\ f.out.minor = q.minor /\ f.out.length = q.length
    BY <2>7, <2>8 DEF HeadWritten, GoodOut, OutFields
  <2>10. f.resp = q
    BY <2>7, <2>8
  <2> QED BY <1>2, <2>3, <2>8, <2>9, <2>10 DEF HeadOut
<1> QED BY <1>1, <1>2

\* A single piece of which only m cells are sent.
CutShort(pieces, i, m) ==
  /\ m \in Nat /\ 0 < m /\ m < FoldLeft(+, 0, pieces)
  /\ FoldLeft(+, 0, SubSeq(pieces, 1, i - 1)) + m = m

LEMMA OnePiece ==
  ASSUME NEW pieces \in Seq(Nat), Len(pieces) = 1
  PROVE  pieces[1] \in Nat
<1>1. 1 \in 1 .. Len(pieces)
  OBVIOUS
<1> QED BY <1>1, ElementOfSeq, Zenon

LEMMA SinglePiece ==
  ASSUME NEW pieces \in Seq(Nat), Len(pieces) = 1, NEW i \in DOMAIN pieces, NEW m \in 1 .. pieces[i] - 1
  PROVE  CutShort(pieces, i, m)
<1>1. i = 1 /\ i - 1 = 0
  OBVIOUS
<1>2. PICK a \in Nat : a = pieces[1] /\ pieces = <<a>>
  <2>1. PICK a \in Nat : a = pieces[1]
    BY <1>1, OnePiece, Zenon
  <2>2. pieces = <<a>>
    BY <2>1
  <2> QED BY <2>1, <2>2
<1>3. SubSeq(pieces, 1, i - 1) = <<>>
  BY <1>1
<1>4. FoldLeft(+, 0, <<>>) = 0 /\ FoldLeft(+, 0, <<a>>) = a
  BY SumOfOne
<1>5. FoldLeft(+, 0, SubSeq(pieces, 1, i - 1)) = 0 /\ FoldLeft(+, 0, pieces) = a
  BY <1>2, <1>3, <1>4, Zenon
<1>6. m \in Nat /\ 0 < m /\ m < a /\ 0 + m = m
  BY <1>1, <1>2
<1> QED BY <1>5, <1>6, Zenon DEF CutShort

\* dfk_tcp_socket_write and writev: what they send, and what they say they sent.
LEMMA WritevFacts ==
  ASSUME NEW pieces \in Seq(Nat), NEW v \in WritevOutcomes(pieces), v.short => Len(pieces) = 1,
         NEW total, total = FoldLeft(+, 0, pieces)
  PROVE  /\ total \in Nat
         /\ \/ v.n = total /\ v.ret = total /\ ~ v.short
            \/ v.n = 0 /\ v.ret = -1 /\ peer = "broken"
            \/ v.n = v.ret /\ v.ret \in Nat /\ 0 < v.ret /\ v.ret < total /\ v.short
<1>1. total \in Nat
  BY SumOfNaturals
<1>2. CASE peer = "broken"
  <2>1. v = [n |-> 0, ret |-> -1, short |-> FALSE]
    BY <1>2, Zenon DEF WritevOutcomes
  <2> QED BY <1>1, <1>2, <2>1
<1>3. CASE peer # "broken"
  <2>1. \/ v = [n |-> total, ret |-> total, short |-> FALSE]
        \/ \E x \in UNION {{<<i, m>> : m \in 1 .. pieces[i] - 1} : i \in DOMAIN pieces} :
             v = [n |-> FoldLeft(+, 0, SubSeq(pieces, 1, x[1] - 1)) + x[2], ret |-> x[2], short |-> TRUE]
    BY <1>3, Zenon DEF WritevOutcomes
  <2>2. CASE v = [n |-> total, ret |-> total, short |-> FALSE]
    <3>1. v.n = total /\ v.ret = total /\ ~ v.short
      BY <2>2
    <3> QED BY <1>1, <3>1
  <2>3. CASE \E x \in UNION {{<<i, m>> : m \in 1 .. pieces[i] - 1} : i \in DOMAIN pieces} :
               v = [n |-> FoldLeft(+, 0, SubSeq(pieces, 1, x[1] - 1)) + x[2], ret |-> x[2], short |-> TRUE]
    <3>1. PICK x \in UNION {{<<i, m>> : m \in 1 .. pieces[i] - 1} : i \in DOMAIN pieces} :
            v = [n |-> FoldLeft(+, 0, SubSeq(pieces, 1, x[1] - 1)) + x[2], ret |-> x[2], short |-> TRUE]
      BY <2>3
    <3>2. PICK i \in DOMAIN pieces : x \in {<<i, m>> : m \in 1 .. pieces[i] - 1}
      BY <3>1, Zenon
    <3>3. PICK m \in 1 .. pieces[i] - 1 : x = <<i, m>>
      BY <3>2, Zenon
    <3>4. x[1] = i /\ x[2] = m
      BY <3>3
    <3>5. PICK before : before = FoldLeft(+, 0, SubSeq(pieces, 1, i - 1))
      OBVIOUS
    <3>6. v = [n |-> before + m, ret |-> m, short |-> TRUE]
      BY <3>1, <3>4, <3>5, Zenon
    <3>7. v.n = before + m /\ v.ret = m /\ v.short
      BY <3>6
    <3>8. Len(pieces) = 1
      BY <3>7, Zenon
    <3>9. CutShort(pieces, i, m)
      BY <3>2, <3>3, <3>8, SinglePiece, Zenon
    <3>11. m \in Nat /\ 0 < m /\ m < total /\ before + m = m
      BY <3>5, <3>9, Zenon DEF CutShort
    <3> QED BY <1>1, <3>7, <3>11
  <2> QED BY <2>1, <2>2, <2>3
<1> QED BY <1>2, <1>3

\* The content up to n, and c cells more.
LEMMA ContentGoesOn ==
  ASSUME NEW n \in Nat, NEW c \in Nat, NEW b, b = [j \in 1 .. n |-> j], NEW from, from = n + 1,
         NEW d, d = b \o [i \in 1 .. c |-> from + i - 1]
  PROVE  d = [j \in 1 .. n + c |-> j] /\ Len(d) = n + c
<1>1. PICK t : t = [i \in 1 .. c |-> from + i - 1]
  OBVIOUS
<1>2. Run(b, 1, n)
  BY DEF Run
<1>3. Run(t, 1 + n, c)
  BY <1>1 DEF Run
<1>4. PICK y \in Nat : y = n + c /\ y - n = c /\ n <= y
  OBVIOUS
<1>5. Run(d, 1, y)
  <2>1. Run(t, 1 + n, y - n)
    BY <1>3, <1>4
  <2>2. d = b \o t
    BY <1>1
  <2>3. PICK o \in Int : o = 1
    OBVIOUS
  <2>4. Run(b, o, n) /\ Run(t, o + n, y - n)
    BY <1>2, <2>1, <2>3
  <2>5. Run(d, o, y)
    BY <1>4, <2>2, <2>4, RunExtended
  <2> QED BY <2>3, <2>5
<1>6. d \in Seq(Int) /\ Len(d) = y /\ \A i \in 1 .. y : d[i] = i
  BY <1>5 DEF Run
<1>7. d = [j \in 1 .. y |-> j]
  BY <1>6
<1> QED BY <1>4, <1>6, <1>7

\* d is the content b up to n with that up to n + c behind it.
Extended(d, b, n, c, from) == b = [j \in 1 .. n |-> j] /\ d = b \o [i \in 1 .. c |-> from + i - 1]

LEMMA ContentExtended ==
  ASSUME NEW n \in Nat, NEW c \in Nat, NEW from, from = n + 1, NEW b, NEW d, Extended(d, b, n, c, from)
  PROVE  d = [j \in 1 .. n + c |-> j]
BY ContentGoesOn DEF Extended

\* The response q, the output o and the result x after r was flushed and the pieces
\* were written from position `from' on.
WriteOut(r, from, pieces, q, o, x) ==
  \E p, n : /\ IF r.flushed THEN q = r /\ p = out ELSE HeadOut(r, q, p)
            /\ GoodOut(o) /\ o.head = p.head /\ o.k = p.k /\ o.minor = p.minor /\ o.length = p.length
            /\ n \in Nat /\ o.body = p.body \o [i \in 1 .. n |-> from + i - 1]
            /\ \/ n = FoldLeft(+, 0, pieces) /\ x = n
               \/ n = 0 /\ x = -1 /\ peer = "broken"
               \/ n = x /\ 0 < x /\ x < FoldLeft(+, 0, pieces) /\ Len(pieces) = 1

LEMMA CleanWrite ==
  ASSUME GoodOut(out), NEW r, GoodResp(r), LengthKnown(r), NEW from, NEW pieces \in Seq(Nat), pieces # <<>>,
         NEW w \in WriteOutcomes(r, from, pieces), ~ w.crash, w.out.mishaps \subseteq {"manual"}
  PROVE  WriteOut(r, from, pieces, w.resp, w.out, w.ret)
<1>1. PICK f \in FlushOutcomes(r) :
        w \in IF f.crash THEN {f}
              ELSE {[resp  |-> f.resp,
                     out   |-> [f.out EXCEPT !.body = @ \o [i \in 1 .. v.n |-> from + i - 1],
                                             !.mishaps = @ \cup IF v.short /\ Len(pieces) > 1
                                                                THEN {"writev"} ELSE {}],
                     cost  |-> f.cost + FaultIf(v.short), crash |-> FALSE, ret |-> v.ret] :
                      v \in {u \in WritevOutcomes(pieces) : f.cost + FaultIf(u.short) <= faults}}
  BY Zenon DEF WriteOutcomes
<1>2. ~ f.crash
  BY <1>1
<1>3. PICK v \in WritevOutcomes(pieces) :
        w = [resp  |-> f.resp,
             out   |-> [f.out EXCEPT !.body = @ \o [i \in 1 .. v.n |-> from + i - 1],
                                     !.mishaps = @ \cup IF v.short /\ Len(pieces) > 1
                                                        THEN {"writev"} ELSE {}],
             cost  |-> f.cost + FaultIf(v.short), crash |-> FALSE, ret |-> v.ret]
  BY <1>1, <1>2, Zenon
<1>4. PICK new, s : /\ new = [i \in 1 .. v.n |-> from + i - 1]
                    /\ s = IF v.short /\ Len(pieces) > 1 THEN {"writev"} ELSE {}
  OBVIOUS
<1>5. w.resp = f.resp /\ w.ret = v.ret /\ w.out = [f.out EXCEPT !.body = @ \o new, !.mishaps = @ \cup s]
  BY <1>3, <1>4
<1>6. GoodOut(f.out)
  BY FlushFacts DEF Flushed
<1>7. /\ GoodOut(w.out) /\ w.out.head = f.out.head /\ w.out.k = f.out.k /\ w.out.minor = f.out.minor
      /\ w.out.length = f.out.length /\ w.out.body = f.out.body \o new
      /\ w.out.mishaps = f.out.mishaps \cup s
  BY <1>5, <1>6 DEF GoodOut, OutFields
<1>8. f.out.mishaps \subseteq {"manual"} /\ "writev" \notin s
  BY <1>7
<1>9. IF r.flushed THEN f.resp = r /\ f.out = out ELSE HeadOut(r, f.resp, f.out)
  BY <1>2, <1>8, CleanFlush
<1>10. v.short => Len(pieces) = 1
  <2>1. Len(pieces) \in Nat /\ Len(pieces) # 0
    OBVIOUS
  <2>2. ~ (v.short /\ Len(pieces) > 1)
    BY <1>4, <1>8, Zenon
  <2>3. PICK l \in Nat : l = Len(pieces) /\ l # 0
    BY <2>1, Zenon
  <2>4. l > 1 \/ l = 1
    BY <2>3
  <2> QED BY <2>2, <2>3, <2>4, Zenon
<1>11. PICK total : total = FoldLeft(+, 0, pieces)
  OBVIOUS
<1>12. /\ total \in Nat
       /\ \/ v.n = total /\ v.ret = total /\ ~ v.short
          \/ v.n = 0 /\ v.ret = -1 /\ peer = "broken"
          \/ v.n = v.ret /\ v.ret \in Nat /\ 0 < v.ret /\ v.ret < total /\ v.short
  BY <1>10, <1>11, WritevFacts
<1>13. /\ v.n \in Nat
       /\ \/ v.n = total /\ v.ret = v.n
          \/ v.n = 0 /\ v.ret = -1 /\ peer = "broken"
          \/ v.n = v.ret /\ 0 < v.ret /\ v.ret < total /\ Len(pieces) = 1
  BY <1>10, <1>12
<1>14. w.out.body = f.out.body \o [i \in 1 .. v.n |-> from + i - 1]
  BY <1>4, <1>7, Zenon
<1>15. /\ IF r.flushed THEN w.resp = r /\ f.out = out ELSE HeadOut(r, w.resp, f.out)
       /\ \/ v.n = FoldLeft(+, 0, pieces) /\ w.ret = v.n
          \/ v.n = 0 /\ w.ret = -1 /\ peer = "broken"
          \/ v.n = w.ret /\ 0 < w.ret /\ w.ret < FoldLeft(+, 0, pieces) /\ Len(pieces) = 1
  BY <1>5, <1>9, <1>11, <1>13, Zenon
<1> QED BY <1>7, <1>13, <1>14, <1>15, Zenon DEF WriteOut

-----------------------------------------------------------------------------
(***************************************************************************)
(* ResponseInv, with the response, the output and the handler's locals of  *)
(* this state or of the next as arguments.                                 *)
(***************************************************************************)
AppFields == {"stage", "size", "calls", "at", "left", "off"}

UpTo(o, n) == n \in Nat /\ o.body = [j \in 1 .. n |-> j]

Contents(r, o, k) ==
  /\ o.k = k /\ LengthKnown(r)
  /\ IF r.flushed THEN o.head = "whole" /\ UpTo(o, Len(o.body)) ELSE o.body = <<>> /\ ~ o.early

UserCounts(o, a) == a.at \in Nat /\ UpTo(o, a.at - 1) /\ a.size \in Nat

FileCounts(r, o, a) ==
  /\ ~ r.flushed => r.length = -1
  /\ a.stage = "begin" => ~ r.flushed /\ a.off = 0
  /\ a.stage = "copy" =>
       /\ UpTo(o, a.off) /\ a.left \in Nat /\ a.left + a.off = FileSize
       /\ r.clen = FileSize /\ (r.flushed => o.length = FileSize)

\* The handler returned, and what it wrote is all it declared.
Complete(r, o) == IF r.flushed THEN o.length = Len(o.body) ELSE r.length \in {-1, 0}

LEMMA AppNames == DOMAIN NoApp = AppFields
BY DEF NoApp, AppFields

LEMMA AppNamesNext == DOMAIN NoApp' = AppFields
BY DEF NoApp, AppFields

\* A sequence of n numbers has length n.
LEMMA UpToLen ==
  ASSUME NEW o, NEW n, UpTo(o, n)
  PROVE  Len(o.body) = n /\ UpTo(o, Len(o.body))
<1>1. n \in Nat /\ o.body = [j \in 1 .. n |-> j]
  BY DEF UpTo
<1>2. Len(o.body) = n
  BY <1>1
<1> QED BY <1>2, Zenon

\* What the steps of a handler start from.
LEMMA HandlerKnows ==
  ASSUME ResponseInv, pc = "handler"
  PROVE  /\ DOMAIN app = AppFields
         /\ Clean => Contents(resp, out, req.k)
         /\ Clean /\ conf.app = "user" => UserCounts(out, app)
         /\ Clean /\ conf.app = "files" => FileCounts(resp, out, app)
<1>1. Handling /\ pc # "respond"
  BY DEF Handling
<1>2. DOMAIN app = AppFields
  BY AppNames DEF ResponseInv, HandlerCounts
<1>3. Clean => Contents(resp, out, req.k)
  BY <1>1, Zenon DEF ResponseInv, ContentInOrder, Contents, WrittenUpTo, UpTo
<1>4. Clean /\ conf.app = "user" => UserCounts(out, app)
  BY <1>1, Zenon DEF ResponseInv, HandlerCounts, UserCounts, WrittenUpTo, UpTo
<1>5. Clean /\ conf.app = "files" => FileCounts(resp, out, app)
  BY <1>1, Zenon DEF ResponseInv, HandlerCounts, FileCounts, WrittenUpTo, UpTo
<1> QED BY <1>2, <1>3, <1>4, <1>5

\* The handler goes on.
LEMMA HandlerGoesOn ==
  ASSUME pc' = "handler", conf' = conf, DOMAIN app' = AppFields,
         Clean' => Contents(resp', out', req'.k),
         Clean' /\ conf.app = "user" => UserCounts(out', app'),
         Clean' /\ conf.app = "files" => FileCounts(resp', out', app')
  PROVE  ResponseInv'
<1>1. pc' # "respond" /\ ~ Settled'
  BY DEF Settled, Skipping
<1>2. ContentInOrder'
  BY Zenon DEF ContentInOrder, Contents, WrittenUpTo, UpTo, LengthKnown
<1>3. HandlerCounts'
  <2>1. (DOMAIN app = DOMAIN NoApp)'
    BY AppNamesNext
  <2>2. Clean' /\ conf'.app = "user" => (app.at \in Nat /\ WrittenUpTo(app.at - 1) /\ app.size \in Nat)'
    BY Zenon DEF UserCounts, WrittenUpTo, UpTo
  <2>3. Clean' /\ conf'.app = "files" =>
          (/\ ~ resp.flushed => resp.length = -1
           /\ app.stage = "begin" => ~ resp.flushed /\ app.off = 0
           /\ app.stage = "copy" =>
                /\ WrittenUpTo(app.off) /\ app.left \in Nat /\ app.left + app.off = FileSize
                /\ resp.clen = FileSize /\ (resp.flushed => out.length = FileSize))'
    BY Zenon DEF FileCounts, WrittenUpTo, UpTo
  <2> QED BY <1>1, <2>1, <2>2, <2>3, Zenon DEF HandlerCounts
<1> QED BY <1>1, <1>2, <1>3, Zenon DEF ResponseInv

\* The handler returns.
LEMMA HandlerOver ==
  ASSUME pc' = "respond", DOMAIN app' = AppFields,
         Clean' => Contents(resp', out', req'.k) /\ Complete(resp', out')
  PROVE  ResponseInv'
<1>1. ~ Settled'
  BY DEF Settled, Skipping
<1>2. ContentInOrder'
  BY Zenon DEF ContentInOrder, Contents, WrittenUpTo, UpTo, LengthKnown
<1>3. HandlerCounts'
  <2>1. (DOMAIN app = DOMAIN NoApp)'
    BY AppNamesNext
  <2>2. Clean' => (IF resp.flushed THEN out.length = Len(out.body) ELSE resp.length \in {-1, 0})'
    BY Zenon DEF Complete
  <2> QED BY <2>1, <2>2, Zenon DEF HandlerCounts
<1> QED BY <1>1, <1>2, <1>3, Zenon DEF ResponseInv

\* A step after which the handler is not at work.
LEMMA Elsewhere ==
  ASSUME ~ Handling', pc' # "respond", DOMAIN app' = AppFields,
         Settled' /\ out'.head # "none" /\ Clean' => Framed'
  PROVE  ResponseInv'
<1>1. ContentInOrder'
  BY Zenon DEF ContentInOrder
<1>2. (DOMAIN app = DOMAIN NoApp)'
  BY AppNamesNext
<1>3. HandlerCounts'
  BY <1>2, Zenon DEF HandlerCounts
<1> QED BY <1>1, <1>3, Zenon DEF ResponseInv

\* A step that leaves the response and the handler's locals alone.
LEMMA QuietResponse ==
  ASSUME ResponseInv, UNCHANGED <<conf, resp, out>>, DOMAIN app' = AppFields,
         Handling' => /\ Handling /\ app'.at = app.at /\ app'.size = app.size /\ app'.stage = app.stage
                      /\ app'.left = app.left /\ app'.off = app.off /\ req'.k = req.k,
         pc' = "respond" <=> pc = "respond", Settled' => Settled
  PROVE  ResponseInv'
<1>1. (Clean' <=> Clean) /\ (Framed' <=> Framed)
  BY DEF Clean, Framed
<1>2. ContentInOrder'
  <2>1. ContentInOrder
    BY DEF ResponseInv
  <2> QED BY <1>1, <2>1 DEF ContentInOrder, WrittenUpTo, LengthKnown
<1>3. HandlerCounts'
  <2>1. (DOMAIN app = DOMAIN NoApp)'
    BY AppNamesNext
  <2>2. pc' = "respond" /\ Clean' => (IF resp.flushed THEN out.length = Len(out.body) ELSE resp.length \in {-1, 0})'
    BY <1>1, Zenon DEF ResponseInv, HandlerCounts
  <2>3. ASSUME Handling', Clean', pc' # "respond" PROVE Handling /\ Clean /\ pc # "respond"
    BY <1>1, <2>3
  <2>4. ASSUME Handling', Clean', pc' # "respond", conf'.app = "user"
        PROVE  (app.at \in Nat /\ WrittenUpTo(app.at - 1) /\ app.size \in Nat)'
    BY <2>3, <2>4 DEF ResponseInv, HandlerCounts, WrittenUpTo
  <2>5. ASSUME Handling', Clean', pc' # "respond", conf'.app = "files"
        PROVE  (/\ ~ resp.flushed => resp.length = -1
                /\ app.stage = "begin" => ~ resp.flushed /\ app.off = 0
                /\ app.stage = "copy" =>
                     /\ WrittenUpTo(app.off) /\ app.left \in Nat /\ app.left + app.off = FileSize
                     /\ resp.clen = FileSize /\ (resp.flushed => out.length = FileSize))'
    BY <2>3, <2>5 DEF ResponseInv, HandlerCounts, WrittenUpTo
  <2> QED BY <2>1, <2>2, <2>4, <2>5, Zenon DEF HandlerCounts
<1>4. Settled' /\ out'.head # "none" /\ Clean' => Framed'
  BY <1>1 DEF ResponseInv
<1> QED BY <1>2, <1>3, <1>4, Zenon DEF ResponseInv

-----------------------------------------------------------------------------
(***************************************************************************)
(* What the calls of a handler do to the content and its length.           *)
(***************************************************************************)
\* The insertion of another header leaves the length alone.
LEMMA OtherAdded ==
  ASSUME NEW r, GoodResp(r), LengthKnown(r), NEW name \in Names, name # "Content-Length", NEW conn, NEW l,
         NEW q, q = Insert(r, name, conn, l)
  PROVE  /\ GoodResp(q) /\ LengthKnown(q) /\ q.flushed = r.flushed /\ q.clen = r.clen /\ q.minor = r.minor
         /\ q.length = r.length
<1>1. GoodResp(q) /\ q.flushed = r.flushed /\ q.clen = r.clen
  BY InsertFacts
<1>2. CASE r.items[name] # "absent"
  <2>1. q = r
    BY <1>2 DEF Insert
  <2> QED BY <1>1, <2>1
<1>3. CASE r.items[name] = "absent"
  <2>1. q = [r EXCEPT !.items[name] = "set",
                      !.conn = IF name = "Connection" THEN conn ELSE @,
                      !.length = IF name = "Content-Length" THEN l ELSE @]
    BY <1>3 DEF Insert
  <2>2. q.length = r.length /\ q.minor = r.minor /\ q.items = [r.items EXCEPT ![name] = "set"]
    BY <2>1 DEF GoodResp, RespFields
  <2>3. q.items["Content-Length"] = r.items["Content-Length"]
    BY <2>2 DEF GoodResp, Names
  <2> QED BY <1>1, <2>2, <2>3 DEF LengthKnown
<1> QED BY <1>2, <1>3

\* q is o but for what has gone wrong.
SameOut(o, q) ==
  q.k = o.k /\ q.head = o.head /\ q.body = o.body /\ q.length = o.length /\ q.minor = o.minor /\ q.early = o.early

LEMMA MishapNoted ==
  ASSUME NEW o, GoodOut(o), NEW s, NEW q, q = [o EXCEPT !.mishaps = @ \cup s]
  PROVE  SameOut(o, q) /\ q.mishaps = o.mishaps \cup s
BY DEF GoodOut, OutFields, SameOut

LEMMA SameContents ==
  ASSUME NEW r, NEW o, NEW q, NEW k, Contents(r, o, k), SameOut(o, q)
  PROVE  Contents(r, q, k)
BY DEF Contents, SameOut, UpTo

\* q is r with another status.
LEMMA StatusKeepsContents ==
  ASSUME NEW r, GoodResp(r), NEW o, NEW k, Contents(r, o, k), NEW s, NEW q, q = [r EXCEPT !.status = s]
  PROVE  Contents(q, o, k) /\ q.flushed = r.flushed /\ q.length = r.length /\ GoodResp(q)
<1>1. /\ q.flushed = r.flushed /\ q.length = r.length /\ q.clen = r.clen /\ q.minor = r.minor /\ q.items = r.items
      /\ GoodResp(q)
  BY DEF GoodResp, RespFields
<1>2. LengthKnown(q)
  BY <1>1 DEF Contents, LengthKnown
<1> QED BY <1>1, <1>2 DEF Contents

\* After a write of the pieces that begin behind position n: c cells of them are on
\* the wire.
Advanced(r, n, pieces, k, q, o, x) ==
  /\ Contents(q, o, k) /\ q.flushed /\ q.clen = r.clen
  /\ o.length = IF r.flushed THEN out.length ELSE IF r.length = -1 THEN r.clen ELSE r.length
  /\ ~ r.flushed => peer # "broken"
  /\ \E c \in Nat : /\ UpTo(o, n + c)
                    /\ \/ c = FoldLeft(+, 0, pieces) /\ x = c
                       \/ c = 0 /\ x = -1 /\ peer = "broken"
                       \/ c = x /\ 0 < x /\ x < FoldLeft(+, 0, pieces) /\ Len(pieces) = 1

LEMMA WriteAdvances ==
  ASSUME NEW r, NEW k, Contents(r, out, k), NEW n, UpTo(out, n), NEW from, from = n + 1,
         NEW pieces, NEW q, NEW o, NEW x, WriteOut(r, from, pieces, q, o, x)
  PROVE  Advanced(r, n, pieces, k, q, o, x)
<1>1. PICK p, c : /\ IF r.flushed THEN q = r /\ p = out ELSE HeadOut(r, q, p)
                  /\ GoodOut(o) /\ o.head = p.head /\ o.k = p.k /\ o.minor = p.minor /\ o.length = p.length
                  /\ c \in Nat /\ o.body = p.body \o [i \in 1 .. c |-> from + i - 1]
                  /\ \/ c = FoldLeft(+, 0, pieces) /\ x = c
                     \/ c = 0 /\ x = -1 /\ peer = "broken"
                     \/ c = x /\ 0 < x /\ x < FoldLeft(+, 0, pieces) /\ Len(pieces) = 1
  BY Zenon DEF WriteOut
<1>2. /\ p.body = out.body /\ p.head = "whole" /\ p.k = k /\ LengthKnown(q) /\ q.flushed /\ q.clen = r.clen
      /\ p.length = IF r.flushed THEN out.length ELSE IF r.length = -1 THEN r.clen ELSE r.length
      /\ ~ r.flushed => peer # "broken"
  <2>1. CASE r.flushed
    BY <1>1, <2>1, Zenon DEF Contents
  <2>2. CASE ~ r.flushed
    <3>1. HeadOut(r, q, p) /\ out.k = k
      BY <1>1, <2>2, Zenon DEF Contents
    <3> QED BY <2>2, <3>1, Zenon DEF HeadOut
  <2> QED BY <2>1, <2>2
<1>3. n \in Nat /\ out.body = [j \in 1 .. n |-> j]
  BY DEF UpTo
<1>4. UpTo(o, n + c)
  <2>1. PICK b, d : b = out.body /\ d = b \o [i \in 1 .. c |-> from + i - 1]
    OBVIOUS
  <2>0. c \in Nat /\ b = [j \in 1 .. n |-> j]
    BY <1>1, <1>3, <2>1, Zenon
  <2>5. Extended(d, b, n, c, from)
    BY <2>0, <2>1, Zenon DEF Extended
  <2>2. d = [j \in 1 .. n + c |-> j]
    BY <1>3, <2>0, <2>5, ContentExtended
  <2>3. o.body = d
    BY <1>1, <1>2, <2>1, Zenon
  <2>4. n + c \in Nat
    BY <1>3, <2>0
  <2> QED BY <2>2, <2>3, <2>4, Zenon DEF UpTo
<1>5. UpTo(o, Len(o.body))
  BY <1>4, UpToLen
<1>6. Contents(q, o, k)
  BY <1>1, <1>2, <1>5, Zenon DEF Contents
<1>7. \E e \in Nat : /\ UpTo(o, n + e)
                     /\ \/ e = FoldLeft(+, 0, pieces) /\ x = e
                        \/ e = 0 /\ x = -1 /\ peer = "broken"
                        \/ e = x /\ 0 < x /\ x < FoldLeft(+, 0, pieces) /\ Len(pieces) = 1
  BY <1>1, <1>4, Zenon
<1>8. o.length = IF r.flushed THEN out.length ELSE IF r.length = -1 THEN r.clen ELSE r.length
  BY <1>1, <1>2, Zenon
<1> QED BY <1>2, <1>6, <1>7, <1>8, Zenon DEF Advanced

-----------------------------------------------------------------------------
(***************************************************************************)
(* How the steps of a handler in user code keep ResponseInv.               *)
(***************************************************************************)
LEMMA HandlerBeginsResponse ==
  ASSUME HttpInv, ResponseInv, HandlerBegins
  PROVE  ResponseInv'
<1> USE DEF requestVars, clientVars
<1>1. pc = "handler" /\ conf.app = "user" /\ UNCHANGED <<conf, pc, out, req>>
  BY DEF HandlerBegins, InHandler
<1>2. PICK size, l, ka :
        /\ size \in {0, 2} /\ app' = [app EXCEPT !.stage = "run", !.size = size]
        /\ resp' = [resp EXCEPT !.clen = l, !.keepalive = ka, !.minor = 1] /\ l \in {0, 2, -1}
  <2>1. PICK size \in {0, 2}, declared \in BOOLEAN, keeps \in BOOLEAN :
          /\ app' = [app EXCEPT !.stage = "run", !.size = size]
          /\ resp' = [resp EXCEPT !.clen = IF declared THEN size ELSE -1,
                                  !.keepalive = @ /\ keeps, !.minor = 1]
    BY DEF HandlerBegins
  <2>2. PICK l, ka : l = (IF declared THEN size ELSE -1) /\ ka = (resp.keepalive /\ keeps)
    OBVIOUS
  <2>3. resp' = [resp EXCEPT !.clen = l, !.keepalive = ka, !.minor = 1]
    BY <2>1, <2>2, Zenon
  <2>4. l \in {0, 2, -1}
    BY <2>1, <2>2
  <2> QED BY <2>1, <2>3, <2>4, Zenon
<1>3. GoodResp(resp)
  BY <1>1, HandlerState
<1>4. DOMAIN app' = AppFields /\ app'.at = app.at /\ app'.size = size
  BY <1>1, <1>2, HandlerKnows DEF AppFields
<1>5. ASSUME Clean' PROVE Contents(resp', out', req'.k) /\ UserCounts(out', app')
  <2>1. Contents(resp, out, req.k) /\ UserCounts(out, app)
    BY <1>1, <1>5, HandlerKnows DEF Clean
  <2>2. /\ resp'.flushed = resp.flushed /\ resp'.items = resp.items /\ resp'.length = resp.length
        /\ resp'.clen \in Int /\ resp'.minor = 1
    BY <1>2, <1>3 DEF GoodResp, RespFields
  <2>3. LengthKnown(resp')
    BY <2>1, <2>2 DEF Contents, LengthKnown
  <2>4. size \in Nat
    BY <1>2
  <2> QED BY <1>1, <1>4, <2>1, <2>2, <2>3, <2>4 DEF Contents, UserCounts
<1> QED BY <1>1, <1>4, <1>5, HandlerGoesOn

LEMMA HandlerSetsResponse ==
  ASSUME HttpInv, ResponseInv, HandlerSets
  PROVE  ResponseInv'
<1> USE DEF requestVars, clientVars
<1>1. /\ pc = "handler" /\ conf.app = "user" /\ UNCHANGED <<conf, pc, req>>
      /\ app' = [app EXCEPT !.calls = @ + 1]
  BY DEF HandlerSets, Calls, InHandler
<1>2. PICK name \in Names :
        /\ resp' = Insert(resp, name, "Keep-Alive", app.size)
        /\ out' = [out EXCEPT !.mishaps = @ \cup IF name = "Connection" THEN {"manual"} ELSE {}]
  BY Zenon DEF HandlerSets
<1>3. resp' = Insert(resp, name, "Keep-Alive", app.size)
  BY <1>2
<1>4. GoodResp(resp) /\ GoodOut(out)
  BY <1>1, HandlerState
<1>5. PICK s : s = IF name = "Connection" THEN {"manual"} ELSE {}
  OBVIOUS
<1>6. SameOut(out, out') /\ out'.mishaps = out.mishaps \cup s
  BY <1>2, <1>4, <1>5, MishapNoted
<1>7. DOMAIN app' = AppFields /\ app'.at = app.at /\ app'.size = app.size
  BY <1>1, HandlerKnows DEF AppFields
<1>8. ASSUME Clean' PROVE Contents(resp', out', req'.k) /\ UserCounts(out', app')
  <2>1. Clean
    BY <1>6, <1>8 DEF Clean
  <2>2. Contents(resp, out, req.k) /\ UserCounts(out, app)
    BY <1>1, <2>1, HandlerKnows
  <2>3. PICK l \in Int : l = app.size /\ l # -1
    BY <2>2 DEF UserCounts
  <2>4. LengthKnown(resp') /\ resp'.flushed = resp.flushed
    <3>1. LengthKnown(resp)
      BY <2>2 DEF Contents
    <3>2. CASE name = "Content-Length"
      <4>1. resp' = Insert(resp, "Content-Length", "Keep-Alive", l)
        BY <1>3, <2>3, <3>2
      <4>2. Lengthened(resp, resp', l)
        BY <1>4, <2>3, <3>1, <4>1, LengthAdded
      <4> QED BY <4>2 DEF Lengthened
    <3>3. CASE name # "Content-Length"
      BY <1>3, <1>4, <3>1, <3>3, OtherAdded
    <3> QED BY <3>2, <3>3
  <2>5. Contents(resp', out, req.k)
    BY <2>2, <2>4 DEF Contents
  <2>6. Contents(resp', out', req'.k)
    BY <1>1, <1>6, <2>5, SameContents
  <2>7. UserCounts(out', app')
    BY <1>6, <1>7, <2>2 DEF UserCounts, SameOut, UpTo
  <2> QED BY <2>6, <2>7
<1> QED BY <1>1, <1>7, <1>8, HandlerGoesOn

LEMMA HandlerPieces ==
  ASSUME NEW pieces \in {<< 1 >>, << 2 >>, <<1, 1>>, <<2, 2>>}
  PROVE  pieces \in Seq(Nat) /\ pieces # <<>>
<1>1. << 1 >> \in Seq(Nat) /\ << 2 >> \in Seq(Nat) /\ <<1, 1>> \in Seq(Nat) /\ <<2, 2>> \in Seq(Nat)
  OBVIOUS
<1>2. << 1 >> # <<>> /\ << 2 >> # <<>> /\ <<1, 1>> # <<>> /\ <<2, 2>> # <<>>
  OBVIOUS
<1> QED BY <1>1, <1>2, Zenon

LEMMA HandlerWritesResponse ==
  ASSUME HttpInv, ResponseInv, HandlerWrites
  PROVE  ResponseInv'
<1> USE DEF requestVars, clientVars
<1>1. pc = "handler" /\ conf.app = "user" /\ UNCHANGED <<conf, req>>
  BY DEF HandlerWrites, Calls, InHandler
<1>2. PICK pieces \in {<< 1 >>, << 2 >>, <<1, 1>>, <<2, 2>>} : \E w \in WriteOutcomes(resp, app.at, pieces) :
        /\ Written(w)
        /\ app' = [app EXCEPT !.calls = @ + 1, !.at = IF w.ret > 0 THEN @ + w.ret ELSE @]
  BY Zenon DEF HandlerWrites
<1>3. PICK w \in WriteOutcomes(resp, app.at, pieces) :
        /\ resp' = w.resp /\ out' = w.out /\ pc' = (IF w.crash THEN "undefined" ELSE pc)
        /\ app' = [app EXCEPT !.calls = @ + 1, !.at = IF w.ret > 0 THEN @ + w.ret ELSE @]
  BY <1>2, Zenon DEF Written
<1>4. GoodResp(resp) /\ GoodOut(out)
  BY <1>1, HandlerState
<1>5. PICK x, at : x = w.ret /\ at = IF x > 0 THEN app.at + x ELSE app.at
  OBVIOUS
<1>6. app' = [app EXCEPT !.calls = @ + 1, !.at = at]
  BY <1>3, <1>5, Zenon
<1>7. DOMAIN app' = AppFields /\ app'.at = at /\ app'.size = app.size
  BY <1>1, <1>6, HandlerKnows DEF AppFields
<1>8. CASE w.crash
  <2>1. pc' = "undefined"
    BY <1>3, <1>8
  <2> QED BY <1>7, <2>1, Elsewhere DEF Handling, Settled, Skipping
<1>9. CASE ~ w.crash
  <2>1. pc' = "handler"
    BY <1>1, <1>3, <1>9
  <2>2. ASSUME Clean' PROVE Contents(resp', out', req'.k) /\ UserCounts(out', app')
    <3>1. out.mishaps \subseteq w.out.mishaps
      BY <1>4, WriteFacts DEF Flushed
    <3>2. Clean /\ w.out.mishaps \subseteq {"manual"}
      BY <1>3, <2>2, <3>1 DEF Clean
    <3>3. Contents(resp, out, req.k) /\ UserCounts(out, app)
      BY <1>1, <3>2, HandlerKnows
    <3>4. pieces \in Seq(Nat) /\ pieces # <<>>
      BY <1>2, HandlerPieces, Zenon
    <3>5. LengthKnown(resp)
      BY <3>3 DEF Contents
    <3>6. WriteOut(resp, app.at, pieces, resp', out', x)
      <4>1. WriteOut(resp, app.at, pieces, w.resp, w.out, w.ret)
        BY <1>4, <1>9, <3>2, <3>4, <3>5, CleanWrite
      <4> QED BY <1>3, <1>5, <4>1, Zenon
    <3>7. PICK n : n = app.at - 1
      OBVIOUS
    <3>8. UpTo(out, n) /\ app.at \in Nat /\ n \in Nat /\ app.at = n + 1 /\ app.size \in Nat
      BY <3>3, <3>7 DEF UserCounts, UpTo
    <3>9. Advanced(resp, n, pieces, req.k, resp', out', x)
      BY <3>3, <3>6, <3>8, WriteAdvances
    <3>10. Contents(resp', out', req.k)
      BY <3>9 DEF Advanced
    <3>11. PICK c \in Nat : UpTo(out', n + c) /\ (c = x \/ (c = 0 /\ x = -1))
      BY <3>9, Zenon DEF Advanced
    <3>12. at \in Nat /\ at - 1 = n + c
      BY <1>5, <3>8, <3>11
    <3>13. UpTo(out', at - 1)
      BY <3>11, <3>12
    <3>14. UserCounts(out', app')
      BY <1>7, <3>8, <3>12, <3>13 DEF UserCounts
    <3> QED BY <1>1, <3>10, <3>14
  <2> QED BY <1>1, <1>7, <2>1, <2>2, HandlerGoesOn
<1> QED BY <1>8, <1>9

LEMMA HandlerReturnsResponse ==
  ASSUME HttpInv, ResponseInv, HandlerReturns
  PROVE  ResponseInv'
<1> USE DEF requestVars, clientVars, protocolVars
<1>1. pc = "handler" /\ conf.app = "user" /\ UNCHANGED <<conf, req, app>> /\ pc' = "respond"
  BY DEF HandlerReturns, InHandler, Return
<1>2. PICK ok \in BOOLEAN : resp' = IF ok THEN resp ELSE [resp EXCEPT !.status = 500]
  BY Zenon DEF HandlerReturns, Return
<1>3. PICK length : length = IF out.early THEN out.length ELSE resp.length
  OBVIOUS
<1>4. PICK s : s = IF (out.early \/ length # -1) /\ app.at - 1 # length THEN {"incomplete"} ELSE {}
  OBVIOUS
<1>5. out' = [out EXCEPT !.mishaps = @ \cup s]
  BY <1>3, <1>4, Zenon DEF HandlerReturns
<1>6. GoodResp(resp) /\ GoodOut(out) /\ (resp.flushed => out.early)
  BY <1>1, HandlerState
<1>7. SameOut(out, out') /\ out'.mishaps = out.mishaps \cup s
  BY <1>5, <1>6, MishapNoted
<1>8. ASSUME Clean' PROVE Contents(resp', out', req'.k) /\ Complete(resp', out')
  <2>1. Clean /\ "incomplete" \notin s
    BY <1>7, <1>8 DEF Clean
  <2>2. Contents(resp, out, req.k) /\ UserCounts(out, app)
    BY <1>1, <2>1, HandlerKnows
  <2>3. Contents(resp', out, req.k) /\ resp'.flushed = resp.flushed /\ resp'.length = resp.length
    <3>1. CASE ok
      BY <1>2, <2>2, <3>1
    <3>2. CASE ~ ok
      <4>1. resp' = [resp EXCEPT !.status = 500]
        BY <1>2, <3>2
      <4> QED BY <1>6, <2>2, <4>1, StatusKeepsContents
    <3> QED BY <3>1, <3>2
  <2>4. Contents(resp', out', req'.k)
    BY <1>1, <1>7, <2>3, SameContents
  <2>5. PICK n : n = app.at - 1
    OBVIOUS
  <2>6. UpTo(out, n)
    BY <2>2, <2>5 DEF UserCounts
  <2>7. Len(out.body) = n
    BY <2>6, UpToLen
  <2>8. CASE resp.flushed
    <3>1. out.early /\ length = out.length
      BY <1>3, <1>6, <2>8
    <3>2. n = length
      BY <1>4, <2>1, <2>5, <3>1, Zenon
    <3>3. out'.length = Len(out'.body)
      BY <1>7, <2>7, <3>1, <3>2 DEF SameOut
    <3> QED BY <2>3, <2>4, <2>8, <3>3 DEF Complete
  <2>9. CASE ~ resp.flushed
    <3>1. out.body = <<>> /\ ~ out.early
      BY <2>2, <2>9 DEF Contents
    <3>2. n = 0
      BY <2>7, <3>1
    <3>3. length = resp.length
      BY <1>3, <3>1, Zenon
    <3>4. length = -1 \/ n = length
      BY <1>4, <2>1, <2>5, Zenon
    <3>5. resp.length \in {-1, 0}
      BY <3>2, <3>3, <3>4
    <3> QED BY <2>3, <2>4, <2>9, <3>5 DEF Complete
  <2> QED BY <2>8, <2>9
<1>9. DOMAIN app' = AppFields
  BY <1>1, HandlerKnows
<1> QED BY <1>1, <1>8, <1>9, HandlerOver

-----------------------------------------------------------------------------
(***************************************************************************)
(* How the steps of the file server keep ResponseInv.                      *)
(***************************************************************************)
\* A return with nothing written, or all of the file.
LEMMA FileServerReturnsResponse ==
  ASSUME HttpInv, ResponseInv, FsAnswer \/ FsReadShort \/ FsDone
  PROVE  ResponseInv'
<1> USE DEF requestVars, clientVars, protocolVars
<1>1. pc = "handler" /\ conf.app = "files" /\ UNCHANGED <<conf, req, app>> /\ pc' = "respond"
  BY DEF FsAnswer, FsReadShort, FsDone, Serving, FsReturn, Return
<1>2. resp' = resp \/ \E status : resp' = [resp EXCEPT !.status = status]
  BY Zenon, ZenonT(40) DEF FsAnswer, FsReadShort, FsDone, FsReturn, Return
<1>3. PICK s : out' = [out EXCEPT !.mishaps = @ \cup s] \/ (out' = out /\ s = {})
  BY Zenon DEF FsAnswer, FsReadShort, FsDone
<1>4. GoodResp(resp) /\ GoodOut(out) /\ (resp.flushed => out.early)
  BY <1>1, HandlerState
<1>5. SameOut(out, out') /\ out'.mishaps = out.mishaps \cup s
  <2>1. CASE out' = [out EXCEPT !.mishaps = @ \cup s]
    BY <1>4, <2>1, MishapNoted
  <2>2. CASE out' = out /\ s = {}
    BY <2>2 DEF SameOut
  <2> QED BY <1>3, <2>1, <2>2
<1>6. ASSUME Clean' PROVE Contents(resp', out', req'.k) /\ Complete(resp', out')
  <2>1. Clean
    BY <1>5, <1>6 DEF Clean
  <2>2. Contents(resp, out, req.k) /\ FileCounts(resp, out, app)
    BY <1>1, <2>1, HandlerKnows
  <2>3. Contents(resp', out, req.k) /\ resp'.flushed = resp.flushed /\ resp'.length = resp.length
    <3>1. CASE resp' = resp
      BY <2>2, <3>1
    <3>2. ASSUME NEW status, resp' = [resp EXCEPT !.status = status]
          PROVE  Contents(resp', out, req.k) /\ resp'.flushed = resp.flushed /\ resp'.length = resp.length
      BY <1>4, <2>2, <3>2, StatusKeepsContents
    <3> QED BY <1>2, <3>1, <3>2
  <2>4. Contents(resp', out', req'.k)
    BY <1>1, <1>5, <2>3, SameContents
  <2>5. CASE ~ resp.flushed
    BY <2>2, <2>3, <2>4, <2>5 DEF Complete, FileCounts
  <2>6. CASE resp.flushed
    <3>1. app.stage # "begin"
      BY <2>2, <2>6 DEF FileCounts
    <3>2. ~ FsAnswer /\ app.stage = "copy"
      BY <3>1 DEF FsAnswer, FsReadShort, FsDone, Serving
    <3>3. ~ FsReadShort
      <4>1. SUFFICES ASSUME FsReadShort PROVE FALSE
        OBVIOUS
      <4>2. out' = [out EXCEPT !.mishaps = @ \cup {"short"}]
        BY <1>4, <2>6, <4>1 DEF FsReadShort
      <4>3. "short" \in out'.mishaps
        BY <1>4, <4>2 DEF GoodOut, OutFields
      <4> QED BY <1>6, <4>3 DEF Clean
    <3>4. app.left = 0
      BY <3>2, <3>3 DEF FsDone
    <3>5. UpTo(out, app.off) /\ app.off = FileSize /\ out.length = FileSize
      BY <2>2, <2>6, <3>2, <3>4, FileServerAssumption DEF FileCounts, UpTo
    <3>6. Len(out.body) = app.off
      BY <3>5, UpToLen
    <3>7. out'.length = Len(out'.body)
      BY <1>5, <3>5, <3>6 DEF SameOut
    <3> QED BY <2>3, <2>4, <2>6, <3>7 DEF Complete
  <2> QED BY <2>5, <2>6
<1>7. DOMAIN app' = AppFields
  BY <1>1, HandlerKnows
<1> QED BY <1>1, <1>6, <1>7, HandlerOver

\* q is r with the declared length l.
LEMMA LengthDeclared ==
  ASSUME NEW r, GoodResp(r), NEW o, NEW k, Contents(r, o, k), NEW l \in Nat, NEW q, q = [r EXCEPT !.clen = l]
  PROVE  Contents(q, o, k) /\ GoodResp(q) /\ q.flushed = r.flushed /\ q.length = r.length /\ q.clen = l
<1>1. /\ q.flushed = r.flushed /\ q.length = r.length /\ q.clen = l /\ q.minor = r.minor /\ q.items = r.items
      /\ GoodResp(q)
  BY DEF GoodResp, RespFields
<1>2. LengthKnown(q)
  BY <1>1 DEF Contents, LengthKnown
<1> QED BY <1>1, <1>2 DEF Contents

LEMMA FsOpenResponse ==
  ASSUME HttpInv, ResponseInv, FsOpen
  PROVE  ResponseInv'
<1> USE DEF requestVars, clientVars
<1>1. pc = "handler" /\ conf.app = "files" /\ app.stage = "begin" /\ UNCHANGED <<conf, req, out>>
  BY DEF FsOpen, Serving
<1>2. PICK r : r = [resp EXCEPT !.clen = FileSize]
  OBVIOUS
<1>3. \/ resp' = r /\ app' = [app EXCEPT !.stage = "copy", !.left = FileSize] /\ pc' = pc
      \/ pc' = "respond" /\ resp' = [r EXCEPT !.status = 500] /\ app' = app
  BY <1>2, Zenon DEF FsOpen, Return
<1>4. GoodResp(resp) /\ DOMAIN app = AppFields
  BY <1>1, HandlerState, HandlerKnows
<1>5. ASSUME Clean'
      PROVE  /\ Contents(r, out, req.k) /\ GoodResp(r) /\ ~ r.flushed /\ r.length = -1 /\ r.clen = FileSize
             /\ app.off = 0 /\ out.body = <<>>
  <2>1. Contents(resp, out, req.k) /\ FileCounts(resp, out, app)
    BY <1>1, <1>5, HandlerKnows DEF Clean
  <2>2. ~ resp.flushed /\ app.off = 0 /\ resp.length = -1
    BY <1>1, <2>1 DEF FileCounts
  <2>3. Contents(r, out, req.k) /\ GoodResp(r) /\ r.flushed = resp.flushed /\ r.length = resp.length
        /\ r.clen = FileSize
    BY <1>2, <1>4, <2>1, FileServerAssumption, LengthDeclared
  <2> QED BY <2>1, <2>2, <2>3 DEF Contents
<1>6. CASE resp' = r /\ app' = [app EXCEPT !.stage = "copy", !.left = FileSize] /\ pc' = pc
  <2>1. DOMAIN app' = AppFields /\ app'.stage = "copy" /\ app'.left = FileSize /\ app'.off = app.off
    BY <1>4, <1>6 DEF AppFields
  <2>2. ASSUME Clean' PROVE Contents(resp', out', req'.k) /\ FileCounts(resp', out', app')
    <3>1. Contents(resp', out', req'.k)
      BY <1>1, <1>5, <1>6, <2>2
    <3>2. out'.body = [j \in 1 .. 0 |-> j]
      BY <1>1, <1>5, <2>2
    <3>3. UpTo(out', app'.off) /\ app'.left + app'.off = FileSize /\ app'.left \in Nat
      BY <1>5, <2>1, <2>2, <3>2, FileServerAssumption DEF UpTo
    <3>4. ~ resp'.flushed /\ resp'.length = -1 /\ resp'.clen = FileSize
      BY <1>5, <1>6, <2>2
    <3> QED BY <2>1, <3>1, <3>3, <3>4 DEF FileCounts
  <2> QED BY <1>1, <1>6, <2>1, <2>2, HandlerGoesOn
<1>7. CASE pc' = "respond" /\ resp' = [r EXCEPT !.status = 500] /\ app' = app
  <2>1. ASSUME Clean' PROVE Contents(resp', out', req'.k) /\ Complete(resp', out')
    <3>1. Contents(r, out, req.k) /\ GoodResp(r) /\ ~ r.flushed /\ r.length = -1
      BY <1>5, <2>1
    <3>2. Contents(resp', out, req.k) /\ resp'.flushed = r.flushed /\ resp'.length = r.length
      BY <1>7, <3>1, StatusKeepsContents
    <3> QED BY <1>1, <3>1, <3>2 DEF Complete
  <2> QED BY <1>4, <1>7, <2>1, HandlerOver
<1> QED BY <1>3, <1>6, <1>7

LEMMA FsCopyResponse ==
  ASSUME HttpInv, ResponseInv, FsCopy
  PROVE  ResponseInv'
<1> USE DEF requestVars, clientVars
<1>1. pc = "handler" /\ conf.app = "files" /\ app.stage = "copy" /\ UNCHANGED <<conf, req>>
  BY DEF FsCopy, Serving
<1>2. PICK toread : toread = Smaller(IoBufSize, app.left)
  OBVIOUS
<1>3. PICK w \in WriteOutcomes(resp, app.off + 1, <<toread>>) :
        /\ out' = [w.out EXCEPT !.mishaps = @ \cup IF w.ret # toread THEN {"short"} ELSE {}]
        /\ IF w.crash THEN resp' = w.resp /\ pc' = "undefined" /\ app' = app
           ELSE IF w.ret < 0 THEN Return(FALSE, w.resp) /\ app' = app
           ELSE /\ resp' = w.resp /\ pc' = pc
                /\ app' = [app EXCEPT !.left = @ - w.ret, !.off = @ + toread]
  BY <1>2, Zenon DEF FsCopy
<1>4. GoodResp(resp) /\ GoodOut(out) /\ DOMAIN app = AppFields
  BY <1>1, HandlerState, HandlerKnows
<1>5. PICK s : s = IF w.ret # toread THEN {"short"} ELSE {}
  OBVIOUS
<1>6. GoodOut(w.out) /\ out.mishaps \subseteq w.out.mishaps
  BY <1>4, WriteFacts DEF Flushed
<1>7. SameOut(w.out, out') /\ out'.mishaps = w.out.mishaps \cup s
  BY <1>3, <1>5, <1>6, MishapNoted
<1>8. CASE w.crash
  <2>1. pc' = "undefined" /\ app' = app
    BY <1>3, <1>8
  <2> QED BY <1>4, <2>1, Elsewhere DEF Handling, Settled, Skipping
<1>9. ASSUME ~ w.crash, Clean'
      PROVE  /\ w.ret = toread /\ toread \in Nat /\ toread <= app.left /\ FileCounts(resp, out, app)
             /\ Advanced(resp, app.off, <<toread>>, req.k, w.resp, w.out, w.ret)
  <2>1. Clean /\ w.out.mishaps \subseteq {"manual"} /\ "short" \notin s
    BY <1>6, <1>7, <1>9 DEF Clean
  <2>2. w.ret = toread
    BY <1>5, <2>1
  <2>3. Contents(resp, out, req.k) /\ FileCounts(resp, out, app)
    BY <1>1, <2>1, HandlerKnows
  <2>4. app.left \in Nat /\ UpTo(out, app.off)
    BY <1>1, <2>3 DEF FileCounts
  <2>5. toread \in Nat /\ toread <= app.left
    BY <1>2, <2>4, FileServerAssumption DEF Smaller
  <2>6. PICK pieces : pieces = <<toread>>
    OBVIOUS
  <2>7. pieces \in Seq(Nat) /\ pieces # <<>>
    BY <2>5, <2>6
  <2>8. LengthKnown(resp)
    BY <2>3 DEF Contents
  <2>9. PICK from : from = app.off + 1
    OBVIOUS
  <2>10. w \in WriteOutcomes(resp, from, pieces)
    BY <2>6, <2>9
  <2>11. WriteOut(resp, from, pieces, w.resp, w.out, w.ret)
    BY <1>4, <1>9, <2>1, <2>7, <2>8, <2>10, CleanWrite
  <2>12. Advanced(resp, app.off, pieces, req.k, w.resp, w.out, w.ret)
    BY <2>3, <2>4, <2>9, <2>11, WriteAdvances
  <2> QED BY <2>2, <2>3, <2>5, <2>6, <2>12
<1>10. CASE ~ w.crash /\ w.ret < 0
  <2>1. pc' = "respond" /\ app' = app
    BY <1>3, <1>10 DEF Return
  <2>2. ~ Clean'
    BY <1>9, <1>10
  <2> QED BY <1>4, <2>1, <2>2, HandlerOver
<1>11. CASE ~ w.crash /\ ~ (w.ret < 0)
  <2>1. resp' = w.resp /\ pc' = pc /\ app' = [app EXCEPT !.left = @ - w.ret, !.off = @ + toread]
    BY <1>3, <1>11
  <2>2. /\ DOMAIN app' = AppFields /\ app'.stage = app.stage
        /\ app'.left = app.left - w.ret /\ app'.off = app.off + toread
    BY <1>4, <2>1 DEF AppFields
  <2>3. ASSUME Clean' PROVE Contents(resp', out', req'.k) /\ FileCounts(resp', out', app')
    <3>1. /\ w.ret = toread /\ toread \in Nat /\ toread <= app.left /\ FileCounts(resp, out, app)
          /\ Advanced(resp, app.off, <<toread>>, req.k, w.resp, w.out, w.ret)
      BY <1>9, <1>11, <2>3
    <3>2. /\ Contents(w.resp, w.out, req.k) /\ w.resp.flushed /\ w.resp.clen = resp.clen
          /\ w.out.length = IF resp.flushed THEN out.length ELSE IF resp.length = -1 THEN resp.clen ELSE resp.length
      BY <3>1, Zenon DEF Advanced
    <3>3. PICK c \in Nat : UpTo(w.out, app.off + c) /\ (c = w.ret \/ w.ret = -1)
      BY <3>1, Zenon DEF Advanced
    <3>4. c = toread
      BY <3>1, <3>3
    <3>5. Contents(resp', out', req'.k)
      BY <1>1, <1>7, <2>1, <3>2, SameContents
    <3>6. UpTo(out', app'.off)
      BY <1>7, <2>2, <3>3, <3>4 DEF SameOut, UpTo
    <3>7. app.left \in Nat /\ app.off \in Nat /\ app.left + app.off = FileSize /\ resp.clen = FileSize
      BY <1>1, <3>1 DEF FileCounts, UpTo
    <3>8. app'.left \in Nat /\ app'.left + app'.off = FileSize
      <4>1. app'.left = app.left - toread
        BY <2>2, <3>1
      <4> QED BY <2>2, <3>1, <3>7, <4>1
    <3>9. w.out.length = FileSize
      BY <1>1, <3>1, <3>2, <3>7 DEF FileCounts
    <3>10. resp'.flushed /\ resp'.clen = FileSize /\ out'.length = FileSize
      BY <1>7, <2>1, <3>2, <3>7, <3>9 DEF SameOut
    <3> QED BY <1>1, <2>2, <3>5, <3>6, <3>8, <3>10 DEF FileCounts
  <2> QED BY <1>1, <2>1, <2>2, <2>3, HandlerGoesOn
<1> QED BY <1>8, <1>10, <1>11

LEMMA TwoEach ==
  ASSUME NEW n \in Nat
  PROVE  [i \in 1 .. n |-> 2] \in Seq(Nat) /\ Len([i \in 1 .. n |-> 2]) = n
<1>1. PICK s : s = [i \in 1 .. n |-> 2]
  OBVIOUS
<1>2. Len(s) = n /\ s \in Seq(Nat)
  BY <1>1
<1> QED BY <1>1, <1>2, Zenon

LEMMA ListingPieces ==
  ASSUME NEW separator, NEW pieces, pieces = [i \in 1 .. Niov(separator) |-> PieceLength]
  PROVE  pieces \in Seq(Nat) /\ pieces # <<>> /\ Len(pieces) # 1
<1>1. PICK n \in Nat : n = Niov(separator) /\ n >= 6
  BY FileServerAssumption DEF Niov
<1>2. pieces = [i \in 1 .. n |-> 2]
  BY <1>1 DEF PieceLength
<1>3. pieces \in Seq(Nat) /\ Len(pieces) = n
  BY <1>2, TwoEach, Zenon
<1>4. Len(<<>>) = 0
  OBVIOUS
<1>5. n # 0 /\ n # 1
  BY <1>1
<1> QED BY <1>3, <1>4, <1>5, Zenon

\* A listing is written whole, with the length it has.
LEMMA FsListingResponse ==
  ASSUME HttpInv, ResponseInv, FsListing
  PROVE  ResponseInv'
<1> USE DEF requestVars, clientVars, protocolVars
<1>1. pc = "handler" /\ conf.app = "files" /\ app.stage = "begin" /\ UNCHANGED <<conf, req, app>>
  BY DEF FsListing, Serving
<1>2. PICK separator \in BOOLEAN :
        LET pieces == [i \in 1 .. Niov(separator) |-> PieceLength]
            r == [resp EXCEPT !.clen = FoldLeft(+, 0, pieces)]
        IN  \E w \in WriteOutcomes(r, 1, pieces) :
              /\ resp' = [w.resp EXCEPT !.status = 200] /\ out' = w.out
              /\ pc' = IF w.crash \/ Len(pieces) # Len(Pieces(separator)) THEN "undefined" ELSE "respond"
  BY ZenonT(40) DEF FsListing
<1>3. PICK pieces, total, r :
        /\ pieces = [i \in 1 .. Niov(separator) |-> PieceLength]
        /\ total = FoldLeft(+, 0, pieces) /\ r = [resp EXCEPT !.clen = total]
  OBVIOUS
<1>4. PICK w \in WriteOutcomes(r, 1, pieces) :
        /\ resp' = [w.resp EXCEPT !.status = 200] /\ out' = w.out
        /\ pc' = IF w.crash \/ Len(pieces) # Len(Pieces(separator)) THEN "undefined" ELSE "respond"
  BY <1>2, <1>3, ZenonT(40)
<1>5. DOMAIN app' = AppFields /\ GoodResp(resp) /\ GoodOut(out)
  BY <1>1, HandlerState, HandlerKnows
<1>6. pieces \in Seq(Nat) /\ pieces # <<>> /\ Len(pieces) # 1
  BY <1>3, ListingPieces
<1>7. total \in Nat
  BY <1>3, <1>6, SumOfNaturals
<1>8. CASE pc' = "undefined"
  BY <1>5, <1>8, Elsewhere DEF Handling, Settled, Skipping
<1>9. CASE pc' = "respond" /\ ~ w.crash
  <2>1. ASSUME Clean' PROVE Contents(resp', out', req'.k) /\ Complete(resp', out')
    <3>1. GoodResp(r)
      BY <1>3, <1>5, LengthSet DEF Amended
    <3>2. Flushed(r, w)
      BY <1>5, <3>1, WriteFacts
    <3>3. GoodResp(w.resp) /\ out.mishaps \subseteq w.out.mishaps
      BY <3>2 DEF Flushed
    <3>4. Clean /\ w.out.mishaps \subseteq {"manual"}
      BY <1>4, <2>1, <3>3 DEF Clean
    <3>5. Contents(resp, out, req.k) /\ FileCounts(resp, out, app)
      BY <1>1, <3>4, HandlerKnows
    <3>6. Contents(r, out, req.k) /\ ~ r.flushed /\ r.length = -1 /\ r.clen = total /\ out.body = <<>>
      <4>1. Contents(r, out, req.k) /\ r.flushed = resp.flushed /\ r.length = resp.length /\ r.clen = total
        <5>1. r = [resp EXCEPT !.clen = total]
          BY <1>3, Zenon
        <5> QED BY <1>5, <1>7, <3>5, <5>1, LengthDeclared
      <4>2. ~ resp.flushed /\ resp.length = -1
        BY <1>1, <3>5 DEF FileCounts
      <4> QED BY <3>5, <4>1, <4>2 DEF Contents
    <3>7. UpTo(out, 0)
      <4>1. out.body = [j \in 1 .. 0 |-> j]
        BY <3>6
      <4> QED BY <4>1 DEF UpTo
    <3>8. LengthKnown(r)
      BY <3>6 DEF Contents
    <3>9. WriteOut(r, 1, pieces, w.resp, w.out, w.ret)
      BY <1>5, <1>6, <1>9, <3>1, <3>4, <3>8, CleanWrite
    <3>10. Advanced(r, 0, pieces, req.k, w.resp, w.out, w.ret)
      <4>1. PICK n, from : n = 0 /\ from = 1 /\ from = n + 1
        OBVIOUS
      <4>2. UpTo(out, n) /\ WriteOut(r, from, pieces, w.resp, w.out, w.ret)
        BY <3>7, <3>9, <4>1
      <4>3. Advanced(r, n, pieces, req.k, w.resp, w.out, w.ret)
        BY <3>6, <4>1, <4>2, WriteAdvances
      <4> QED BY <4>1, <4>3
    <3>11. Contents(w.resp, w.out, req.k) /\ w.resp.flushed /\ w.out.length = total /\ peer # "broken"
      BY <3>6, <3>10, Zenon DEF Advanced
    <3>12. UpTo(w.out, 0 + total)
      BY <1>3, <1>6, <3>10, <3>11, Zenon DEF Advanced
    <3>13. Len(w.out.body) = total
      <4>1. 0 + total = total
        BY <1>7
      <4>2. UpTo(w.out, total)
        BY <3>12, <4>1
      <4> QED BY <4>2, UpToLen
    <3>14. Contents(resp', w.out, req.k) /\ resp'.flushed = w.resp.flushed
      <4>1. PICK v, o, n : v = w.resp /\ o = w.out /\ n = 200
        OBVIOUS
      <4>2. resp' = [v EXCEPT !.status = n] /\ GoodResp(v) /\ Contents(v, o, req.k)
        BY <1>4, <3>3, <3>11, <4>1, Zenon
      <4>3. Contents(resp', o, req.k) /\ resp'.flushed = v.flushed
        BY <4>2, StatusKeepsContents
      <4> QED BY <4>1, <4>3, Zenon
    <3> QED BY <1>1, <1>4, <3>11, <3>13, <3>14 DEF Complete
  <2> QED BY <1>5, <1>9, <2>1, HandlerOver
<1>10. pc' = "undefined" \/ (pc' = "respond" /\ ~ w.crash)
  BY <1>4
<1> QED BY <1>8, <1>9, <1>10

-----------------------------------------------------------------------------
(***************************************************************************)
(* How the loop over the requests keeps ResponseInv.                       *)
(***************************************************************************)
\* A handler starts with nothing on the wire.
LEMMA RunHandlerResponse ==
  ASSUME BodyInv, ResponseInv, RunHandler
  PROVE  ResponseInv'
<1> USE DEF clientVars, requestVars
<1>1. /\ pc' = "handler" /\ UNCHANGED <<conf, req>>
      /\ resp' = NewResponse(Request.minor, keepalive') /\ out' = [NothingOut EXCEPT !.k = req.k]
      /\ app' = [NoApp EXCEPT !.stage = "begin", !.calls = app.calls]
  BY DEF RunHandler
<1>2. Request.minor \in Int
  <2>1. req.k \in 1 .. Len(conf.script) /\ conf \in Setups
    BY BodyInvFacts DEF RunHandler
  <2>2. WellTyped(conf.script[req.k])
    BY <2>1, SetupFacts
  <2> QED BY <2>2 DEF WellTyped, Request
<1>3. LengthKnown(resp') /\ ~ resp'.flushed /\ resp'.length = -1
  BY <1>1, <1>2 DEF NewResponse, LengthKnown, Names
<1>4. out'.k = req'.k /\ out'.body = <<>> /\ ~ out'.early
  BY <1>1 DEF NothingOut
<1>5. /\ DOMAIN app' = AppFields /\ app'.stage = "begin" /\ app'.at = 1 /\ app'.size = 0 /\ app'.off = 0
  BY <1>1 DEF NoApp, AppFields
<1>6. Contents(resp', out', req'.k)
  BY <1>3, <1>4 DEF Contents
<1>7. UserCounts(out', app')
  <2>1. out'.body = [j \in 1 .. 0 |-> j]
    BY <1>4
  <2> QED BY <1>5, <2>1 DEF UserCounts, UpTo
<1>8. FileCounts(resp', out', app')
  BY <1>3, <1>5 DEF FileCounts
<1> QED BY <1>1, <1>5, <1>6, <1>7, <1>8, HandlerGoesOn

LEMMA RequestRefusedResponse ==
  ASSUME ResponseInv, RequestRefused
  PROVE  ResponseInv'
<1>1. pc' = "closed" /\ out' = NothingOut /\ app' = app
  BY DEF RequestRefused
<1>2. out'.head = "none"
  BY <1>1 DEF NothingOut
<1>3. DOMAIN app' = AppFields
  BY <1>1, AppNames DEF ResponseInv, HandlerCounts
<1> QED BY <1>1, <1>2, <1>3, Elsewhere DEF Handling

LEMMA RequestDoneResponse ==
  ASSUME ResponseInv, RequestDone
  PROVE  ResponseInv'
<1> USE DEF clientVars
<1>1. /\ pc = "skip" /\ pc' \in {"headers", "closed"} /\ UNCHANGED <<conf, out>>
      /\ app' = [NoApp EXCEPT !.calls = app.calls]
  BY DEF RequestDone
<1>2. DOMAIN app' = AppFields
  BY <1>1 DEF NoApp, AppFields
<1>3. out'.head # "none" /\ Clean' => Framed'
  BY <1>1 DEF ResponseInv, Settled, Skipping, Clean, Framed
<1> QED BY <1>1, <1>2, <1>3, Elsewhere DEF Handling

\* dfk__http_protocol completes the response.
LEMMA RespondResponse ==
  ASSUME BodyInv, HttpInv, ResponseInv, Respond
  PROVE  ResponseInv'
<1> USE DEF clientVars, requestVars
<1>1. pc = "respond" /\ UNCHANGED <<conf, rd, req, app>>
  BY DEF Respond
<1>2. PICK lost, r :
        /\ r = WithHeaders(Clamped(resp), keepalive', lost)
        /\ \E f \in FlushOutcomes(r) :
             /\ resp' = f.resp
             /\ out' = [f.out EXCEPT !.mishaps = @ \cup IF lost # {} THEN {"nomem"} ELSE {}]
             /\ pc' = IF f.crash THEN "undefined" ELSE "skip"
  BY Zenon DEF Respond
<1>3. PICK f \in FlushOutcomes(r) :
        /\ resp' = f.resp
        /\ out' = [f.out EXCEPT !.mishaps = @ \cup IF lost # {} THEN {"nomem"} ELSE {}]
        /\ pc' = IF f.crash THEN "undefined" ELSE "skip"
  BY <1>2, Zenon
<1>4. GoodResp(resp) /\ GoodOut(out) /\ (resp.flushed => out.early)
  BY <1>1, HandlerState
<1>5. DOMAIN app' = AppFields
  BY <1>1, AppNames DEF ResponseInv, HandlerCounts
<1>6. pc' \in {"undefined", "skip"}
  BY <1>3
<1>7. PICK c, a, h, d :
        /\ c = Clamped(resp) /\ a = (IF keepalive' THEN "Keep-Alive" ELSE "close")
        /\ h = Insert(c, "Connection", a, -1) /\ d = IF "Connection" \in lost THEN c ELSE h
  OBVIOUS
<1>8. r = IF "Content-Length" \in lost THEN d ELSE Insert(d, "Content-Length", "", 0)
  BY <1>2, <1>7, Zenon DEF WithHeaders
<1>9. GoodResp(c) /\ c.flushed = resp.flushed /\ c.items = resp.items /\ c.length = resp.length
      /\ c.clen = resp.clen /\ c.minor = Smaller(resp.minor, Request.minor)
  BY <1>4, <1>7 DEF Clamped, GoodResp, RespFields
<1>10. GoodResp(h) /\ "Connection" \in Names /\ "Content-Length" \in Names
  <2>1. "Connection" \in Names /\ "Content-Length" \in Names
    BY DEF Names
  <2> QED BY <1>7, <1>9, <2>1, InsertFacts
<1>11. GoodResp(r)
  <2>1. GoodResp(d)
    BY <1>7, <1>9, <1>10
  <2>2. GoodResp(Insert(d, "Content-Length", "", 0))
    BY <1>10, <2>1, InsertFacts
  <2> QED BY <1>8, <2>1, <2>2
<1>12. PICK s : s = IF lost # {} THEN {"nomem"} ELSE {}
  OBVIOUS
<1>13. Flushed(r, f)
  BY <1>4, <1>11, FlushFacts
<1>14. GoodOut(f.out) /\ out.mishaps \subseteq f.out.mishaps
  BY <1>13 DEF Flushed
<1>15. SameOut(f.out, out') /\ out'.mishaps = f.out.mishaps \cup s
  BY <1>3, <1>12, <1>14, MishapNoted
<1>16. ASSUME Clean', pc' = "skip" PROVE Framed'
  <2>1. ~ f.crash
    BY <1>3, <1>16
  <2>2. Clean /\ f.out.mishaps \subseteq {"manual"} /\ lost = {}
    BY <1>12, <1>14, <1>15, <1>16 DEF Clean
  <2>3. Contents(resp, out, req.k) /\ Complete(resp, out)
    <3>1. Handling
      BY <1>1 DEF Handling
    <3> QED BY <1>1, <2>2, <3>1, Zenon DEF ResponseInv, ContentInOrder, HandlerCounts, Contents, Complete,
                                            WrittenUpTo, UpTo
  <2>4. /\ Request.minor \in Int /\ Request = conf'.script[req.k]
    <3>1. req.k \in 1 .. Len(conf.script) /\ conf \in Setups
      BY <1>1, BodyInvFacts DEF WithinRequest
    <3>2. WellTyped(conf.script[req.k])
      BY <3>1, SetupFacts
    <3> QED BY <1>1, <3>2 DEF WellTyped, Request
  <2>5. LengthKnown(c) /\ c.minor <= Request.minor
    BY <1>9, <2>3, <2>4 DEF Contents, LengthKnown, Smaller
  <2>6. /\ GoodResp(h) /\ LengthKnown(h) /\ h.flushed = c.flushed /\ h.clen = c.clen /\ h.minor = c.minor
        /\ h.length = c.length
    BY <1>7, <1>9, <1>10, <2>5, OtherAdded
  <2>7. r = Insert(h, "Content-Length", "", 0)
    BY <1>7, <1>8, <2>2
  <2>8. Lengthened(h, r, 0)
    <3>1. PICK l \in Int : l = 0 /\ l # -1
      OBVIOUS
    <3>2. Lengthened(h, Insert(h, "Content-Length", "", l), l)
      BY <2>6, <3>1, LengthAdded
    <3> QED BY <2>7, <3>1, <3>2, Zenon
  <2>9. r.flushed = resp.flushed /\ LengthKnown(r) /\ r.minor = c.minor
        /\ r.length = IF resp.length = -1 THEN 0 ELSE resp.length
    BY <1>9, <2>6, <2>8 DEF Lengthened
  <2>10. IF r.flushed THEN f.resp = r /\ f.out = out ELSE HeadOut(r, f.resp, f.out)
    BY <1>4, <1>11, <2>1, <2>2, <2>9, CleanFlush
  <2>11. CASE resp.flushed
    <3>1. f.out = out /\ out.early /\ out.head = "whole" /\ UpTo(out, Len(out.body)) /\ out.length = Len(out.body)
      BY <1>4, <2>3, <2>9, <2>10, <2>11 DEF Contents, Complete
    <3>2. out'.head = "whole" /\ out'.length = Len(out'.body) /\ out'.early /\ out'.body = out.body
      BY <1>15, <3>1 DEF SameOut
    <3>3. \A j \in DOMAIN out.body : out.body[j] = j
      BY <3>1 DEF UpTo
    <3> QED BY <3>2, <3>3 DEF Framed
  <2>12. CASE ~ resp.flushed
    <3>1. HeadOut(r, f.resp, f.out) /\ out.body = <<>> /\ out.k = req.k /\ resp.length \in {-1, 0}
      BY <2>3, <2>9, <2>10, <2>12 DEF Contents, Complete
    <3>2. r.length = 0
      BY <2>9, <3>1
    <3>3. f.out.head = "whole" /\ f.out.body = <<>> /\ f.out.k = req.k /\ f.out.minor = c.minor /\ f.out.length = 0
      BY <2>9, <3>1, <3>2 DEF HeadOut
    <3>4. out'.head = "whole" /\ out'.body = <<>> /\ out'.k = req.k /\ out'.minor = c.minor /\ out'.length = 0
      BY <1>15, <3>3 DEF SameOut
    <3>5. out'.length = Len(out'.body) /\ \A j \in DOMAIN out'.body : out'.body[j] = j
      BY <3>4
    <3>6. out'.minor <= conf'.script[out'.k].minor
      BY <2>4, <2>5, <3>4
    <3> QED BY <3>4, <3>5, <3>6 DEF Framed
  <2> QED BY <2>11, <2>12
<1>17. ~ Handling' /\ pc' # "respond" /\ (Settled' => pc' = "skip")
  BY <1>6 DEF Handling, Settled, Skipping
<1> QED BY <1>5, <1>16, <1>17, Elsewhere

-----------------------------------------------------------------------------
(***************************************************************************)
(* The theorems about the content of a response.                           *)
(***************************************************************************)
\* read_headers, and the reads of a body, leave the response alone.
LEMMA HeadersResponse ==
  ASSUME ResponseInv, HeadersStep, UNCHANGED <<responseVars, protocolVars>>
  PROVE  ResponseInv'
<1>1. pc = "headers" /\ conf' = conf /\ pc' \in {"headers", "returned", "aborted", "undefined"}
  BY HeadersMove
<1>2. UNCHANGED <<resp, out, app>>
  BY DEF responseVars, protocolVars
<1>3. DOMAIN app' = AppFields
  BY <1>2, AppNames DEF ResponseInv, HandlerCounts
<1> QED BY <1>1, <1>2, <1>3, QuietResponse DEF Handling, Settled, Skipping

LEMMA ReadResponse ==
  ASSUME BodyInv, ResponseInv, ReadStep, UNCHANGED <<responseVars, protocolVars>>
  PROVE  ResponseInv'
<1> USE DEF requestVars, clientVars
<1>1. DOMAIN rd = DOMAIN Idle /\ DOMAIN req = RequestFields
  BY BodyInvFacts, FieldNames
<1>2. /\ pc = "read" /\ conf' = conf /\ pc' \in {"read", "spinning", "aborted", "undefined"}
      /\ rd'.caller = rd.caller
  BY <1>1, ReadMove
<1>3. req'.k = req.k
  <2>1. CASE ReadRemainder \/ ReadSocket
    <3>1. PICK p, m, fromRem : Execute(p, m, fromRem)
      BY <2>1, Zenon DEF ReadRemainder, ReadSocket
    <3>2. PICK rem, nread, taken, complete :
            req' = [req EXCEPT !.rem = rem, !.nread = nread, !.taken = taken, !.complete = complete]
      BY <3>1, Zenon DEF Execute
    <3> QED BY <1>1, <3>2 DEF RequestFields
  <2>2. CASE ReadBeyond \/ ReadEof \/ ReadNothing \/ ReadFails
    BY <2>2 DEF ReadBeyond, ReadEof, ReadNothing, ReadFails
  <2> QED BY <2>1, <2>2 DEF ReadStep
<1>4. UNCHANGED <<resp, out, app>>
  BY DEF responseVars, protocolVars
<1>5. DOMAIN app' = AppFields
  BY <1>4, AppNames DEF ResponseInv, HandlerCounts
<1> QED BY <1>2, <1>3, <1>4, <1>5, QuietResponse DEF Handling, Settled, Skipping

LEMMA CallsResponse ==
  ASSUME BodyInv, ResponseInv, HandlerReads \/ HandlerReadDone \/ SkipRead \/ SkipReadDone
  PROVE  ResponseInv'
<1> USE DEF clientVars, responseVars, protocolVars
<1>1. UNCHANGED <<conf, resp, out, req>>
  BY DEF HandlerReads, HandlerReadDone, SkipRead, SkipReadDone
<1>2. DOMAIN app = AppFields
  BY AppNames DEF ResponseInv, HandlerCounts
<1>3. CASE HandlerReads
  <2>1. PICK n : ReadCall(n, "handler")
    BY <1>3, Zenon DEF HandlerReads
  <2>2. rd'.caller = "handler" /\ pc' = "read"
    BY <2>1 DEF ReadCall
  <2>3. pc = "handler" /\ app' = [app EXCEPT !.calls = @ + 1]
    BY <1>3 DEF HandlerReads, Calls, InHandler
  <2>4. /\ DOMAIN app' = AppFields /\ app'.at = app.at /\ app'.size = app.size /\ app'.stage = app.stage
        /\ app'.left = app.left /\ app'.off = app.off
    BY <1>2, <2>3 DEF AppFields
  <2> QED BY <1>1, <2>2, <2>3, <2>4, QuietResponse DEF Handling, Settled, Skipping
<1>4. CASE HandlerReadDone
  <2>1. pc = "read" /\ rd.caller = "handler" /\ pc' = "handler" /\ app' = app
    BY <1>4 DEF HandlerReadDone, ReadReturns
  <2> QED BY <1>1, <1>2, <2>1, QuietResponse DEF Handling, Settled, Skipping
<1>5. CASE SkipRead
  <2>1. PICK n : ReadCall(n, "skip")
    BY <1>5, Zenon DEF SkipRead
  <2>2. rd'.caller = "skip" /\ pc' = "read"
    BY <2>1 DEF ReadCall
  <2>3. pc = "skip" /\ app' = app
    BY <1>5 DEF SkipRead
  <2> QED BY <1>1, <1>2, <2>2, <2>3, QuietResponse DEF Handling, Settled, Skipping
<1>6. CASE SkipReadDone
  <2>1. pc = "read" /\ rd.caller = "skip" /\ pc' = "skip" /\ app' = app
    BY <1>6 DEF SkipReadDone, ReadReturns
  <2> QED BY <1>1, <1>2, <2>1, QuietResponse DEF Handling, Settled, Skipping
<1> QED BY <1>3, <1>4, <1>5, <1>6

LEMMA ResponseInitial == Init => ResponseInv
<1> SUFFICES ASSUME Init PROVE ResponseInv
  OBVIOUS
<1>1. pc = "headers" /\ app = NoApp /\ out = NothingOut
  BY DEF Init
<1>2. ~ Handling /\ pc # "respond" /\ out.head = "none"
  BY <1>1 DEF Handling, NothingOut
<1>3. ContentInOrder
  BY <1>2, Zenon DEF ContentInOrder
<1>4. HandlerCounts
  BY <1>1, <1>2, Zenon DEF HandlerCounts
<1> QED BY <1>2, <1>3, <1>4 DEF ResponseInv

LEMMA ResponseStep == BodyInv /\ HttpInv /\ ResponseInv /\ [Next]_vars => ResponseInv'
<1> SUFFICES ASSUME BodyInv, HttpInv, ResponseInv, [Next]_vars PROVE ResponseInv'
  OBVIOUS
<1>1. CASE HeadersStep /\ UNCHANGED <<responseVars, protocolVars>>
  BY <1>1, HeadersResponse
<1>2. CASE ReadStep /\ UNCHANGED <<responseVars, protocolVars>>
  BY <1>2, ReadResponse
<1>3. CASE RequestRefused \/ RunHandler \/ RequestDone
  BY <1>3, RequestRefusedResponse, RunHandlerResponse, RequestDoneResponse
<1>4. CASE HandlerBegins \/ HandlerSets \/ HandlerWrites \/ HandlerReturns
  BY <1>4, HandlerBeginsResponse, HandlerSetsResponse, HandlerWritesResponse, HandlerReturnsResponse
<1>5. CASE HandlerReads \/ HandlerReadDone \/ SkipRead \/ SkipReadDone
  BY <1>5, CallsResponse
<1>6. CASE Respond
  BY <1>6, RespondResponse
<1>7. CASE FileServerStep
  BY <1>7, FileServerReturnsResponse, FsListingResponse, FsOpenResponse, FsCopyResponse DEF FileServerStep
<1>8. CASE ClientSends \/ ClientLeaves \/ UNCHANGED vars
  <2>1. UNCHANGED <<conf, resp, out, app, req, pc, rd>>
    BY <1>8 DEF ClientSends, ClientLeaves, vars, clientVars, requestVars, responseVars, protocolVars
  <2>2. DOMAIN app' = AppFields
    BY <2>1, AppNames DEF ResponseInv, HandlerCounts
  <2> QED BY <2>1, <2>2, QuietResponse DEF Handling, Settled, Skipping
<1> QED BY <1>1, <1>2, <1>3, <1>4, <1>5, <1>6, <1>7, <1>8, Zenon DEF Next, Server, Connection

\* As long as nothing has gone wrong, the content on the wire is the beginning of what
\* the handler has to say, and the length in the response's map the one it declared.
THEOREM ResponseInvariant == Spec => []ResponseInv
BY BodyInvariant, HttpInvariance, ResponseInitial, ResponseStep, PTL DEF Spec

\* dfk_http_response_write, writev and dfk__http_protocol: a response on a connection
\* that is kept has all its headers, a Content-Length that is the length of what was
\* written, and the content in order; for both handlers, every file, directory and
\* buffer size, and whatever the client does.
THEOREM FramingSafety == Spec => []ResponseFramed
<1>1. ResponseInv => ResponseFramed
  BY DEF ResponseInv, ResponseFramed, Responded, Settled, Clean
<1> QED BY <1>1, ResponseInvariant, PTL
=============================================================================
