---------------------------- MODULE HttpProtocol ----------------------------
(***************************************************************************)
(* A connection (http/protocol.c): the loop over its requests, with a      *)
(* client that sends, closes or breaks the connection at any time, and a   *)
(* handler that is user code and may make any call.                        *)
(***************************************************************************)
EXTENDS HttpResponse

CONSTANTS
  Setups,      \* values of conf
  SkipBuffer   \* sizeof(buf) of the loop that skips the body, in cells

ASSUME HttpProtocolAssumption ==
  /\ SkipBuffer \in Nat \ {0}
  /\ \A c \in Setups :
       /\ c.limit \in Int /\ c.faults \in Nat
       /\ Len(c.script) \in Nat /\ DOMAIN c.script = 1 .. Len(c.script)
       /\ \A k \in DOMAIN c.script : WellTyped(c.script[k])

VARIABLES
  keepalive,   \* the local of dfk__http_protocol
  nrequests,   \* requests processed within this connection
  app          \* the locals of the handler

protocolVars == <<keepalive, nrequests, app>>
vars == <<clientVars, faults, pc, requestVars, responseVars, protocolVars>>

\* A handler that has not been called.
NoApp == [stage |-> "none", size |-> 0, calls |-> 0, at |-> 1, left |-> 0, off |-> 0]

Init ==
  /\ conf \in Setups
  /\ faults = conf.faults
  /\ stream = Stream(conf.script) /\ sent = 0 /\ peer = "open"
  /\ pc = "headers" /\ got = 0 /\ req = NewRequest /\ rd = Idle
  /\ resp = NewResponse(1, TRUE) /\ out = NothingOut
  /\ keepalive = TRUE /\ nrequests = 0 /\ app = NoApp

-----------------------------------------------------------------------------
(***************************************************************************)
(* The client.  conf.whole: the headers of a request arrive in one piece.  *)
(* conf.pipelined: it sends a request before it has the response to the    *)
(* one before.  conf.leaves: how it may end the connection.                *)
(***************************************************************************)
InHead(p) == stream[p].kind \in {"url", "name", "value", "lf"}

NextSent ==
  IF conf.whole /\ InHead(sent + 1)
  THEN CHOOSE p \in sent + 1 .. Len(stream) :
         stream[p].kind = "lf" /\ \A q \in sent + 1 .. p - 1 : stream[q].kind # "lf"
  ELSE sent + 1

\* The response to request k has been sent.
Answered(k) == nrequests >= k \/ (req.k = k /\ (pc = "skip" \/ rd.caller = "skip"))

ClientSends ==
  /\ peer = "open" /\ sent < Len(stream)
  /\ conf.pipelined \/ Answered(stream[sent + 1].req - 1)
  /\ sent' = NextSent
  /\ UNCHANGED <<conf, stream, peer, faults, pc, requestVars, responseVars, protocolVars>>

ClientLeaves ==
  /\ peer = "open" /\ peer' \in conf.leaves
  /\ UNCHANGED <<conf, stream, sent, faults, pc, requestVars, responseVars, protocolVars>>

-----------------------------------------------------------------------------
(***************************************************************************)
(* dfk__http_protocol up to the call of the handler.                       *)
(***************************************************************************)
Request == conf.script[req.k]

\* Mutant: the loop goes on after an error.
RequestRefusedGoesOn ==
  /\ pc = "returned" /\ req.err # "ok"
  /\ pc' = "headers" /\ req' = NewRequest
  /\ UNCHANGED <<clientVars, faults, got, rd, responseVars, protocolVars>>

\* read_headers failed: cleanup, and the connection is closed without an answer.
RequestRefused ==
  /\ pc = "returned" /\ req.err # "ok"
  /\ keepalive' = FALSE /\ pc' = "closed" /\ out' = NothingOut
  /\ UNCHANGED <<clientVars, faults, requestVars, resp, nrequests, app>>

\* Whether the client wants the connection kept.  A Connection header that is
\* neither "close" nor "Keep-Alive", or differs in case, changes nothing.
ClientKeeps ==
  CASE req.conn = "close"      -> FALSE
    [] req.conn = "Keep-Alive" -> TRUE
    [] req.conn = "other"      -> keepalive
    [] req.conn = "none"       -> Request.minor # 0

RunHandler ==
  /\ pc = "returned" /\ req.err = "ok"
  /\ keepalive' = ClientKeeps
  /\ resp' = NewResponse(Request.minor, keepalive') /\ out' = [NothingOut EXCEPT !.k = req.k]
  /\ app' = [NoApp EXCEPT !.stage = "begin", !.calls = app.calls]
  /\ pc' = "handler"
  /\ UNCHANGED <<clientVars, faults, requestVars, nrequests>>

-----------------------------------------------------------------------------
(***************************************************************************)
(* A handler in user code.  It decides on the size of its content and, in  *)
(* the fields of the response, on length and keepalive (the version it     *)
(* sets is 1.1), and then makes calls, up to conf.calls on a connection.   *)
(* What it hands to a setter that does not copy stays valid until the      *)
(* headers are flushed, and it goes on behind what a write reports         *)
(* written.                                                                *)
(***************************************************************************)
InHandler(stage) == pc = "handler" /\ conf.app = "user" /\ app.stage = stage

Calls == InHandler("run") /\ app.calls < conf.calls

HandlerBegins ==
  /\ InHandler("begin")
  /\ \E size \in {0, 2}, declared \in BOOLEAN, keeps \in BOOLEAN :
       /\ app' = [app EXCEPT !.stage = "run", !.size = size]
       /\ resp' = [resp EXCEPT !.clen = IF declared THEN size ELSE -1,
                               !.keepalive = @ /\ keeps, !.minor = 1]
  /\ UNCHANGED <<clientVars, faults, pc, requestVars, out, keepalive, nrequests>>

HandlerReads ==
  /\ Calls
  /\ \E n \in 1 .. 2 : ReadCall(n, "handler")
  /\ app' = [app EXCEPT !.calls = @ + 1]
  /\ UNCHANGED <<clientVars, faults, got, req, responseVars, keepalive, nrequests>>

HandlerReadDone ==
  /\ ReadReturns("handler")
  /\ pc' = "handler" /\ rd' = Idle
  /\ UNCHANGED <<clientVars, faults, got, req, responseVars, protocolVars>>

\* One of the setters; without memory it would leave the response as it is.
HandlerSets ==
  /\ Calls
  /\ \E name \in Names :
       /\ resp' = Insert(resp, name, "Keep-Alive", app.size)
       /\ out' = [out EXCEPT !.mishaps = @ \cup IF name = "Connection" THEN {"manual"} ELSE {}]
  /\ app' = [app EXCEPT !.calls = @ + 1]
  /\ UNCHANGED <<clientVars, faults, pc, requestVars, keepalive, nrequests>>

\* Response, output and faults after a write with outcome w.
Written(w) ==
  /\ resp' = w.resp /\ out' = w.out
  /\ faults' = faults - w.cost
  /\ pc' = IF w.crash THEN "undefined" ELSE pc

HandlerWrites ==
  /\ Calls
  /\ \E pieces \in {<<1>>, <<2>>, <<1, 1>>, <<2, 2>>} :
       /\ app.at + FoldLeft(+, 0, pieces) - 1 <= app.size
       /\ \E w \in WriteOutcomes(resp, app.at, pieces) :
            /\ Written(w)
            /\ app' = [app EXCEPT !.calls = @ + 1, !.at = IF w.ret > 0 THEN @ + w.ret ELSE @]
  /\ UNCHANGED <<clientVars, requestVars, keepalive, nrequests>>

\* The handler returned: status 500 unless it returned dfk_err_ok.
Return(ok, r) ==
  /\ pc' = "respond"
  /\ resp' = IF ok THEN r ELSE [r EXCEPT !.status = 500]

HandlerReturns ==
  /\ InHandler("run")
  /\ \E ok \in BOOLEAN : Return(ok, resp)
  /\ LET length == IF out.early THEN out.length ELSE resp.length IN
     out' = [out EXCEPT !.mishaps = @ \cup IF (out.early \/ length # -1) /\ app.at - 1 # length
                                           THEN {"incomplete"} ELSE {}]
  /\ UNCHANGED <<clientVars, faults, requestVars, protocolVars>>

-----------------------------------------------------------------------------
(***************************************************************************)
(* dfk__http_protocol after the handler.                                   *)
(***************************************************************************)
\* Mutant: the request in progress is not counted.
LimitReachedLate(n) == conf.limit >= 0 /\ n >= conf.limit

LimitReached(n) == conf.limit >= 0 /\ n + 1 >= conf.limit

\* The version is not higher than the client's.
Clamped(r) == [r EXCEPT !.minor = Smaller(@, Request.minor)]

\* The headers of the protocol, but those there is no memory for: that a call of
\* dfk_http_response_set fails is ignored.
WithHeaders(r, ka, lost) ==
  LET c == IF "Connection" \in lost THEN r
           ELSE Insert(r, "Connection", IF ka THEN "Keep-Alive" ELSE "close", -1)
  IN  IF "Content-Length" \in lost THEN c ELSE Insert(c, "Content-Length", "", 0)

\* Everything between the return of the handler and the skipping of the body.
Respond ==
  /\ pc = "respond"
  /\ keepalive' = (keepalive /\ resp.keepalive /\ ~ LimitReached(nrequests))
  /\ \E lost \in SUBSET {"Connection", "Content-Length"} :
       LET r == WithHeaders(Clamped(resp), keepalive', lost) IN
       \E f \in FlushOutcomes(r) :
         /\ f.cost + Cardinality(lost) <= faults
         /\ resp' = f.resp
         /\ out' = [f.out EXCEPT !.mishaps = @ \cup IF lost # {} THEN {"nomem"} ELSE {}]
         /\ faults' = faults - f.cost - Cardinality(lost)
         /\ pc' = IF f.crash THEN "undefined" ELSE "skip"
  /\ UNCHANGED <<clientVars, requestVars, nrequests, app>>

\* Mutant: a body that the handler began to read is not skipped.
MustSkipUnread == req.clen > 0 /\ req.nread = 0

MustSkip == req.clen > 0 /\ req.nread < req.clen

\* One call of dfk_http_request_read; the bytes that remain are content_length
\* minus what has been read.  The call does not return a negative number here.
SkipRead ==
  /\ pc = "skip" /\ MustSkip
  /\ ReadCall(Smaller(req.clen - req.nread, SkipBuffer), "skip")
  /\ UNCHANGED <<clientVars, faults, got, req, responseVars, protocolVars>>

SkipReadDone ==
  /\ ReadReturns("skip")
  /\ pc' = "skip" /\ rd' = Idle
  /\ UNCHANGED <<clientVars, faults, got, req, responseVars, protocolVars>>

\* The request is done: ++nrequests, cleanup, and the next one or close.
RequestDone ==
  /\ pc = "skip" /\ ~ MustSkip
  /\ nrequests' = nrequests + 1
  /\ pc' = IF keepalive THEN "headers" ELSE "closed"
  /\ req' = IF keepalive THEN NewRequest ELSE req
  /\ resp' = NewResponse(1, TRUE) /\ app' = [NoApp EXCEPT !.calls = app.calls]
  /\ UNCHANGED <<clientVars, faults, got, rd, out, keepalive>>

Connection ==
  \/ HeadersStep /\ UNCHANGED <<responseVars, protocolVars>>
  \/ ReadStep /\ UNCHANGED <<responseVars, protocolVars>>
  \/ RequestRefused \/ RunHandler
  \/ HandlerBegins \/ HandlerReads \/ HandlerReadDone \/ HandlerSets \/ HandlerWrites
  \/ HandlerReturns
  \/ Respond \/ SkipRead \/ SkipReadDone \/ RequestDone
=============================================================================
