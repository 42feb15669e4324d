----------------------------- MODULE FileServer -----------------------------
(***************************************************************************)
(* The file server (middleware/fileserver.c) as the handler of a           *)
(* connection, and the properties of connections with either handler.      *)
(*                                                                         *)
(* What a path refers to is part of the request: a "file" or a             *)
(* "directory", something "missing", or something stat cannot examine      *)
(* ("denied").  Between stat and fread a file may shrink.                  *)
(***************************************************************************)
EXTENDS HttpProtocol

CONSTANTS
  FileSize,    \* cells in a file
  IoBufSize,   \* fs->io_buf_size, in cells
  Entries      \* entries of a directory that are not ignored

ASSUME FileServerAssumption ==
  FileSize \in Nat /\ IoBufSize \in Nat \ {0} /\ Entries \in Nat

Serving(stage) == pc = "handler" /\ conf.app = "files" /\ app.stage = stage

\* The handler sets the status and returns dfk_err_ok.
FsReturn(status) == Return(TRUE, [resp EXCEPT !.status = status])

\* An answer that needs no file: the method, a stat that fails, or a directory that
\* is not listed; out of memory for the path, or a directory that cannot be read.
FsAnswer ==
  /\ Serving("begin")
  /\ \/ Request.method # "GET" /\ FsReturn(405) /\ UNCHANGED faults
     \/ Request.method = "GET" /\ faults > 0 /\ FsReturn(500) /\ faults' = faults - 1
     \/ /\ Request.method = "GET"
        /\ \/ Request.target = "missing" /\ FsReturn(404)
           \/ Request.target = "denied" /\ FsReturn(500)
           \/ Request.target = "directory" /\ ~ conf.autoindex /\ FsReturn(404)
        /\ UNCHANGED faults
  /\ UNCHANGED <<clientVars, requestVars, out, protocolVars>>

(***************************************************************************)
(* The listing of a directory, in pieces of PieceLength cells.             *)
(***************************************************************************)
\* The pieces that are filled in: the page up to the list, each entry, the end.
Pieces(separator) ==
  LET entry == <<"li", "path">> \o (IF separator THEN <<"/">> ELSE <<>>) \o <<"name", "gt", "name", "end">>
  IN  <<"h1", "path", "h2", "path", "h3">> \o FlattenSeq([i \in 1 .. Entries |-> entry]) \o <<"footer">>

PieceLength == 2

\* niov, the pieces that are counted and written.
Niov(separator) == 6 + 6 * Entries + IF separator THEN Entries ELSE 0

\* niov pieces are added up and written; that these are the ones filled in is not
\* checked.
FsListing ==
  /\ Serving("begin") /\ Request.method = "GET" /\ Request.target = "directory" /\ conf.autoindex
  /\ \E separator \in BOOLEAN :
       LET pieces == [i \in 1 .. Niov(separator) |-> PieceLength]
           r == [resp EXCEPT !.clen = FoldLeft(+, 0, pieces)]
       IN  \E w \in WriteOutcomes(r, 1, pieces) :
             /\ resp' = [w.resp EXCEPT !.status = 200] /\ out' = w.out
             /\ faults' = faults - w.cost
             /\ pc' = IF w.crash \/ Len(pieces) # Len(Pieces(separator)) THEN "undefined" ELSE "respond"
  /\ UNCHANGED <<clientVars, requestVars, protocolVars>>

(***************************************************************************)
(* A file.                                                                 *)
(***************************************************************************)
\* stat, then fopen and malloc, either of which may fail: the declared length stays.
FsOpen ==
  /\ Serving("begin") /\ Request.method = "GET" /\ Request.target = "file"
  /\ LET r == [resp EXCEPT !.clen = FileSize] IN
     \/ /\ resp' = r
        /\ app' = [app EXCEPT !.stage = "copy", !.left = FileSize]
        /\ UNCHANGED <<pc, faults>>
     \/ /\ faults > 0 /\ faults' = faults - 1
        /\ Return(TRUE, [r EXCEPT !.status = 500])
        /\ UNCHANGED app
  /\ UNCHANGED <<clientVars, requestVars, out, keepalive, nrequests>>

\* One round of the loop: read a buffer, write it.  After a short write the loop
\* goes on with the next buffer all the same.
FsCopy ==
  /\ Serving("copy") /\ app.left > 0
  /\ LET toread == Smaller(IoBufSize, app.left) IN
     /\ app.off + toread <= FileSize
     /\ \E w \in WriteOutcomes(resp, app.off + 1, <<toread>>) :
          /\ out' = [w.out EXCEPT !.mishaps = @ \cup IF w.ret # toread THEN {"short"} ELSE {}]
          /\ faults' = faults - w.cost
          /\ IF w.crash THEN resp' = w.resp /\ pc' = "undefined" /\ UNCHANGED app
             ELSE IF w.ret < 0 THEN Return(FALSE, w.resp) /\ UNCHANGED app
             ELSE /\ resp' = w.resp /\ UNCHANGED pc
                  /\ app' = [app EXCEPT !.left = @ - w.ret, !.off = @ + toread]
  /\ UNCHANGED <<clientVars, requestVars, keepalive, nrequests>>

\* fread returns less: the file shrank, or what a short write skipped is missing.
FsReadShort ==
  /\ Serving("copy") /\ app.left > 0
  /\ LET short == app.off + Smaller(IoBufSize, app.left) > FileSize IN
     /\ short \/ faults > 0
     /\ faults' = IF short THEN faults ELSE faults - 1
  /\ Return(FALSE, resp)
  /\ out' = [out EXCEPT !.mishaps = @ \cup IF out.early THEN {"short"} ELSE {}]
  /\ UNCHANGED <<clientVars, requestVars, protocolVars>>

FsDone ==
  /\ Serving("copy") /\ app.left = 0
  /\ Return(TRUE, resp)
  /\ UNCHANGED <<clientVars, faults, requestVars, out, protocolVars>>

FileServerStep == FsAnswer \/ FsListing \/ FsOpen \/ FsCopy \/ FsReadShort \/ FsDone

-----------------------------------------------------------------------------
Server == Connection \/ FileServerStep

Next == Server \/ ClientSends \/ ClientLeaves

Spec == Init /\ [][Next]_vars

\* The connection's fiber runs as long as it can, which includes that the handler
\* makes a bounded number of calls.
FairSpec == Spec /\ WF_vars(Server)

-----------------------------------------------------------------------------
(***************************************************************************)
(* Properties.                                                             *)
(***************************************************************************)
\* A request that read_headers and the skipping of the body can get right: every
\* header fits, the length of the body is known and understood.
Sound(r) ==
  /\ r.url <= HeaderMax /\ \A i \in DOMAIN r.fields : r.fields[i][1] <= HeaderMax /\ r.fields[i][2] <= HeaderMax
  /\ r.url + FoldLeft(+, 0, [i \in DOMAIN r.fields |-> r.fields[i][1] + r.fields[i][2]]) < HeadersBufferSize
  /\ ~ r.chunked /\ ~ r.padded
  /\ r.query # <<>> => ParseQuery(r.query).err = "ok"

\* The next request is read from its first byte on, whatever the handler read of
\* the body before it and however the body arrived (the skipping of the body in
\* dfk__http_protocol), unless the client does not wait for the response, a body
\* was chunked, or its length was not understood or lost for want of memory.
RequestBoundary ==
  pc = "headers" /\ got = req.base /\ got < Len(stream) /\ ~ conf.pipelined
    /\ faults = conf.faults /\ (\A k \in 1 .. nrequests : Sound(conf.script[k]))
  => stream[got + 1].n = 1 /\ stream[got + 1].req = nrequests + 1

\* What dfk_http_request_read returned are the bytes of this request's body, from
\* the first on, without a gap and none twice, no matter how many of them came
\* with the headers and how many from the socket.
BodyInOrder ==
  \A i \in DOMAIN req.taken :
    LET cell == Cells(conf.script, req.k)[req.taken[i]] IN
    /\ cell.kind = "body"
    /\ i = 1 => Cells(conf.script, req.k)[req.taken[i] - 1].kind # "body"
    /\ i > 1 => req.taken[i] = req.taken[i - 1] + 1

\* The request in progress or the last one is done, and this is its response.
Responded == nrequests > 0 /\ out.head # "none" /\ (pc = "closed" \/ (pc = "headers" /\ got = req.base))

\* The response is whole, and its Content-Length the length of what was written.
Framed ==
  /\ out.head = "whole" /\ out.length = Len(out.body)
  /\ \A j \in DOMAIN out.body : out.body[j] = j
  /\ out.early \/ out.minor <= conf.script[out.k].minor

\* A response on a connection that is kept has all its headers, the Content-Length
\* that tells where it ends, the content in order and no version the client does
\* not know, unless a write was short, memory or the file failed, or the handler
\* wrote something else than it declared.
ResponseFramed ==
  Responded /\ keepalive /\ out.mishaps \ {"manual"} = {} => Framed

\* The server processes at most keepalive_requests requests (but one), and a response
\* whose headers were left to dfk__http_protocol tells the client truly whether the
\* connection is kept.
ClosedAsAnnounced ==
  /\ conf.limit >= 0 => nrequests <= conf.limit \/ nrequests <= 1
  /\ Responded /\ out.head = "whole" /\ ~ out.early /\ out.mishaps \cap {"manual", "nomem"} = {}
       => out.conn = IF keepalive THEN "Keep-Alive" ELSE "close"

\* The handler is at work, or its response is about to be completed.
Handling == pc \in {"handler", "respond"} \/ (pc = "read" /\ rd.caller = "handler")

\* What the handler left of the body is being skipped.
Skipping == pc = "skip" \/ (pc = "read" /\ rd.caller = "skip")

(***************************************************************************)
(* The inductive invariant behind BodyInOrder: what has been parsed of the *)
(* request in progress ends at ParsedTo.                                   *)
(***************************************************************************)
\* Request k: its last cell, the '\n' that ends its headers, and its body.
End(k) == IF k = 0 THEN 0 ELSE MessageEnd(k)
Lf(k) == CHOOSE p \in DOMAIN stream : stream[p].req = k /\ stream[p].kind = "lf"
BodyFrom(k) == Lf(k) + IF conf.script[k].chunked THEN 2 ELSE 1
BodyTo(k) == End(k) - IF conf.script[k].chunked THEN 1 ELSE 0

Larger(a, b) == IF a < b THEN b ELSE a

\* http_parser has consumed the cells up to this one.
ParsedTo == got - req.rem

RequestShape ==
  /\ conf \in Setups /\ stream = Stream(conf.script)
  /\ sent \in Nat /\ got \in Nat /\ got <= sent /\ sent <= Len(stream)
  /\ DOMAIN req = DOMAIN NewRequest /\ DOMAIN rd = DOMAIN Idle
  /\ req.base \in Nat /\ req.base <= got /\ req.rem \in Nat /\ req.rem <= got
  /\ req.clen \in Int /\ req.cur \in Int /\ rd.left \in Int /\ rd.out \in Nat

\* Nothing is read of a body before the headers are complete.
NoBodyYet ==
  /\ pc = "headers" => req.k = 0
  /\ req.k = 0 => /\ req.taken = <<>> /\ req.nread = 0 /\ ~ req.complete
                  /\ req.err # "ok" /\ pc \notin {"handler", "read", "respond", "skip"}

\* How much of the body of request k the cells up to position p hold.
BodyUpTo(k, p) == Larger(0, Smaller(p, BodyTo(k)) - BodyFrom(k) + 1)

BodyTaken ==
  req.k # 0 =>
    /\ req.k \in DOMAIN conf.script
    /\ req.taken \in Seq(Int) /\ req.nread = Len(req.taken)
    /\ \A i \in DOMAIN req.taken : req.taken[i] = BodyFrom(req.k) - End(req.k - 1) + i - 1
    /\ Len(req.taken) <= BodyTo(req.k) - BodyFrom(req.k) + 1
    /\ ~ req.complete => /\ Lf(req.k) <= ParsedTo + 1 /\ ParsedTo < End(req.k)
                         /\ Len(req.taken) = BodyUpTo(req.k, ParsedTo)

BodyInv == RequestShape /\ NoBodyYet /\ BodyTaken

(***************************************************************************)
(* The inductive invariant behind RequestBoundary.                         *)
(***************************************************************************)
\* The case in which the loop of dfk__http_protocol is to keep the boundaries.
Undisturbed ==
  ~ conf.pipelined /\ faults = conf.faults /\ \A k \in 1 .. nrequests : Sound(conf.script[k])

\* The connection is not closed, and nothing has gone wrong for good.
Live == pc \in {"headers", "returned", "handler", "read", "respond", "skip"}

\* The socket is read by the handler or to skip the body, and by nobody else.
OneReader ==
  /\ pc = "read" => rd.caller \in {"handler", "skip"}
  /\ Live /\ pc # "read" => rd.caller = "none"
  /\ nrequests \in Nat /\ faults \in Int /\ faults <= conf.faults

\* A client that waits for the response has sent no more than the request in
\* progress, and a part of the next one once the response is sent.
ClientWaits ==
  Undisturbed /\ Live =>
    /\ nrequests < Len(conf.script) /\ ~ Skipping => sent <= End(nrequests + 1)
    /\ nrequests + 1 < Len(conf.script) => sent <= End(nrequests + 2)

\* The request in progress begins where the one before it ends, and nothing behind
\* its end is read.
AtBoundary ==
  Undisturbed /\ Live =>
    /\ nrequests <= Len(conf.script) /\ req.base = End(nrequests)
    /\ pc = "headers" /\ nrequests < Len(conf.script) => got < Lf(nrequests + 1)
    /\ req.k # 0 =>
         /\ req.k = nrequests + 1 /\ req.chunked = conf.script[req.k].chunked
         /\ ~ req.chunked /\ ~ conf.script[req.k].padded =>
              /\ req.clen = End(req.k) - Lf(req.k) /\ got <= End(req.k)
              /\ req.complete => ParsedTo = End(req.k) /\ req.nread = req.clen
              /\ Lf(req.k) <= got /\ (req.rem = 0 => Lf(req.k) <= ParsedTo)
              /\ req.clen = 0 => req.nread = 0 /\ ~ req.complete

BoundaryInv == BodyInv /\ OneReader /\ ClientWaits /\ AtBoundary

(***************************************************************************)
(* The inductive invariant behind ClosedAsAnnounced.                       *)
(***************************************************************************)
\* The records have the fields they are created with.
HttpShape ==
  /\ DOMAIN out = DOMAIN NothingOut /\ DOMAIN resp = DOMAIN NewResponse(1, TRUE)
  /\ DOMAIN rd = DOMAIN Idle /\ conf.limit \in Int /\ nrequests \in Nat

ItemsTyped == resp.items \in [Names -> {"absent", "set"}]

\* While the handler is at work, the headers are on their way exactly if it made a
\* call that flushed them, and only it can have set Connection.
HandlerFlushes ==
  Handling => /\ IF resp.flushed THEN out.early ELSE out.head = "none"
              /\ resp.items["Connection"] # "absent" => "manual" \in out.mishaps

Announced ==
  out.head = "whole" /\ ~ out.early /\ out.mishaps \cap {"manual", "nomem"} = {}
    => out.conn = IF keepalive THEN "Keep-Alive" ELSE "close"

\* There is room for the request in progress, and for one more if the connection is
\* to be kept.
WithinLimit ==
  conf.limit >= 0 =>
    /\ nrequests <= conf.limit \/ nrequests <= 1
    /\ pc # "closed" => nrequests < conf.limit \/ nrequests = 0
    /\ Skipping /\ keepalive => nrequests + 1 < conf.limit

HttpInv ==
  /\ HttpShape
  /\ ItemsTyped
  /\ HandlerFlushes
  /\ Announced
  /\ WithinLimit

(***************************************************************************)
(* The inductive invariant behind ResponseFramed: what is written of the   *)
(* content while nothing has gone wrong, and what is known of its length.  *)
(***************************************************************************)
Clean == out.mishaps \subseteq {"manual"}

\* The map has a Content-Length exactly if its value is known.
LengthKnown(r) ==
  r.length \in Int /\ r.clen \in Int /\ r.minor \in Int /\ (r.items["Content-Length"] = "absent" <=> r.length = -1)

\* The content up to n is on the wire.
WrittenUpTo(n) == n \in Nat /\ out.body = [j \in 1 .. n |-> j]

\* Until the headers are flushed nothing is written.
ContentInOrder ==
  Handling /\ Clean =>
    /\ out.k = req.k /\ LengthKnown(resp)
    /\ IF resp.flushed THEN out.head = "whole" /\ WrittenUpTo(Len(out.body))
       ELSE out.body = <<>> /\ ~ out.early

\* A handler in user code knows what it has written; the file server, how much of
\* the file that is.
HandlerCounts ==
  /\ DOMAIN app = DOMAIN NoApp
  /\ Handling /\ Clean /\ pc # "respond" /\ conf.app = "user" =>
       app.at \in Nat /\ WrittenUpTo(app.at - 1) /\ app.size \in Nat
  /\ Handling /\ Clean /\ pc # "respond" /\ conf.app = "files" =>
       /\ ~ resp.flushed => resp.length = -1
       /\ app.stage = "begin" => ~ resp.flushed /\ app.off = 0
       /\ app.stage = "copy" =>
            /\ WrittenUpTo(app.off) /\ app.left \in Nat /\ app.left + app.off = FileSize
            /\ resp.clen = FileSize /\ (resp.flushed => out.length = FileSize)
  /\ pc = "respond" /\ Clean => IF resp.flushed THEN out.length = Len(out.body) ELSE resp.length \in {-1, 0}

\* The response is written.
Settled == Skipping \/ pc \in {"headers", "returned", "closed"}

ResponseInv ==
  /\ ContentInOrder /\ HandlerCounts
  /\ Settled /\ out.head # "none" /\ Clean => Framed

(***************************************************************************)
(* Liveness.                                                               *)
(***************************************************************************)
\* A client that waits for its responses, all of whose requests are sound and arrive
\* with their headers in one piece, has sent a request that is not answered yet.
Unanswered ==
  /\ conf.whole /\ ~ conf.pipelined /\ conf.faults = 0 /\ conf.leaves = {}
  /\ \A k \in DOMAIN conf.script : Sound(conf.script[k])
  /\ nrequests < Len(conf.script) /\ sent >= MessageEnd(nrequests + 1)

\* Such a client gets an answer to every request, unless an earlier answer closed
\* the connection; only a handler that reads on behind the end of the body runs
\* into an assertion.
RequestAnswered ==
  Unanswered ~> \/ ~ Unanswered
                \/ pc = "closed" /\ req.err = "ok"
                \/ pc = "aborted" /\ req.nread = req.clen

\* The loop that skips a body the client will not send any more.
SkipsForEver == MustSkip /\ (pc = "skip" \/ rd.caller = "skip") /\ got = sent /\ peer = "closed"

\* Once the client is gone the connection is closed, or the process has ended, or
\* one of two loops goes on for ever: the one that skips the rest of the body, and
\* the one that reads from a remainder behind the end of the message.
ConnectionEnds ==
  peer # "open" ~> pc \in {"closed", "aborted", "undefined", "spinning"} \/ SkipsForEver
=============================================================================
