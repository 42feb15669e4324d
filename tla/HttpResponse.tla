---------------------------- MODULE HttpResponse ----------------------------
(***************************************************************************)
(* A response (http/response.c): the headers in its map, the moment they   *)
(* are flushed, and what reaches the socket (dfk_tcp_socket_write and      *)
(* writev, tcp_socket.c).                                                  *)
(*                                                                         *)
(* Two headers matter to the protocol and keep their text: `conn' is that  *)
(* of Connection and `length' that of Content-Length.  `items' says which  *)
(* names are in the map.  No name is a prefix of another.                  *)
(*                                                                         *)
(* `out' is what has been written for the response.  The cells of a body   *)
(* are the positions of the content they carry.                            *)
(***************************************************************************)
EXTENDS HttpRequest

VARIABLES resp, out

responseVars == <<resp, out>>

Names == {"Connection", "Content-Length", "Other"}

\* dfk__http_response_init.
NewResponse(minor, ka) ==
  [status |-> 200, minor |-> minor, clen |-> -1, keepalive |-> ka, flushed |-> FALSE,
   items |-> [n \in Names |-> "absent"], conn |-> "absent", length |-> -1]

\* Nothing has been written.  `k' is the request, `mishaps' what has gone wrong.
NothingOut ==
  [k |-> 0, head |-> "none", conn |-> "absent", length |-> -1, minor |-> 0, status |-> 0,
   body |-> <<>>, early |-> FALSE, mishaps |-> {}]

-----------------------------------------------------------------------------
(***************************************************************************)
(* dfk_http_response_set, and the variants that copy the name, the value   *)
(* or both into the request's arena.  An item whose name is in the map     *)
(* already is not inserted.                                                *)
(***************************************************************************)
\* Mutant: the item replaces the one with the same name.
InsertReplaces(r, name, conn, length) ==
  [r EXCEPT !.items[name] = "set",
            !.conn = IF name = "Connection" THEN conn ELSE @,
            !.length = IF name = "Content-Length" THEN length ELSE @]

\* dfk_strmap_insert.
Insert(r, name, conn, length) ==
  IF r.items[name] # "absent" THEN r
  ELSE [r EXCEPT !.items[name] = "set",
                 !.conn = IF name = "Connection" THEN conn ELSE @,
                 !.length = IF name = "Content-Length" THEN length ELSE @]

-----------------------------------------------------------------------------
(***************************************************************************)
(* The socket.  A write may be short, and fails when the peer is gone.     *)
(***************************************************************************)
FaultIf(b) == IF b THEN 1 ELSE 0

\* dfk_tcp_socket_writev of pieces of the given lengths: how many cells are sent,
\* what the call returns, and whether a write was short.  After a short write it
\* returns the length of the last piece, not the total.  A connection that breaks
\* between two pieces is one that was broken before the first.
WritevOutcomes(pieces) ==
  LET total == FoldLeft(+, 0, pieces)
      Before(i) == FoldLeft(+, 0, SubSeq(pieces, 1, i - 1))
      all == {[n |-> total, ret |-> total, short |-> FALSE]}
      cut == {[n |-> Before(x[1]) + x[2], ret |-> x[2], short |-> TRUE] :
                x \in UNION {{<<i, m>> : m \in 1 .. pieces[i] - 1} : i \in DOMAIN pieces}}
  IN  IF peer = "broken" THEN {[n |-> 0, ret |-> -1, short |-> FALSE]}
      ELSE all \cup IF faults > 0 THEN cut ELSE {}

-----------------------------------------------------------------------------
(***************************************************************************)
(* dfk__http_response_flush_headers.                                       *)
(***************************************************************************)
\* Content-Length is added unless it was set manually.
WithLength(r) ==
  IF r.clen = -1 THEN r ELSE Insert(r, "Content-Length", "", r.clen)

\* What is left of the headers on the wire, by what happens to the writes: all of
\* them, a part, the status line alone (no memory for the iovec), or nothing.
HeadWritten(r, fate) ==
  [out EXCEPT !.head = fate, !.early = pc = "handler",
              !.conn = IF fate = "whole" THEN r.conn ELSE "absent",
              !.length = IF fate = "whole" THEN r.length ELSE -1,
              !.minor = r.minor,
              !.status = IF fate = "status" THEN 500 ELSE r.status,
              !.mishaps = @ \cup IF fate = "whole" THEN {} ELSE {fate}]

\* The outcomes of a call: the response and the output after it.  The results of
\* the writes are ignored.  "crash": no memory for the item, and NULL is inserted.
FlushOutcomes(r) ==
  IF r.flushed THEN {[resp |-> r, out |-> out, cost |-> 0, crash |-> FALSE, ret |-> 0]}
  ELSE LET q == [WithLength(r) EXCEPT !.flushed = TRUE]
           fates == IF peer = "broken" THEN {"nothing"}
                    ELSE {"whole"} \cup IF faults > 0 THEN {"cut", "status"} ELSE {}
           adds == r.clen # -1 /\ r.items["Content-Length"] = "absent"
       IN  {[resp |-> IF f = "status" THEN [q EXCEPT !.status = 500] ELSE q,
             out |-> HeadWritten(q, f), cost |-> FaultIf(f \in {"cut", "status"}),
             crash |-> FALSE, ret |-> 0] :
              f \in fates}
             \cup IF adds /\ faults > 0
                  THEN {[resp |-> r, out |-> out, cost |-> 1, crash |-> TRUE, ret |-> 0]} ELSE {}

\* dfk_http_response_writev: flush, then write the cells `from', `from' + 1, ... of
\* the content in pieces.  A single piece is dfk_http_response_write.
WriteOutcomes(r, from, pieces) ==
  UNION {IF f.crash THEN {f}
         ELSE {[resp  |-> f.resp,
                out   |-> [f.out EXCEPT !.body = @ \o [i \in 1 .. w.n |-> from + i - 1],
                                        !.mishaps = @ \cup IF w.short /\ Len(pieces) > 1
                                                           THEN {"writev"} ELSE {}],
                cost  |-> f.cost + FaultIf(w.short), crash |-> FALSE, ret |-> w.ret] :
                 w \in {v \in WritevOutcomes(pieces) : f.cost + FaultIf(v.short) <= faults}} :
         f \in FlushOutcomes(r)}
=============================================================================
