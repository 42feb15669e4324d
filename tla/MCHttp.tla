------------------------------- MODULE MCHttp -------------------------------
(***************************************************************************)
(* Instances of FileServer, and with it of the HTTP modules, for TLC.      *)
(***************************************************************************)
EXTENDS FileServer

Get == [url |-> 1, fields |-> <<>>, minor |-> 1, conn |-> "none", len |-> -1, padded |-> FALSE,
        chunked |-> FALSE, query |-> <<>>, method |-> "GET", target |-> "file"]
Post == [Get EXCEPT !.fields = <<<<1, 1>>>>, !.len = 2, !.method = "POST"]

Base == [script |-> <<Get, Get>>, ndebug |-> FALSE, limit |-> -1, buffers |-> 2, pipelined |-> FALSE,
         whole |-> TRUE, leaves |-> {}, faults |-> 0, app |-> "user", calls |-> 2, autoindex |-> TRUE]

\* Sound requests, a handler that makes two calls.
Regular ==
  {[Base EXCEPT !.script = <<Post, Get>>, !.ndebug = n, !.leaves = l] :
     n \in BOOLEAN, l \in {{}, {"closed", "broken"}}}
  \cup {[Base EXCEPT !.script = <<r, Post>>] :
     r \in {[Get EXCEPT !.minor = 0, !.conn = "Keep-Alive"], [Post EXCEPT !.conn = "close"]}}
\* Failures.
Failing == {[Base EXCEPT !.script = <<r, Get>>, !.faults = 1] : r \in {Get, Post}}
\* Headers in several pieces, pipelining, and requests the code does not get right.
Awkward ==
  {[Base EXCEPT !.script = <<r, Get>>, !.ndebug = n, !.pipelined = p, !.whole = w,
                !.calls = 1, !.leaves = {"closed"}, !.buffers = IF n THEN 2 ELSE 1] :
     r \in {Post, [Post EXCEPT !.len = 1],
            [Post EXCEPT !.len = 0, !.chunked = TRUE], [Post EXCEPT !.len = 1, !.chunked = TRUE],
            [Post EXCEPT !.padded = TRUE], [Get EXCEPT !.url = 3], [Get EXCEPT !.query = <<61>>],
            [Get EXCEPT !.fields = <<<<1, 1>>, <<1, 1>>, <<1, 1>>>>],
            [Get EXCEPT !.fields = <<<<1, 2>>, <<1, 1>>, <<1, 1>>>>]},
     n \in BOOLEAN, <<p, w>> \in {<<TRUE, TRUE>>, <<FALSE, TRUE>>, <<FALSE, FALSE>>}}
\* The limit of requests.
Limits ==
  {[Base EXCEPT !.script = <<Get, [Get EXCEPT !.conn = "other", !.minor = 0], Get>>, !.limit = l, !.calls = 0] :
     l \in {-1, 0, 1, 2}}
\* The file server.
Files ==
  {[Base EXCEPT !.script = <<r, Get>>, !.app = "files", !.faults = f, !.autoindex = a] :
     r \in {Get, Post, [Get EXCEPT !.target = "missing"], [Get EXCEPT !.target = "denied"],
            [Get EXCEPT !.target = "directory"]},
     f \in 0 .. 1, a \in BOOLEAN}
  \cup {[Base EXCEPT !.app = "files", !.leaves = {"broken"}]}

MCSetups == Regular \cup Failing \cup Awkward \cup Limits \cup Files
=============================================================================
