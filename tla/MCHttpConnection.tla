-------------------------- MODULE MCHttpConnection --------------------------
(***************************************************************************)
(* HttpConnection on a few messages: bodies by length (one of them full of *)
(* line ends, one empty), without a body, in chunks, and one message for   *)
(* each test of the parser.                                                *)
(***************************************************************************)
EXTENDS HttpConnection

MCMessage(id, framing, chunks, defect) ==
    [id |-> id, framing |-> framing, chunks |-> chunks, defect |-> defect]

X == <<"byte", 1>>
Y == <<"byte", 2>>

MCMessages == {
    MCMessage(1, "length", <<<<X, Y>>>>, "fine"),
    MCMessage(2, "length", <<CRLF \o CRLF>>, "fine"),
    MCMessage(3, "length", <<>>, "fine"),
    MCMessage(4, "none", <<>>, "fine"),
    MCMessage(5, "chunked", <<<<X>>, <<Y, LF>>>>, "fine"),
    MCMessage(6, "length", <<<<X>>>>, "empty"),
    MCMessage(7, "none", <<>>, "short"),
    MCMessage(8, "length", <<<<X>>>>, "status"),
    MCMessage(9, "length", <<<<X>>>>, "length"),
    MCMessage(10, "chunked", <<<<X>>>>, "size")}
=============================================================================
