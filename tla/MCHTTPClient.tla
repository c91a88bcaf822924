---------------------------- MODULE MCHTTPClient ----------------------------
(***************************************************************************)
(* The HTTP client against a server that frames its responses in every way *)
(* of HTTP/1.1, and one that does not follow it.                           *)
(***************************************************************************)
EXTENDS HTTPServer

Data(d) == [i \in 1..Len(d) |-> Cell("data", d[i])]

\* Responses: interim responses, status, framing, the body in parts, trailer lines.
Response(i, s, f, b, t) == [interim |-> i, status |-> s, framing |-> f, parts |-> b, trailers |-> t]
MCResponses == {Response(0, 200, "length", <<>>, 0), Response(1, 200, "length", <<Data(<<1, 2, 3>>)>>, 0),
                Response(0, 404, "chunked", <<Data(<<1, 2>>), Data(<<3>>)>>, 1),
                Response(2, 200, "chunked", <<>>, 0),
                Response(0, 200, "close", <<Data(<<1, 2, 3>>)>>, 0),
                Response(0, 304, "empty", <<>>, 0), Response(0, 204, "length", <<>>, 0)}
\* What no server may send: no status line, no number or no size where there should be one, a
\* number that becomes (size_t)-1, a body longer or shorter than its length, a second length,
\* characters between a chunk and its end, too large a header block or line.
OK == Line("status", 200)
Malformed == {Line("field", 0) \o EOL,
              OK \o Line("length", NoNumber) \o EOL \o Data(<<1>>),
              OK \o Line("length", SizeMax) \o EOL \o Data(<<1, 2>>),
              OK \o Line("length", 2) \o EOL \o Data(<<1, 2, 3>>),
              OK \o Line("length", 3) \o Line("length", 1) \o EOL \o Data(<<1, 2>>),
              OK \o Line("chunked", 0) \o EOL \o Data(<<1, 2>>) \o EOL \o EOL,
              OK \o Line("chunked", 0) \o EOL \o Line("size", 1) \o Data(<<1, 2>>) \o EOL \o Line("size", 0) \o EOL,
              OK \o Line("chunked", 0) \o EOL \o Line("size", SizeMax) \o Data(<<1>>),
              OK \o Repeat(5, Line("field", 0)) \o EOL,
              OK \o Repeat(4, <<Cell("field", 0)>>) \o EOL \o EOL}
MCStreams == {Encode(r) : r \in MCResponses} \cup Malformed

Request(source, size, sink, method, tls) ==
    [head |-> 2, source |-> source, size |-> size, sink |-> sink, method |-> method, tls |-> tls]
MCRequests == {Request("none", 0, FALSE, "GET", FALSE), Request("read", 3, TRUE, "GET", TRUE),
               Request("body", 3, FALSE, "GET", FALSE), Request("none", 0, FALSE, "HEAD", FALSE)}

\* A status says that a response came (nh-api/nh-network.h: "0 if no response was received").
StatusMeansResponse == response.error = "no response" => response.status = 0
=============================================================================
