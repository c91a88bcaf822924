----------------------------- MODULE HTTPServer -----------------------------
(***************************************************************************)
(* What a server sends to HTTPClient when it follows HTTP/1.1, and what a  *)
(* successful request promises: the response the server sent, read off its *)
(* structure and not off its bytes.                                        *)
(***************************************************************************)
EXTENDS HTTPClient, SequencesExt

CONSTANT Responses  \* records [interim, status, framing, parts, trailers]

DataCell == [k : {"data"}, n : Int]
Body(r) == FlattenSeq(r.parts)

\* A body fits into the memory of the client, chunks are not empty, and what has no body has a
\* status that says so.
ASSUME ResponsesAssumption ==
    /\ Responses \subseteq [interim : Nat, status : Nat \ (100..199),
                            framing : {"length", "chunked", "close", "empty"},
                            parts : Seq(Seq(DataCell)), trailers : Nat]
    /\ \A r \in Responses :
           /\ Len(Body(r)) < SizeMax
           /\ \A i \in 1..Len(r.parts) : Len(r.parts[i]) \in 1..(SizeMax - 1)
           /\ r.framing = "empty" => r.status \in {204, 304}

Cell(kind, n) == [k |-> kind, n |-> n]
EOL == <<Cell("cr", 0), Cell("lf", 0)>>
Line(kind, n) == <<Cell(kind, n)>> \o EOL

\* Interim responses and trailers, chunks, and the response they are part of.
Repeat(n, s) == FlattenSeq([i \in 1..n |-> s])
Interim == Line("status", 100) \o (Line("field", 0) \o EOL)
Trailers(n) == Repeat(n, Line("field", 0)) \o EOL
Chunk(part) == Line("size", Len(part)) \o (part \o EOL)
Chunks(parts, trailers) ==
    FlattenSeq([i \in 1..Len(parts) |-> Chunk(parts[i])]) \o (Line("size", 0) \o Trailers(trailers))

Framed(r) ==
    CASE r.framing = "length" -> Line("length", Len(Body(r))) \o (EOL \o Body(r))
      [] r.framing = "chunked" -> Line("length", 7) \o (Line("chunked", 0) \o (EOL \o Chunks(r.parts, r.trailers)))
      [] r.framing = "close" -> Line("coding", 0) \o (EOL \o Body(r))
      [] r.framing = "empty" -> Line("length", 2) \o EOL
Encode(r) == Repeat(r.interim, Interim) \o (Line("status", r.status) \o Framed(r))

---------------------------------------------------------------------------
Sent == {r \in Responses : Encode(r) = reply}
HasBody(r) == request.method # "HEAD" /\ r.status \notin {204, 304}
Upload == request.head + (IF request.source = "none" THEN 0 ELSE request.size)

\* Where the network splits a response that follows HTTP/1.1 never shows: what write_f or body_p
\* gets is at any time a beginning of the body the server sent, and when the request succeeds it is
\* the whole body with its status; cut short, the response succeeds only if its body ends with the
\* connection (nh_network_readBody, nh_network_readChunkedBody).
ResponseExact ==
    \A r \in Sent :
        /\ HasBody(r) => IsPrefix(response.body, Body(r))
        /\ Succeeded =>
               /\ response.status = r.status
               /\ HasBody(r) /\ r.framing # "close" => response.body = Body(r)
               /\ ~HasBody(r) => response.body = <<>>
               /\ sent = Upload

\* Once all of a response that says where it ends has come, no more is waited for: a server that
\* keeps the connection open does not make the request time out (nh_network_receiveResponse).
EndNoticed ==
    \A r \in Sent : received = Len(reply) /\ (HasBody(r) => r.framing # "close") => ~NeedsInput
=============================================================================
