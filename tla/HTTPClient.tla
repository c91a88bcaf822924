------------------------------ MODULE HTTPClient ------------------------------
(***************************************************************************)
(* A blocking HTTP/1.1 request (src/lib/nh-network/HTTPClient.c) and a     *)
(* server that may answer in pieces of any size, stop answering, close or  *)
(* reset the connection at any point.                                      *)
(*                                                                         *)
(* The bytes of a response are cells [k, n]: the one part of a line the    *)
(* client looks at ("status", "length", "size": the number n), "chunked",  *)
(* "coding" (another Transfer-Encoding), "field" (another header), "data"  *)
(* (a byte of a body), "cr" and "lf".                                      *)
(***************************************************************************)
EXTENDS Integers, Sequences

CONSTANTS
    Requests,       \* records [head, source, size, sink, method, tls]
    Streams,        \* the responses of the server, sequences of cells
    Addresses,      \* bound: addresses getaddrinfo() returns
    BufferSize,     \* NH_NETWORK_HTTP_BUFFER_SIZE
    HeadLineSize,   \* sizeof(line_p) in receiveResponse()
    ChunkLineSize,  \* sizeof(line_p) in readChunkedBody()
    MaxHeaderSize,  \* NH_NETWORK_HTTP_MAX_HEADER_SIZE
    SizeMax         \* (size_t)-1, what strtoull() makes of -1 and of a larger number

NoNumber == -1      \* strtoull() finds no digit
Kinds == {"status", "length", "size", "chunked", "coding", "field", "data", "cr", "lf"}

ASSUME SizesAssumption ==
    /\ {Addresses, BufferSize, HeadLineSize, ChunkLineSize, SizeMax} \subseteq Nat \ {0}
    /\ MaxHeaderSize \in Nat
    /\ Requests \subseteq [head : Nat \ {0}, source : {"none", "body", "read"}, size : Nat,
                           sink : BOOLEAN, method : {"GET", "HEAD"}, tls : BOOLEAN]
    /\ Streams \subseteq Seq([k : Kinds, n : Int])

\* The numbers are those strtoull() returns.
ASSUME NumbersAssumption ==
    \A s \in Streams : \A i \in 1..Len(s) :
        /\ s[i].k = "size" => s[i].n \in 0..SizeMax
        /\ s[i].k = "length" => s[i].n \in {NoNumber} \cup 0..SizeMax

VARIABLES
    pc,         \* where performHTTPRequest() is
    request,    \* Request_p
    fds,        \* how many descriptors are open
    fd,         \* Connection_p->fd is one of them
    tried,      \* addresses of Info_p tried
    session,    \* SSL_p is set
    sending,    \* units of the current writeAll() still to send
    remaining,  \* units of the request body still to fetch
    sent,       \* units the server was sent
    reply,      \* what the server answers
    received,   \* how many of its cells recv() returned
    buffer,     \* buffer_p from position to length
    line,       \* line_p
    headers,    \* Headers, the lines of the current header block
    headerSize, \* Headers.length
    left,       \* bytes readBody() has still to read, SizeMax: until the end
    response    \* Response_p: status, body, error

vars == <<pc, request, fds, fd, tried, session, sending, remaining, sent, reply, received, buffer,
          line, headers, headerSize, left, response>>
connection == <<request, fds, fd, tried, session>>
upload == <<sending, remaining, sent>>
wire == <<reply, received>>
block == <<headers, headerSize>>
input == <<wire, buffer, line, block, left>>

\* The error path of every step: the error is set and the connection closed next.
Fail(e) == pc' = "close" /\ response' = [response EXCEPT !.error = e]

---------------------------------------------------------------------------
(* nh_network_connectTCP(), nh_network_startTLS(), nh_network_closeConnection() *)

ResolveFails ==
    /\ pc = "connect" /\ tried = 0
    /\ Fail("resolve")
    /\ UNCHANGED <<connection, upload, input>>

\* socket() for the next address; it may give no descriptor.
OpenSocket ==
    /\ pc = "connect" /\ tried < Addresses
    /\ tried' = tried + 1
    /\ \/ pc' = "poll" /\ fds' = fds + 1
       \/ UNCHANGED <<pc, fds>>
    /\ UNCHANGED <<request, fd, session, upload, input, response>>

\* connect() and poll(): connected, or refused or timed out and closed.
Connected ==
    /\ pc = "poll"
    /\ pc' = (IF request.tls THEN "tls" ELSE "sendHead") /\ fd' = TRUE
    /\ UNCHANGED <<request, fds, tried, session, upload, input, response>>
\* Mutants: the descriptor stays open; the addresses are tried from the first again.
ConnectFailsLeaks ==
    /\ pc = "poll" /\ pc' = "connect"
    /\ UNCHANGED <<connection, upload, input, response>>
ConnectFailsRestarts ==
    /\ pc = "poll"
    /\ pc' = "connect" /\ fds' = fds - 1 /\ tried' = 0
    /\ UNCHANGED <<request, fd, session, upload, input, response>>
ConnectFails ==
    /\ pc = "poll"
    /\ pc' = "connect" /\ fds' = fds - 1
    /\ UNCHANGED <<request, fd, tried, session, upload, input, response>>
NoAddressLeft ==
    /\ pc = "connect" /\ tried = Addresses
    /\ Fail("connect")
    /\ UNCHANGED <<connection, upload, input>>

StartTLS ==
    /\ pc = "tls"
    /\ \/ pc' = "sendHead" /\ session' = TRUE /\ UNCHANGED response
       \/ Fail("tls") /\ UNCHANGED session
    /\ UNCHANGED <<request, fds, fd, tried, upload, input>>

CloseConnection ==
    /\ pc = "close"
    /\ pc' = "done" /\ session' = FALSE /\ fd' = FALSE
    /\ fds' = IF fd THEN fds - 1 ELSE fds
    /\ UNCHANGED <<request, tried, upload, input, response>>

---------------------------------------------------------------------------
(* nh_network_sendRequest() *)

SendHead ==
    /\ pc = "sendHead"
    /\ pc' = "write" /\ sending' = request.head
    /\ remaining' = IF request.source = "none" THEN 0 ELSE request.size
    /\ UNCHANGED <<connection, sent, input, response>>

\* writeAll(): send() takes a part of what is left.
Write ==
    /\ pc = "write" /\ sending > 0
    /\ \E n \in 1..sending : sending' = sending - n /\ sent' = sent + n
    /\ UNCHANGED <<pc, connection, remaining, input, response>>
WriteFails ==
    /\ pc = "write" /\ sending > 0
    /\ Fail(IF sent < request.head THEN "send headers" ELSE "send body")
    /\ UNCHANGED <<connection, upload, input>>

\* The body in one piece, or as much as read_f gives into a buffer.
SendBody ==
    /\ pc = "write" /\ sending = 0 /\ remaining > 0
    /\ LET want == IF remaining < BufferSize THEN remaining ELSE BufferSize
       IN  \E got \in IF request.source = "body" THEN {remaining} ELSE 1..want :
               sending' = got /\ remaining' = remaining - got
    /\ UNCHANGED <<pc, connection, sent, input, response>>
\* read_f returns 0, an error, or more than there is room for.
SourceFails ==
    /\ pc = "write" /\ sending = 0 /\ remaining > 0 /\ request.source = "read"
    /\ Fail("source")
    /\ UNCHANGED <<connection, upload, input>>
RequestSent ==
    /\ pc = "write" /\ sending = 0 /\ remaining = 0
    /\ pc' = "status"
    /\ UNCHANGED <<connection, upload, input, response>>

---------------------------------------------------------------------------
(* nh_network_fillBuffer(), nh_network_readRaw() *)

LineStates == {"status", "header", "size", "chunkEnd", "trailer"}
Reading == LineStates \cup {"body", "chunk"}
NeedsInput == pc \in Reading /\ buffer = <<>>

ReadError ==
    IF pc = "status" THEN "no response" ELSE IF pc = "header" THEN "headers" ELSE "body"

Receive ==
    /\ NeedsInput
    /\ \E n \in 1..(Len(reply) - received) :
          /\ n <= BufferSize
          /\ buffer' = SubSeq(reply, received + 1, received + n) /\ received' = received + n
    /\ UNCHANGED <<pc, connection, upload, reply, line, block, left, response>>

\* The server closes: the end of a body that ends with the connection, else an error.
ReceiveEnd ==
    /\ NeedsInput
    /\ IF pc = "body" /\ left = SizeMax THEN pc' = "close" /\ UNCHANGED response
       ELSE IF pc = "chunk" /\ left = SizeMax THEN pc' = "chunkEnd" /\ UNCHANGED response
       ELSE Fail(ReadError)
    /\ UNCHANGED <<connection, upload, input>>

\* recv() fails: reset, or nothing came for as long as SO_RCVTIMEO allows.
ReceiveFails ==
    /\ NeedsInput
    /\ Fail(ReadError)
    /\ UNCHANGED <<connection, upload, input>>

---------------------------------------------------------------------------
(* nh_network_readLine(), nh_network_receiveResponse(), nh_network_readChunkedBody() *)

LineSize == IF pc \in {"status", "header"} THEN HeadLineSize ELSE ChunkLineSize

ReadChar ==
    /\ pc \in LineStates /\ buffer # <<>> /\ Head(buffer).k # "lf"
    /\ buffer' = Tail(buffer)
    /\ \/ Head(buffer).k = "cr" /\ UNCHANGED <<pc, line, response>>
       \/ /\ Head(buffer).k # "cr" /\ Len(line) + 1 < LineSize
          /\ line' = Append(line, Head(buffer)) /\ UNCHANGED <<pc, response>>
       \/ /\ Head(buffer).k # "cr" /\ Len(line) + 1 >= LineSize
          /\ Fail(ReadError) /\ UNCHANGED line
    /\ UNCHANGED <<connection, upload, wire, block, left>>

\* The end of a line in one of the states S.
EndLine(S) ==
    /\ pc \in S /\ buffer # <<>> /\ Head(buffer).k = "lf"
    /\ buffer' = Tail(buffer) /\ line' = <<>>
    /\ UNCHANGED <<connection, upload, wire>>

Is(l, kind) == l # <<>> /\ l[1].k = kind

StatusLine ==
    /\ EndLine({"status"})
    /\ IF Is(line, "status")
       THEN pc' = "header" /\ response' = [response EXCEPT !.status = line[1].n]
       ELSE Fail("status line")
    /\ headers' = <<>> /\ headerSize' = 0
    /\ UNCHANGED left

HeaderLine ==
    /\ EndLine({"header"}) /\ line # <<>>
    /\ LET size == headerSize + Len(line) + 2
       IN  IF size > MaxHeaderSize THEN Fail("headers too large") /\ UNCHANGED block
           ELSE /\ headers' = Append(headers, line) /\ headerSize' = size
                /\ UNCHANGED <<pc, response>>
    /\ UNCHANGED left

\* nh_network_getHTTPHeader(): the first header line of one of the kinds.
Header(kinds) ==
    LET found == {i \in 1..Len(headers) : \E kind \in kinds : Is(headers[i], kind)}
    IN  IF found = {} THEN [k |-> "none", n |-> 0]
        ELSE headers[CHOOSE i \in found : \A j \in found : i <= j][1]

\* readBody(size) begins; nothing is read when size is 0.
BeginBody(size, reading, next) == left' = size /\ pc' = IF size = 0 THEN next ELSE reading

\* Mutant: a 304 is read like any other response.
NoBodyHEAD == request.method = "HEAD"
NoBody == request.method = "HEAD" \/ response.status \in {204, 304}

\* The empty line after an interim response, or after the headers of the final one.
InterimEnds ==
    /\ EndLine({"header"}) /\ line = <<>> /\ response.status \in 100..199
    /\ pc' = "status" /\ headers' = <<>> /\ headerSize' = 0
    /\ UNCHANGED <<left, response>>
HeadersEnd ==
    /\ EndLine({"header"}) /\ line = <<>> /\ response.status \notin 100..199
    /\ LET coding == Header({"chunked", "coding"})
           length == Header({"length"})
       IN  IF NoBody THEN pc' = "close" /\ UNCHANGED <<left, response>>
           ELSE IF coding.k = "chunked" THEN pc' = "size" /\ UNCHANGED <<left, response>>
           ELSE IF length.k = "length" THEN
               IF length.n = NoNumber THEN Fail("body") /\ UNCHANGED left
               ELSE BeginBody(length.n, "body", "close") /\ UNCHANGED response
           ELSE BeginBody(SizeMax, "body", "close") /\ UNCHANGED response
    /\ UNCHANGED block

\* Mutant: strtoull()'s 0 is taken without looking at end_p.
ChunkSizeUnchecked ==
    /\ EndLine({"size"})
    /\ IF ~Is(line, "size") \/ line[1].n = 0 THEN pc' = "trailer" /\ UNCHANGED <<left, response>>
       ELSE BeginBody(line[1].n, "chunk", "chunkEnd") /\ UNCHANGED response
    /\ UNCHANGED block
ChunkSizeLine ==
    /\ EndLine({"size"})
    /\ IF ~Is(line, "size") THEN Fail("body") /\ UNCHANGED left
       ELSE IF line[1].n = 0 THEN pc' = "trailer" /\ UNCHANGED <<left, response>>
       ELSE BeginBody(line[1].n, "chunk", "chunkEnd") /\ UNCHANGED response
    /\ UNCHANGED block
ChunkEndLine ==
    /\ EndLine({"chunkEnd"})
    /\ pc' = "size"
    /\ UNCHANGED <<block, left, response>>
TrailerLine ==
    /\ EndLine({"trailer"})
    /\ pc' = IF line = <<>> THEN "close" ELSE "trailer"
    /\ UNCHANGED <<block, left, response>>

---------------------------------------------------------------------------
(* nh_network_readBody(), nh_network_deliverBody(), nh_network_appendToBuffer() *)

\* Mutant: whatever is buffered belongs to the body.
TakeAll == Len(buffer)
Take == IF left = SizeMax \/ Len(buffer) < left THEN Len(buffer) ELSE left

ReadBody ==
    /\ pc \in {"body", "chunk"} /\ buffer # <<>>
    /\ response' = [response EXCEPT !.body = @ \o SubSeq(buffer, 1, Take)]
    /\ buffer' = SubSeq(buffer, Take + 1, Len(buffer))
    /\ left' = IF left = SizeMax THEN left ELSE left - Take
    /\ pc' = IF left' > 0 THEN pc ELSE IF pc = "body" THEN "close" ELSE "chunkEnd"
    /\ UNCHANGED <<connection, upload, wire, line, block>>
\* write_f consumes less than it is given.
SinkRefuses ==
    /\ pc \in {"body", "chunk"} /\ buffer # <<>> /\ request.sink
    /\ Fail("body")
    /\ UNCHANGED <<connection, upload, input>>

---------------------------------------------------------------------------
Init ==
    /\ pc = "connect" /\ request \in Requests /\ reply \in Streams /\ received = 0
    /\ fds = 0 /\ fd = FALSE /\ tried = 0 /\ session = FALSE
    /\ sending = 0 /\ remaining = 0 /\ sent = 0
    /\ buffer = <<>> /\ line = <<>> /\ headers = <<>> /\ headerSize = 0 /\ left = 0
    /\ response = [status |-> 0, body |-> <<>>, error |-> "none"]

Connect == ResolveFails \/ OpenSocket \/ Connected \/ ConnectFails \/ NoAddressLeft \/ StartTLS
Send == SendHead \/ Write \/ WriteFails \/ SendBody \/ SourceFails \/ RequestSent
FillBuffer == Receive \/ ReceiveEnd \/ ReceiveFails
ReadHead == ReadChar \/ StatusLine \/ HeaderLine \/ InterimEnds \/ HeadersEnd
ReadChunk == ChunkSizeLine \/ ChunkEndLine \/ TrailerLine \/ ReadBody \/ SinkRefuses

Next == Connect \/ Send \/ FillBuffer \/ ReadHead \/ ReadChunk \/ CloseConnection

Spec == Init /\ [][Next]_vars

\* Every call of the client returns: connect() and poll(), send() and recv() within
\* timeoutSeconds (SO_SNDTIMEO, SO_RCVTIMEO), TLS over the same descriptor.
FairSpec == Spec /\ WF_vars(Next)

---------------------------------------------------------------------------
\* performHTTPRequest() returns 0.
Succeeded == pc \in {"close", "done"} /\ response.error = "none"

\* Whatever a server sends, also when it does not follow HTTP/1.1: of the body no more is
\* delivered than the first Content-Length says, and success means that the end it announces
\* was reached: that many bytes, or a last chunk. A Content-Length that is no number never
\* succeeds; (size_t)-1, which -1 and a number that is too large become, announces no end
\* (nh_network_receiveResponse, nh_network_readBody, nh_network_readChunkedBody).
FramingHonoured ==
    LET length == Header({"length"})
        chunked == Header({"chunked", "coding"}).k = "chunked"
        counted == ~NoBody /\ ~chunked /\ length.k = "length" /\ length.n # SizeMax
    IN  /\ counted => response.body = <<>> \/ Len(response.body) <= length.n
        /\ counted /\ Succeeded => Len(response.body) = length.n
        /\ ~NoBody /\ chunked /\ Succeeded => \E i \in 1..received : reply[i].k = "size" /\ reply[i].n = 0

\* Whatever was tried and whatever failed, the one descriptor that is open while a request is
\* served is closed when it returns (nh_network_connectTCP, nh_network_closeConnection).
DescriptorsClosed == fds <= 1 /\ (pc = "done" => fds = 0 /\ ~session)

\* A request is answered or fails: nothing the server does, or fails to do, keeps it for ever
\* (nh-api/nh-network.h, timeoutSeconds).
RequestEnds == <>(pc = "done")
=============================================================================
