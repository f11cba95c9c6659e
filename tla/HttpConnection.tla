--------------------------- MODULE HttpConnection ---------------------------
(***************************************************************************)
(* One direction of an HTTP connection: AsyncHttpClient over BasicTcpClient *)
(* (src/net/client.cpp), used by both programs, at its two ends.  The peer *)
(* writes messages with asyncRequest, a record at a time, and the network  *)
(* cuts their bytes anywhere.  At this end an asynchronous read fills      *)
(* m_Streambuf until its condition holds; the handler of the read then     *)
(* takes the bytes out with the BLOCKING read functions, which must find   *)
(* everything in m_Streambuf: they would otherwise wait for a completion   *)
(* that only the thread they block runs.                                   *)
(*                                                                         *)
(* A byte is a pair <<kind, value>>.  CR, LF and the bytes of a body are   *)
(* single bytes; a header line or a chunk size, without its CR LF, is one. *)
(***************************************************************************)
EXTENDS Integers, Sequences, FiniteSets, SequencesExt

CONSTANTS
    Messages,    \* the messages a peer may send: see Message
    MaxMessages, \* bound on the messages of one connection
    RecordSize   \* how many bytes the peer's TLS stream takes at once

ASSUME HttpConstants == {MaxMessages, RecordSize} \subseteq Nat \ {0}

Framings == {"length", "chunked", "none"}

(* What may be wrong with a message, by the test that finds it.            *)
Defects == {"fine", "empty", "short", "status", "length", "size"}

Byte == {"CR", "LF", "byte", "start", "one word", "HTTP/1.1 no number",
         "Content-Length", "chunked", "hex"} \X Int

Message == [id : Nat, framing : Framings, chunks : Seq(Seq(Byte)),
            defect : Defects]

(* A body is announced; a chunk without bytes would be the last.           *)
ASSUME MessagesAssumption ==
    /\ Messages \subseteq Message
    /\ \A m \in Messages :
         /\ m.framing = "none" => m.chunks = <<>>
         /\ m.framing = "chunked" => \A i \in DOMAIN m.chunks : m.chunks[i] # <<>>
         /\ m.defect = "length" => m.framing = "length"
         /\ m.defect = "size" => m.framing = "chunked"

VARIABLES
    sent,        \* the messages the peer writes, in order
    written,     \* how many it has passed to asyncRequest
    unsent,      \* what the write has still to take out of its m_WriteBuffer
    overwritten, \* m_WriteBuffer was replaced before
    wire,        \* the bytes in the network
    lost,        \* how many bytes the peer's death took with it
    peer,        \* "open" or "closed"
    m_Streambuf, \* bytes received and not yet consumed
    op,          \* the asynchronous read in progress and its completion
    reply,       \* the HttpReply being assembled
    delivered,   \* the replies handed to the owner
    failure      \* "none", or the error handed to the owner

writeVars == <<sent, written, unsent, overwritten>>
netVars == <<writeVars, wire, lost, peer>>
httpVars == <<netVars, m_Streambuf, op, reply, delivered, failure>>

-----------------------------------------------------------------------------
(* Messages and their bytes.                                               *)

CR == <<"CR", 0>>
LF == <<"LF", 0>>
CRLF == <<CR, LF>>

IsWellFormed(message) == message.defect = "fine"

Body(message) == FlattenSeq(message.chunks)

StartLine(message) ==
    CASE message.defect = "empty"  -> <<>>
      [] message.defect = "short"  -> <<<<"one word", message.id>>>>
      [] message.defect = "status" -> <<<<"HTTP/1.1 no number", message.id>>>>
      [] OTHER                     -> <<<<"start", message.id>>>>

ContentLength(message) ==
    IF message.defect = "length" THEN <<"Content-Length", -1>>
    ELSE <<"Content-Length", Len(Body(message))>>

ChunkSize(message, n) ==
    IF message.defect = "size" THEN <<"hex", -1>> ELSE <<"hex", n>>

Header(message) ==
    CASE message.framing = "length"  -> <<ContentLength(message)>> \o CRLF
      [] message.framing = "chunked" -> <<<<"chunked", 0>>>> \o CRLF
      [] message.framing = "none"    -> <<>>

Chunk(message, chunk) ==
    <<ChunkSize(message, Len(chunk))>> \o CRLF \o chunk \o CRLF

(* The empty chunk is the last one.                                        *)
ChunksOnWire(message) ==
    LET all == Append(message.chunks, <<>>)
    IN  [i \in DOMAIN all |-> Chunk(message, all[i])]

Payload(message) ==
    CASE message.framing = "length"  -> Body(message)
      [] message.framing = "chunked" -> FlattenSeq(ChunksOnWire(message))
      [] message.framing = "none"    -> <<>>

(* The bytes of a message: header lines, an empty line, the body.          *)
Bytes ==
    [message \in Messages |->
        StartLine(message) \o CRLF \o Header(message) \o CRLF
          \o Payload(message)]

AllBytes(messages) ==
    FlattenSeq([i \in DOMAIN messages |-> Bytes[messages[i]]])

-----------------------------------------------------------------------------
(* Searching and cutting byte sequences.                                   *)

Occurrences(delimiter, buf) ==
    {i \in 1..(Len(buf) - Len(delimiter) + 1) :
        SubSeq(buf, i, i + Len(delimiter) - 1) = delimiter}

Found(delimiter, buf) == Occurrences(delimiter, buf) # {}

FirstOf(delimiter, buf) ==
    CHOOSE i \in Occurrences(delimiter, buf) :
        \A j \in Occurrences(delimiter, buf) : i <= j

(* read_until: the bytes before the delimiter, and what it leaves.         *)
Before(delimiter, buf) == SubSeq(buf, 1, FirstOf(delimiter, buf) - 1)
After(delimiter, buf) ==
    SubSeq(buf, FirstOf(delimiter, buf) + Len(delimiter), Len(buf))

Take(n, buf) == SubSeq(buf, 1, n)
Drop(n, buf) == SubSeq(buf, n + 1, Len(buf))

\* Slip: everything buffered is consumed with the bytes that were read.
consumeAll(n, buf) == <<>>

(* read(n): what m_Streambuf.consume(n) leaves.                            *)
consume(n, buf) == Drop(n, buf)

-----------------------------------------------------------------------------
(* asyncRead and its conditions.                                           *)

NoOp == [await |-> "nothing", n |-> 0, from |-> 0, done |-> "no"]
NoReply == [start |-> <<>>, body |-> <<>>]

\* Slip: the line end after a chunk is not waited for.
ConditionHoldsChunkOnly(await, n, bytes) ==
    CASE await = "headers" -> Found(CRLF \o CRLF, bytes)
      [] await = "body"    -> Len(bytes) >= n
      [] await = "size"    -> Found(CRLF, bytes)
      [] await = "chunk"   -> Len(bytes) >= n

\* Slip: > for >=.
ConditionHoldsBeyond(await, n, bytes) ==
    CASE await = "headers" -> Found(CRLF \o CRLF, bytes)
      [] await = "body"    -> Len(bytes) > n
      [] await = "size"    -> Found(CRLF, bytes)
      [] await = "chunk"   -> Len(bytes) >= n + 2

(* The condition of each read, over the bytes from the search position.    *)
ConditionHolds(await, n, bytes) ==
    CASE await = "headers" -> Found(CRLF \o CRLF, bytes)
      [] await = "body"    -> Len(bytes) >= n
      [] await = "size"    -> Found(CRLF, bytes)
      [] await = "chunk"   -> Len(bytes) >= n + 2

\* Slip: contains_t returns `end`, past the first half of a delimiter.
ResumeAtEnd(o, buf) == Len(buf)

(* Where the next search starts when the condition does not hold: every    *)
(* condition returns `begin`, so what was searched is searched again.      *)
ResumeAt(o, buf) == o.from

(* async_read_until: evaluate the condition on what is there, and either   *)
(* complete or go on reading.                                              *)
Search(o, buf) ==
    IF ConditionHolds(o.await, o.n, Drop(o.from, buf))
    THEN [o EXCEPT !.done = "matched"]
    ELSE [o EXCEPT !.from = ResumeAt(o, buf)]

asyncRead(await, n, buf) ==
    op' = Search([await |-> await, n |-> n, from |-> 0, done |-> "no"], buf)

(* A blocking read whose bytes are not in m_Streambuf: the thread waits    *)
(* for a handler of its own io_service.                                    *)
Block == op' = [op EXCEPT !.done = "blocked"]

Reading == op.await # "nothing" /\ op.done = "no"

-----------------------------------------------------------------------------
(* The network and the owner.                                              *)

Init ==
    /\ sent \in UNION {[1..k -> Messages] : k \in 1..MaxMessages}
    /\ written = 0
    /\ unsent = <<>>
    /\ overwritten = FALSE
    /\ wire = <<>>
    /\ lost = 0
    /\ peer = "open"
    /\ m_Streambuf = <<>>
    /\ op = NoOp
    /\ reply = NoReply
    /\ delivered = <<>>
    /\ failure = "none"

(* A record of the peer is on its way; `rest' is still in m_WriteBuffer.   *)
WriteRecord(rest) ==
    LET n == Min({RecordSize, Len(rest)})
    IN  /\ wire' = wire \o Take(n, rest)
        /\ unsent' = Drop(n, rest)

(* asyncWrite of the peer.  It moves the message to m_WriteBuffer, whatever *)
(* is there, and the stream takes the first record before it returns.  The *)
(* server does not always wait for a write to complete: what the earlier   *)
(* write sends then is undefined.                                          *)
asyncWrite ==
    /\ peer = "open" /\ written < Len(sent)
    /\ \/ /\ unsent # <<>>
          /\ overwritten' = TRUE
          /\ UNCHANGED <<written, unsent, wire>>
       \/ /\ unsent = <<>>
          /\ WriteRecord(Bytes[sent[written + 1]])
          /\ written' = written + 1
          /\ UNCHANGED overwritten
    /\ UNCHANGED <<sent, lost, peer, m_Streambuf, op, reply, delivered, failure>>

(* boost::asio::async_write goes on until the whole buffer is taken.       *)
writeSome ==
    /\ peer = "open" /\ unsent # <<>>
    /\ WriteRecord(unsent)
    /\ UNCHANGED <<sent, written, overwritten, lost, peer, m_Streambuf, op, reply,
                   delivered, failure>>

(* read_some of the read in progress returns k bytes.                      *)
Receive(k) ==
    /\ Reading
    /\ k \in 1..Len(wire)
    /\ m_Streambuf' = m_Streambuf \o Take(k, wire)
    /\ wire' = Drop(k, wire)
    /\ op' = Search(op, m_Streambuf')
    /\ UNCHANGED <<writeVars, lost, peer, reply, delivered, failure>>

(* The peer is gone and every byte it left behind has been received.       *)
ReceiveEof ==
    /\ Reading
    /\ peer = "closed"
    /\ wire = <<>>
    /\ op' = [op EXCEPT !.done = "eof"]
    /\ UNCHANGED <<netVars, m_Streambuf, reply, delivered, failure>>

Unwritten == unsent \o AllBytes(SubSeq(sent, written + 1, Len(sent)))

(* The peer closes or dies; the last k of its bytes never arrive.          *)
PeerCloses(k) ==
    /\ peer = "open"
    /\ k \in 0..Len(wire)
    /\ peer' = "closed"
    /\ lost' = Len(Unwritten) + k
    /\ wire' = Take(Len(wire) - k, wire)
    /\ UNCHANGED <<writeVars, m_Streambuf, op, reply, delivered, failure>>

(* The owner calls cancel() or close() while a read is in progress.        *)
Cancel ==
    /\ Reading
    /\ op' = [op EXCEPT !.done = "aborted"]
    /\ UNCHANGED <<netVars, m_Streambuf, reply, delivered, failure>>

(* The owner asks for the next message.                                    *)
asyncResponse ==
    /\ op.await = "nothing"
    /\ failure = "none"
    /\ asyncRead("headers", 0, m_Streambuf)
    /\ reply' = NoReply
    /\ UNCHANGED <<netVars, m_Streambuf, delivered, failure>>

-----------------------------------------------------------------------------
(* The handlers of the completed reads.                                    *)

(* handler(ConnectionError(why), reply)                                    *)
Fail(why) ==
    /\ failure' = why
    /\ op' = NoOp
    /\ UNCHANGED <<reply, delivered>>

(* processReply: handler(no error, r)                                      *)
processReply(r) ==
    /\ delivered' = Append(delivered, r)
    /\ op' = NoOp
    /\ reply' = r
    /\ UNCHANGED failure

Completed(await) == op.await = await /\ op.done \notin {"no", "blocked"}

(* Every handler begins by passing an error of the read on.                *)
ReadError ==
    /\ op.done \in {"eof", "aborted"}
    /\ Fail(op.done)
    /\ UNCHANGED <<netVars, m_Streambuf>>

(* The first part of split(reply._headers, "\r\n").                       *)
FirstLine(head) == Before(CRLF, head \o CRLF)

BadStartLine(line) ==
    line = <<>> \/ line[1][1] \in {"one word", "HTTP/1.1 no number"}

(* reply._parsedHeaders                                                    *)
Headers(head, name) == {b \in Range(head) : b[1] = name}

\* Slip: the exception of stoul is not caught.
LengthRejectedNever(lengths) == FALSE

(* stoul throws on the value of Content-Length.                            *)
LengthRejected(lengths) == \E header \in lengths : header[2] < 0

(* What follows the headers, once they are consumed.                       *)
AfterHeaders(head, rest) ==
    LET r == [start |-> FirstLine(head)[1], body |-> <<>>]
        lengths == Headers(head, "Content-Length")
    IN  \/ /\ LengthRejected(lengths)
           /\ Fail("protocol")
        \/ /\ ~LengthRejected(lengths)
           /\ \E header \in lengths : asyncRead("body", header[2], rest)
           /\ reply' = r
           /\ UNCHANGED <<delivered, failure>>
        \/ /\ lengths = {}
           /\ Headers(head, "chunked") # {}
           /\ asyncRead("size", 0, rest)
           /\ reply' = r
           /\ UNCHANGED <<delivered, failure>>
        \/ /\ lengths = {}
           /\ Headers(head, "chunked") = {}
           /\ processReply(r)

handleHeaders ==
    /\ Completed("headers")
    /\ op.done = "matched"
    /\ IF ~Found(CRLF \o CRLF, m_Streambuf)
       THEN Block /\ UNCHANGED <<m_Streambuf, reply, delivered, failure>>
       ELSE \E head \in {Before(CRLF \o CRLF, m_Streambuf)},
               rest \in {After(CRLF \o CRLF, m_Streambuf)} :
                /\ m_Streambuf' = rest
                /\ IF BadStartLine(FirstLine(head)) THEN Fail("protocol")
                   ELSE AfterHeaders(head, rest)
    /\ UNCHANGED netVars

(* The handler of the read of a Content-Length body.                       *)
handleBody ==
    /\ Completed("body")
    /\ op.done = "matched"
    /\ IF Len(m_Streambuf) < op.n
       THEN Block /\ UNCHANGED <<m_Streambuf, reply, delivered, failure>>
       ELSE /\ m_Streambuf' = consume(op.n, m_Streambuf)
            /\ processReply([reply EXCEPT !.body = Take(op.n, m_Streambuf)])
    /\ UNCHANGED netVars

startProcessChunk ==
    /\ Completed("size")
    /\ op.done = "matched"
    /\ IF ~Found(CRLF, m_Streambuf)
       THEN Block /\ UNCHANGED <<m_Streambuf, reply, delivered, failure>>
       ELSE LET line == Before(CRLF, m_Streambuf)
                rest == After(CRLF, m_Streambuf)
                parsed == Len(line) = 1 /\ line[1][1] = "hex" /\ line[1][2] >= 0
            IN  /\ m_Streambuf' = rest
                /\ \/ ~parsed /\ Fail("protocol")
                   \/ /\ parsed
                      /\ asyncRead("chunk", line[1][2], rest)
                      /\ UNCHANGED <<reply, delivered, failure>>
    /\ UNCHANGED netVars

\* Slip: the line end is left in the body.
ChunkBodyWhole(n, buf) == Take(n + 2, buf)

(* response().substr(0, chunk_size)                                        *)
ChunkBody(n, buf) == Take(n, buf)

(* The chunk and the CR LF behind it; an empty chunk is the last one.      *)
processChunk ==
    /\ Completed("chunk")
    /\ op.done = "matched"
    /\ IF Len(m_Streambuf) < op.n + 2
       THEN Block /\ UNCHANGED <<m_Streambuf, reply, delivered, failure>>
       ELSE LET r == [reply EXCEPT !.body = @ \o ChunkBody(op.n, m_Streambuf)]
                rest == consume(op.n + 2, m_Streambuf)
            IN  /\ m_Streambuf' = rest
                /\ \/ op.n = 0 /\ processReply(r)
                   \/ /\ op.n # 0
                      /\ asyncRead("size", 0, rest)
                      /\ reply' = r
                      /\ UNCHANGED <<delivered, failure>>
    /\ UNCHANGED netVars

Handlers ==
    ReadError \/ handleHeaders \/ handleBody \/ startProcessChunk \/ processChunk

Next ==
    /\ ~overwritten
    /\ \/ asyncWrite
       \/ writeSome
       \/ asyncResponse
       \/ \E k \in 1..Len(wire) : Receive(k)
       \/ ReceiveEof
       \/ \E k \in 0..Len(wire) : PeerCloses(k)
       \/ Cancel
       \/ Handlers

Spec == Init /\ [][Next]_httpVars

(* The peer writes its messages, the network delivers what was written or  *)
(* reports the end, the io thread runs the completed handlers, and the     *)
(* owner reads on after each message, as ApiClient::readLoop and           *)
(* Client::onHttpIdleRead do.  The peer need not close and the owner need  *)
(* not cancel.                                                             *)
Fairness ==
    /\ WF_httpVars(~overwritten /\ (asyncWrite \/ writeSome))
    /\ WF_httpVars(~overwritten /\ asyncResponse)
    /\ WF_httpVars(~overwritten /\ \E k \in 1..Len(wire) : Receive(k))
    /\ WF_httpVars(~overwritten /\ ReceiveEof)
    /\ WF_httpVars(~overwritten /\ Handlers)

FairSpec == Spec /\ Fairness

-----------------------------------------------------------------------------
(* Properties.                                                             *)

HttpTypeOK ==
    /\ sent \in Seq(Messages)
    /\ written \in 0..Len(sent)
    /\ lost \in Nat
    /\ peer \in {"open", "closed"}
    /\ op.await \in {"nothing", "headers", "body", "size", "chunk"}
    /\ op.done \in {"no", "matched", "eof", "aborted", "blocked"}
    /\ op.n \in Nat
    /\ op.from \in 0..Len(m_Streambuf)
    /\ failure \in {"none", "protocol", "eof", "aborted"}

(* The blocking read and read_until never have to wait: the condition of   *)
(* the asynchronous read before them covers what they take.  One that      *)
(* waited would stop every connection of the io thread.                    *)
NeverBlocks == op.done # "blocked"

(* The reply a message becomes.                                            *)
Reply(message) ==
    [start |-> <<"start", message.id>>, body |-> Body(message)]

(* Between two messages the stream stands exactly at the start of the next *)
(* one: nothing of it was swallowed with the last, and nothing was left.   *)
Aligned ==
    failure = "none" /\ op.await = "nothing" =>
        LET rest == SubSeq(sent, Len(delivered) + 1, Len(sent))
            unread == m_Streambuf \o wire \o IF lost = 0 THEN Unwritten ELSE <<>>
        IN  /\ Len(unread) = Len(AllBytes(rest)) - lost
            /\ unread = Take(Len(unread), AllBytes(rest))

(* The end of the stream is reported after every message that arrived      *)
(* whole, even when it arrived together with the end.                      *)
Arrived ==
    {n \in 0..Len(sent) :
        Len(AllBytes(SubSeq(sent, 1, n))) <= Len(AllBytes(sent)) - lost}
EofComesLast ==
    failure = "eof" => \A n \in Arrived : n <= Len(delivered)

(* Every message a peer writes reaches the owner, unless an error did; also *)
(* when writes overlap, so long as they do not overwrite one another.      *)
EveryMessageArrives ==
    <>(Len(delivered) = Len(sent) \/ failure # "none" \/ overwritten)

(* The connection implements the stream of messages its owner relies on:   *)
(* one answer to each asyncResponse, the next message whole or an error.   *)
Meaning(message) == IF IsWellFormed(message) THEN Reply(message) ELSE NoReply

Stream == INSTANCE MessageStream WITH
    Message <- {Meaning(m) : m \in Messages},
    Malformed <- NoReply,
    sent <- [i \in DOMAIN sent |-> Meaning(sent[i])],
    asked <- op.await # "nothing"

ImplementsStream == Stream!Spec
=============================================================================
