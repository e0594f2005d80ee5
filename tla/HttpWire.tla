------------------------------ MODULE HttpWire ------------------------------
(***************************************************************************)
(* HTTP messages on a connection: what the reader of                       *)
(* stdlib/src/net/Http.hao makes of a byte stream that arrives in pieces.  *)
(* As a server it answers requests that may be sent one behind the other   *)
(* (HttpServer.serveChannel); as a client it reads one response            *)
(* (Http.request).                                                         *)
(*                                                                         *)
(* The stream is a sequence of tokens: a head with the empty line that     *)
(* ends it, a line with the size of a chunk, a trailer line, the line end  *)
(* "nl", a byte of a body.  A token that arrived in part makes the reader  *)
(* wait as if it had not arrived, so pieces are cut between tokens.        *)
(***************************************************************************)
EXTENDS Integers, Sequences, FiniteSets, SequencesExt

CONSTANTS
    Requests,   \* sequences of messages a client sends
    Responses,  \* messages a server answers with
    Want,       \* 4096: how much one recv asks for
    Limit,      \* Http.maxBytesLimit
    TornEnd     \* may a piece end behind the last chunk, before the last line end?

VARIABLES
    role, sent,     \* "server" or "client"; the messages the peer sends
    wire,           \* what was sent and not received
    inbound,        \* ByteBuf
    exact,          \* recvExact: what it has; its caller waits while it is not complete
    pc,             \* "read", "exact", "done"
    sawEof,
    got,            \* the messages parsed
    cut             \* the reader gave up before the end of what was sent
vars == <<role, sent, wire, inbound, exact, pc, sawEof, got, cut>>

---------------------------------------------------------------------------
(* Messages: [id, framing, sizes, last].  framing is "none" (no body, or   *)
(* up to the end of the connection), "length" or "chunked"; sizes are the  *)
(* chunks, or the one length; last: the request says Connection: close.    *)

Total(m) == FoldLeft(LAMBDA a, b : a + b, 0, m.sizes)
Body(m) == [i \in 1 .. Total(m) |-> [t |-> "byte", id |-> m.id, i |-> i]]
Nl == [t |-> "nl"]
Size(n) == [t |-> "size", n |-> n]
Trailer == [t |-> "line"]

(* encodeChunkedBody, and the chunks of any other sender.                  *)
Chunked(m) ==
    LET chunk(i) == LET from == FoldLeft(LAMBDA a, b : a + b, 0, SubSeq(m.sizes, 1, i - 1))
                    IN <<Size(m.sizes[i])>> \o SubSeq(Body(m), from + 1, from + m.sizes[i]) \o <<Nl>>
    IN FlattenSeq([i \in DOMAIN m.sizes |-> chunk(i)]) \o <<Size(0)>>
       \o (IF m.trailer THEN <<Trailer>> ELSE <<>>) \o <<Nl>>
Encoded(m) ==
    <<[t |-> "head", m |-> m]>> \o IF m.framing = "chunked" THEN Chunked(m) ELSE Body(m)

---------------------------------------------------------------------------
(* Finding the end of a message.                                           *)

Smaller(a, b) == IF a < b THEN a ELSE b
From(s, n) == SubSeq(s, n + 1, Len(s))
Heads(s) == {i \in DOMAIN s : s[i].t = "head"}
HeadEnd(s) == CHOOSE i \in Heads(s) : \A j \in Heads(s) : i <= j    \* sep + 4
HeadOf(s) == s[HeadEnd(s)].m
\* The body by Content-Length, within the limit.
Need(s) == Smaller(HeadOf(s).sizes[1], Limit - HeadEnd(s))

RECURSIVE TrailersEnd(_, _), chunkedBodyEnd(_, _), decodeChunkedBody(_)
TrailersEnd(s, pos) ==
    IF pos >= Len(s) THEN pos
    ELSE IF s[pos + 1].t = "nl" THEN pos + 1 ELSE TrailersEnd(s, pos + 1)
chunkedBodyEnd(s, pos) ==
    IF pos >= Len(s) \/ s[pos + 1].t # "size" THEN -1
    ELSE LET sz == s[pos + 1].n
         IN IF sz = 0 THEN TrailersEnd(s, pos + 1)
            ELSE IF pos + sz + 2 > Len(s) THEN -1 ELSE chunkedBodyEnd(s, pos + sz + 2)
decodeChunkedBody(s) ==
    IF s = <<>> \/ s[1].t # "size" THEN <<>>
    ELSE LET sz == s[1].n
         IN IF sz = 0 \/ sz + 2 > Len(s) THEN <<>>
            ELSE SubSeq(s, 2, sz + 1) \o decodeChunkedBody(From(s, sz + 2))

completeMessageLen(s, readToClose, eof) ==
    LET h == HeadEnd(s)
        end == chunkedBodyEnd(From(s, h), 0)
    IN IF Heads(s) = {} THEN (IF eof /\ readToClose /\ s # <<>> THEN Len(s) ELSE -1)
       ELSE CASE HeadOf(s).framing = "length" -> IF Len(s) >= h + Need(s) THEN h + Need(s) ELSE -1
              [] HeadOf(s).framing = "chunked" -> IF end < 0 THEN -1 ELSE h + end
              [] ~readToClose -> h
              [] OTHER -> IF eof THEN Len(s) ELSE -1

(* parseRequest, parseResponse: the head is what stands before the empty   *)
(* line, be it a head or not.                                              *)
Parsed(s) ==
    IF Heads(s) = {} THEN [id |-> 0, body |-> <<>>]
    ELSE LET h == HeadEnd(s)
             body == From(s, h)
         IN [id |-> IF h = 1 THEN HeadOf(s).id ELSE 0,
             body |-> CASE HeadOf(s).framing = "length" ->
                             SubSeq(body, 1, Smaller(Len(body), HeadOf(s).sizes[1]))
                        [] HeadOf(s).framing = "chunked" -> decodeChunkedBody(body)
                        [] OTHER -> body]

---------------------------------------------------------------------------
(* readOneMessage and its callers.                                         *)

ToClose == role = "client"
Complete == completeMessageLen(inbound, ToClose, sawEof)

(* Mutant: what was read behind a message is not kept.                     *)
NothingLeft(s, n) == <<>>
(* ByteBuf.readBytes and discardReadBytes.                                 *)
Left(s, n) == From(s, n)

(* The message is handed on; the server answers it and reads the next one, *)
(* the client closes.                                                      *)
Deliver(n) ==
    LET msg == SubSeq(inbound, 1, n)
    IN /\ got' = Append(got, Parsed(msg))
       /\ inbound' = Left(inbound, n)
       /\ sawEof' = FALSE
       /\ pc' = IF role = "client" \/ (Heads(msg) # {} /\ HeadOf(msg).last) THEN "done" ELSE "read"
       /\ UNCHANGED <<role, sent, wire, exact, cut>>

TakeMessage == pc = "read" /\ Complete >= 0 /\ Deliver(Complete)

(* The limit is reached, or the connection over and the client content     *)
(* with what there is.                                                     *)
TakeAll ==
    /\ pc = "read" /\ Complete < 0 /\ inbound # <<>>
    /\ IF sawEof THEN ToClose ELSE Len(inbound) >= Limit
    /\ Deliver(Len(inbound))

(* "": serveChannel closes the connection.                                 *)
GiveUp ==
    /\ pc = "read" /\ Complete < 0 /\ sawEof /\ (inbound = <<>> \/ ~ToClose)
    /\ pc' = "done" /\ inbound' = <<>>
    /\ UNCHANGED <<role, sent, wire, exact, sawEof, got, cut>>

Reading == pc = "read" /\ Complete < 0 /\ ~sawEof /\ Len(inbound) < Limit
BodyMissing == Heads(inbound) # {} /\ HeadOf(inbound).framing = "length"

(* A piece of at most max.                                                 *)
Piece(max, k) ==
    /\ k <= Smaller(max, Len(wire))
    /\ TornEnd \/ k = Len(wire) \/ wire[k] \notin {Size(0), Trailer}
    /\ wire' = From(wire, k)

Recv ==
    /\ Reading /\ ~BodyMissing
    /\ \E k \in 1 .. Want :
           /\ Piece(Smaller(Want, Limit - Len(inbound)), k)
           /\ inbound' = inbound \o SubSeq(wire, 1, k)
    /\ UNCHANGED <<role, sent, exact, pc, sawEof, got, cut>>

RecvExact ==
    /\ Reading /\ BodyMissing /\ pc' = "exact"
    /\ UNCHANGED <<role, sent, wire, inbound, exact, sawEof, got, cut>>
RecvMore ==
    /\ pc = "exact"
    /\ LET missing == HeadEnd(inbound) + Need(inbound) - Len(inbound)
       IN \E k \in 1 .. missing :
              LET all == exact \o SubSeq(wire, 1, k)
              IN /\ Piece(missing - Len(exact), k)
                 /\ IF Len(all) < missing THEN exact' = all /\ UNCHANGED <<inbound, pc>>
                    ELSE exact' = <<>> /\ inbound' = inbound \o all /\ pc' = "read"
    /\ UNCHANGED <<role, sent, sawEof, got, cut>>

(* A recv ends without data: the peer closed, an error, the timeout.  What *)
(* recvExact had is gone.                                                  *)
RecvFails ==
    /\ pc = "exact" \/ Reading
    /\ sawEof' = TRUE /\ exact' = <<>> /\ pc' = "read"
    /\ cut' = (cut \/ wire # <<>>)
    /\ UNCHANGED <<role, sent, wire, inbound, got>>

Init ==
    /\ \/ role = "server" /\ sent \in Requests
       \/ role = "client" /\ \E m \in Responses : sent = <<m>>
    /\ wire = FlattenSeq([i \in DOMAIN sent |-> Encoded(sent[i])])
    /\ inbound = <<>> /\ exact = <<>> /\ pc = "read" /\ sawEof = FALSE
    /\ got = <<>> /\ cut = FALSE
Next == TakeMessage \/ TakeAll \/ GiveUp \/ Recv \/ RecvExact \/ RecvMore \/ RecvFails
Spec == Init /\ [][Next]_vars

---------------------------------------------------------------------------
(* Properties.                                                             *)

Whole(m) == [id |-> m.id, body |-> Body(m)]
Asked == LET ends == {i \in DOMAIN sent : sent[i].last}
         IN {i \in DOMAIN sent : \A j \in ends : i <= j}

(* However requests stick together and come apart on the way, the server   *)
(* handles the ones that were sent, whole and in order; and all of them,   *)
(* unless the connection broke.                                            *)
RequestsAsSent ==
    role = "server" =>
        /\ IsPrefix(got, [i \in Asked |-> Whole(sent[i])])
        /\ pc = "done" /\ ~cut => Len(got) = Cardinality(Asked)

(* A response comes whole, unless the connection broke.                    *)
ResponseWhole == role = "client" /\ pc = "done" /\ ~cut => got = <<Whole(sent[1])>>

(* Both: messages come out of the stream as they were put into it.         *)
MessagesAsSent == RequestsAsSent /\ ResponseWhole

(* ... and if it broke there is no response.                               *)
WholeOrNone == role = "client" /\ pc = "done" => got \in {<<>>, <<Whole(sent[1])>>}
=============================================================================
