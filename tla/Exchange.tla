------------------------------- MODULE Exchange -------------------------------
(***************************************************************************)
(* Requests and their answers, byte by byte, between the browser           *)
(* (src/Client.cpp, src/Rio.cpp, src/Url.cpp) and the guest book server    *)
(* (Server/riolib.cpp, Server/server.cpp).  A request begins with a URL    *)
(* object, whose own Client opens a TLS connection to a host that has      *)
(* nothing to do with it.  Then a name is resolved, its addresses are      *)
(* tried in turn, and the request goes, over plain HTTP, to the first      *)
(* socket that connects; then comes the next one.  getaddrinfo is given no *)
(* hints: an address has three entries, for a stream, for datagrams and    *)
(* for raw messages, and a message socket connects to a port where nobody  *)
(* listens.  The kernel writes and reads as many bytes of a stream as it   *)
(* likes at a time; the loops around write and read make up for that.  A   *)
(* call interrupted by a signal is tried again and leaves no trace.        *)
(*                                                                         *)
(* The bytes of the request are the numbers 1..RequestLen: a line of       *)
(* LineLen bytes, headers up to the blank line's last byte HeadLen, the    *)
(* body.  Of the answer only the length matters.                           *)
(***************************************************************************)
EXTENDS Naturals, Sequences, FiniteSetsExt

CONSTANTS LineLen, HeadLen, BodyLen, AnswerLen,
          BufSize,     \* RIO_BUFSIZE
          ChunkSize,   \* the client's read size
          PipeSize,    \* what the kernel holds in each direction
          MaxAddresses, Descriptors,   \* of a name, of the browser's process
          MaxRequests  \* bound

ASSUME LengthsAssumption ==
  /\ {LineLen, HeadLen, BodyLen, AnswerLen, BufSize, ChunkSize, PipeSize} \subseteq Nat \ {0}
  /\ {MaxAddresses, Descriptors, MaxRequests} \subseteq Nat \ {0}
  /\ LineLen < HeadLen

VARIABLES
  client,    \* "opening" (TLS, for a URL), "asking" (for the addresses), "connecting",
             \* "writing", "reading", "got" (a response), "failed" or "gone"
  left,      \* entries of getaddrinfo's list not tried yet
  fd,        \* client_fd: "none" (-1), "stream", "message" or "closed" (a number
             \* that is no longer a socket)
  own, urls, \* the request's URL, and how many of those kept, hold a TLS socket
  plain,     \* plain sockets the browser has open
  begun, served,   \* requests, and those that got as far as a response (history)
  sent,      \* bytes of the request written
  taken,     \* bytes of the answer read
  chunk,     \* those of them in http_readn's unfinished chunk
  answer,    \* those of them appended to the response
  server,    \* "line", "headers", "body", "answering", "closed", "hung" or "exited"
  fetched,   \* bytes of the request read into the buffer so far
  buffer, bufptr, cnt,   \* rio_buffer, rio_bufptr, rio_cnt
  head,      \* bytes rio_readlineb has returned
  body,      \* rio_readnp's user buffer; 0 where nothing was written
  got,       \* n - nleft in rio_readnp
  pieces,    \* calls of rio_read it took
  replied,   \* bytes of the answer written
  reset      \* the server's end was torn down, not closed

sockets == <<left, fd, own, urls, plain, begun, served>>
ioVars == <<sent, taken, chunk, answer>>
clientVars == <<client, sockets, ioVars>>
rioVars == <<fetched, buffer, bufptr, cnt>>
serverVars == <<server, rioVars, head, body, got, pieces, replied, reset>>
exchangeVars == <<clientVars, serverVars>>

RequestLen == HeadLen + BodyLen

ExchangeInit ==
  /\ client = "opening" /\ sent = 0 /\ taken = 0 /\ chunk = 0 /\ answer = 0
  /\ left = 0 /\ fd = "none" /\ begun = 1 /\ served = 0
  /\ own = FALSE /\ urls = 0 /\ plain = 0
  /\ server = "line" /\ fetched = 0
  /\ buffer = [i \in 0..(BufSize - 1) |-> 0] /\ bufptr = 0 /\ cnt = 0
  /\ head = <<>> /\ body = [i \in 0..(BodyLen - 1) |-> 0]
  /\ got = 0 /\ pieces = 0 /\ replied = 0 /\ reset = FALSE

Running == server \notin {"closed", "exited"}

-----------------------------------------------------------------------------
(* The browser *)

\* Descriptors of sockets that are in use.
Held == plain + urls + (IF own THEN 1 ELSE 0)

\* A URL is constructed, and with it a Client for www.google.com: it throws and
\* lets go of what it had, or has a TLS socket.
Construct ==
  /\ client = "opening"
  /\ \/ client' = "failed" /\ UNCHANGED own
     \/ Held < Descriptors /\ own' = TRUE /\ client' = "asking"
  /\ UNCHANGED <<left, fd, urls, plain, begun, served, ioVars, serverVars>>

\* getaddrinfo: throws, or has at least one address, three times.
Resolve ==
  /\ client = "asking"
  /\ \/ client' = "failed" /\ UNCHANGED left
     \/ client' = "connecting" /\ left' \in {3 * n : n \in 1..MaxAddresses}
  /\ UNCHANGED <<fd, own, urls, plain, begun, served, ioVars, serverVars>>

Entry == IF left % 3 = 0 THEN "stream" ELSE "message"

\* There is a socket and it connects: a stream to a server that is up, messages to
\* anyone.  The new Client is assigned to the URL's, whose TLS socket is closed.
Connected ==
  /\ Held < Descriptors /\ (Entry = "stream" => Running)
  /\ fd' = Entry /\ plain' = plain + 1 /\ left' = 0
  /\ own' = FALSE /\ client' = "writing"

BugTryAddress ==
  /\ client = "connecting" /\ left > 0
  /\ \/ /\ fd' = "none" /\ left' = left - 1
        /\ UNCHANGED <<client, own, plain>>
     \/ /\ Held < Descriptors /\ fd' = "closed" /\ left' = left - 1 /\ plain' = plain + 1
        /\ UNCHANGED <<client, own>>
     \/ Connected
  /\ UNCHANGED <<urls, begun, served, ioVars, serverVars>>

\* One turn of open_clientfd's loop: there is no socket to be had, or connect
\* fails and it is closed, or the loop ends.
TryAddress ==
  /\ client = "connecting" /\ left > 0
  /\ \/ /\ fd' = "none" /\ left' = left - 1
        /\ UNCHANGED <<client, own, plain>>
     \/ /\ Held < Descriptors /\ fd' = "closed" /\ left' = left - 1
        /\ UNCHANGED <<client, own, plain>>
     \/ Connected
  /\ UNCHANGED <<urls, begun, served, ioVars, serverVars>>

\* After the last entry client_fd is looked at, and is not reset by close: a
\* socket that was closed passes for one that is connected.  If none is to be had
\* the constructor throws, and the URL keeps its first Client.
NoneConnected ==
  /\ client = "connecting" /\ left = 0
  /\ IF fd = "none" THEN client' = "failed" /\ UNCHANGED own
     ELSE client' = "writing" /\ own' = FALSE
  /\ UNCHANGED <<left, fd, urls, plain, begun, served, ioVars, serverVars>>

\* http_writen: one call of write.
Write ==
  /\ client = "writing" /\ fd = "stream" /\ Running
  /\ \E k \in 1..(RequestLen - sent) :
       /\ sent + k - fetched <= PipeSize
       /\ sent' = sent + k
       /\ client' = IF sent' = RequestLen THEN "reading" ELSE client
  /\ UNCHANGED <<sockets, taken, chunk, answer, serverVars>>

\* A message is written at once, to nobody.
WriteMessage ==
  /\ client = "writing" /\ fd = "message"
  /\ client' = "reading"
  /\ UNCHANGED <<sockets, ioVars, serverVars>>

\* The server is gone or never was there, or the message is too long: URL::request
\* throws.
WriteFails ==
  /\ client = "writing" /\ (~Running \/ fd # "stream")
  /\ client' = "failed"
  /\ UNCHANGED <<sockets, ioVars, serverVars>>

\* http_readn: one call of read; a full chunk is appended to the response.
Read ==
  /\ client = "reading" /\ fd = "stream"
  /\ \E k \in 1..(ChunkSize - chunk) :
       /\ taken + k <= replied
       /\ taken' = taken + k
       /\ IF chunk + k = ChunkSize
          THEN chunk' = 0 /\ answer' = answer + ChunkSize
          ELSE chunk' = chunk + k /\ UNCHANGED answer
  /\ UNCHANGED <<client, sockets, sent, serverVars>>

BugShortChunkDropped ==
  /\ client = "reading" /\ fd = "stream" /\ ~Running /\ ~reset /\ taken = replied
  /\ client' = "got" /\ served' = served + 1
  /\ UNCHANGED <<left, fd, own, urls, plain, begun, ioVars, serverVars>>

\* At the end of the stream the last, short chunk counts too.
ReadEnd ==
  /\ client = "reading" /\ fd = "stream" /\ ~Running /\ ~reset /\ taken = replied
  /\ client' = "got" /\ served' = served + 1
  /\ answer' = answer + chunk /\ chunk' = 0
  /\ UNCHANGED <<left, fd, own, urls, plain, begun, sent, taken, serverVars>>

\* A failing read returns -1: get_http_response stops, the chunk is lost, and the
\* response is taken for what has been appended.
ReadFails ==
  /\ client = "reading" /\ fd = "stream" /\ reset
  /\ client' = "got" /\ served' = served + 1
  /\ UNCHANGED <<left, fd, own, urls, plain, begun, ioVars, serverVars>>

\* Word may come that the message reached nobody: then read fails, and the response
\* is empty.  Otherwise it waits.
Refused ==
  /\ client = "reading" /\ fd = "message"
  /\ client' = "got" /\ served' = served + 1
  /\ UNCHANGED <<left, fd, own, urls, plain, begun, ioVars, serverVars>>

ClientDies ==
  /\ client \in {"opening", "asking", "connecting", "writing", "reading"}
  /\ client' = "gone"
  /\ UNCHANGED <<sockets, ioVars, serverVars>>

\* The next request has a URL of its own.  The old one is kept by the history or
\* goes, as those kept may, and a TLS socket goes with it; that a Client goes, or is
\* assigned to, closes no plain socket.  The server waits for connections again, if
\* need be after a restart.
Again ==
  /\ client \in {"got", "failed"} /\ (~Running \/ fd # "stream")
  /\ begun < MaxRequests
  /\ urls' \in 0..(Held - plain) /\ own' = FALSE
  /\ client' = "opening" /\ sent' = 0 /\ taken' = 0 /\ chunk' = 0 /\ answer' = 0
  /\ left' = 0 /\ fd' = "none" /\ begun' = begun + 1
  /\ server' = "line" /\ fetched' = 0
  /\ buffer' = [i \in 0..(BufSize - 1) |-> 0] /\ bufptr' = 0 /\ cnt' = 0
  /\ head' = <<>> /\ body' = [i \in 0..(BodyLen - 1) |-> 0]
  /\ got' = 0 /\ pieces' = 0 /\ replied' = 0 /\ reset' = FALSE
  /\ UNCHANGED <<plain, served>>

-----------------------------------------------------------------------------
(* The server *)

BugBodyLeft == BodyLen + 1 - got

BodyLeft == BodyLen - got

Wants == server \in {"line", "headers"} \/ (server = "body" /\ BodyLeft > 0)

BugFillKeepsPointer ==
  /\ Wants /\ cnt = 0
  /\ \E k \in 1..Min({BufSize, sent - fetched}) :
       /\ buffer' = [i \in DOMAIN buffer |-> IF i < k THEN fetched + i + 1 ELSE buffer[i]]
       /\ cnt' = k /\ fetched' = fetched + k
  /\ UNCHANGED <<clientVars, server, bufptr, head, body, got, pieces, replied, reset>>

\* rio_read, its buffer empty: one call of read.
Fill ==
  /\ Wants /\ cnt = 0
  /\ \E k \in 1..Min({BufSize, sent - fetched}) :
       /\ buffer' = [i \in DOMAIN buffer |-> IF i < k THEN fetched + i + 1 ELSE buffer[i]]
       /\ bufptr' = 0 /\ cnt' = k /\ fetched' = fetched + k
  /\ UNCHANGED <<clientVars, server, head, body, got, pieces, replied, reset>>

\* rio_readlineb, byte by byte; the line that is blank ends the headers.
TakeByte ==
  /\ server \in {"line", "headers"} /\ cnt > 0
  /\ LET c == buffer[bufptr] IN
       /\ head' = Append(head, c)
       /\ server' = CASE c = LineLen -> "headers"
                      [] c = HeadLen -> "body"
                      [] OTHER -> server
  /\ bufptr' = bufptr + 1 /\ cnt' = cnt - 1
  /\ UNCHANGED <<clientVars, fetched, buffer, body, got, pieces, replied, reset>>

BugCopyFromStart(c) == [i \in DOMAIN body |-> IF i < c THEN buffer[i] ELSE body[i]]

\* std::copy_n of c bytes from the buffer to what rio_readnp passes: its caller's
\* buffer, every time from the start of it.
Copied(c) == [i \in DOMAIN body |-> IF i < c THEN buffer[bufptr + i] ELSE body[i]]

\* rio_readnp: one call of rio_read.
TakeBody ==
  /\ server = "body" /\ BodyLeft > 0 /\ cnt > 0
  /\ LET c == Min({cnt, BodyLeft}) IN
       /\ body' = Copied(c)
       /\ got' = got + c /\ bufptr' = bufptr + c /\ cnt' = cnt - c
  /\ pieces' = pieces + 1
  /\ UNCHANGED <<clientVars, server, fetched, buffer, head, replied, reset>>

BodyRead ==
  /\ server = "body" /\ BodyLeft = 0
  /\ server' = "answering"
  /\ UNCHANGED <<clientVars, rioVars, head, body, got, pieces, replied, reset>>

\* The browser is gone with its request unfinished: half a request line fails an
\* assertion or passes for a whole one, headers are read for ever, a short body
\* ends the process.
EndOfRequest ==
  /\ Wants /\ cnt = 0 /\ sent = fetched /\ client = "gone" /\ fd = "stream"
  /\ \/ server' = "exited" /\ server # "headers"
     \/ server' = "hung" /\ server # "body"
  /\ UNCHANGED <<clientVars, rioVars, head, body, got, pieces, replied, reset>>

\* rio_writen: one call of write.
Answer ==
  /\ server = "answering"
  /\ \E k \in 1..(AnswerLen - replied) :
       /\ replied + k - taken <= PipeSize
       /\ replied' = replied + k
  /\ UNCHANGED <<clientVars, server, rioVars, head, body, got, pieces, reset>>

\* rio_writen fails, and main exits.
AnswerFails ==
  /\ server = "answering" /\ client = "gone" /\ replied < AnswerLen
  /\ server' = "exited"
  /\ UNCHANGED <<clientVars, rioVars, head, body, got, pieces, replied, reset>>

\* main closes the connection.
Close ==
  /\ server = "answering" /\ replied = AnswerLen
  /\ server' = "closed"
  /\ UNCHANGED <<clientVars, rioVars, head, body, got, pieces, replied, reset>>

\* The process is killed; unread bytes turn the end of the stream into an error.
ServerDies ==
  /\ Running
  /\ server' = "exited" /\ reset' \in BOOLEAN
  /\ UNCHANGED <<clientVars, rioVars, head, body, got, pieces, replied>>

Browse ==
  \/ Resolve \/ TryAddress \/ NoneConnected
  \/ Write \/ WriteMessage \/ WriteFails \/ Read \/ ReadEnd \/ ReadFails

Serve ==
  Fill \/ TakeByte \/ TakeBody \/ BodyRead \/ EndOfRequest \/ Answer \/ AnswerFails \/ Close

ExchangeNext ==
  Construct \/ Browse \/ Refused \/ Serve \/ ClientDies \/ ServerDies \/ Again

ExchangeSpec == ExchangeInit /\ [][ExchangeNext]_exchangeVars

\* Both processes are scheduled and TCP delivers what was written.  Nothing is
\* promised of the host every URL connects to, or of word about a message.
ExchangeFairSpec == ExchangeSpec /\ WF_exchangeVars(Browse) /\ WF_exchangeVars(Serve)

-----------------------------------------------------------------------------
(* Properties *)

BodyIs(b) == b = [i \in DOMAIN b |-> HeadLen + i + 1]

\* However the kernel cuts the request up, the server reads what was sent: lines
\* byte after byte, each once, and a body that rio_read has in its buffer in one
\* piece.
ReadAsSent ==
  /\ head = [i \in 1..Len(head) |-> i]
  /\ server = "answering" /\ pieces = 1 => BodyIs(body)

\* What rio_readnp is documented to do: the bytes it returns the number of have
\* been read into the user's buffer.
BodyIntact == server = "answering" => BodyIs(body)

\* An answer of a server that closed in order is read to its last byte: short
\* writes, short reads and chunk borders lose nothing.
AnswerWhole == client = "got" /\ server = "closed" => answer = AnswerLen

\* The browser is blocked in its one thread for as long as a request takes.  Once
\* there is a URL it comes back, even from a server that dies, unless it waits for an
\* answer to a message: the one place where a request may stay for ever.
BrowserReturns ==
  client \in {"asking", "connecting", "writing", "reading"}
    ~> \/ client \in {"got", "failed", "gone"}
       \/ client = "reading" /\ fd = "message"

\* However many entries are tried, a request leaves one plain socket open at most,
\* and since nothing closes it, every request that got a response has left one.  So
\* requests run out of descriptors, and one sooner than there are descriptors: while
\* a URL connects it still has its TLS socket.
DescriptorsExplained ==
  /\ served <= plain /\ plain <= begun
  /\ plain < Descriptors /\ Held <= Descriptors
=============================================================================
