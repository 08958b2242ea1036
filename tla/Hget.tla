-------------------------------- MODULE Hget --------------------------------
(***************************************************************************)
(* hget (board/hget/hget.c): one single-threaded GET over HTTP or HTTPS,   *)
(* with redirects, into a file or stdout.  The connect is HgetConnect, of  *)
(* which every hop of a redirect makes a new instance, one at a time.      *)
(*                                                                         *)
(* What a server sends is a sequence of units: those of the header, then   *)
(* the tokens of the body (a chunk-size line, a piece of data, or the line *)
(* end behind a chunk).  A read returns one or more of them, and the peer  *)
(* may stop anywhere: close, break off, or just fall silent.               *)
(***************************************************************************)
EXTENDS Integers, Sequences, FiniteSets

CONSTANTS
  MaxAddrs, Timeout, MaxResolved,   \* HgetConnect's
  MaxRedirects,  \* MAX_REDIRECTS
  HdrBuf,        \* units of response that fit hdrbuf
  IoBuf,         \* units of response that fit iobuf
  Options,       \* the command lines: what -k, -N, -c and -o come to
  Responses      \* what a server may answer

ASSUME ConnectAssumption ==
  MaxAddrs \in Nat \ {0} /\ Timeout \in Nat \ {0} /\ MaxResolved \in Nat

ASSUME HgetAssumption ==
  /\ MaxRedirects \in Nat /\ HdrBuf \in Nat \ {0} /\ IoBuf \in Nat \ {0}
  /\ Options \subseteq [insecure : BOOLEAN, ca : BOOLEAN, follow : BOOLEAN, toFile : BOOLEAN]
  /\ \A r \in Responses :
       /\ r.status \in {"ok", "redirect", "error", "garbage"}
       /\ r.location \in {"none", "http", "https", "relative"}
       /\ r.framing \in {"chunked", "length", "eof"}
       /\ r.head \in Nat \ {0}
       /\ r.body \in Seq([kind : {"size", "data", "eol"}, n : Nat])

VARIABLES
  cstep, resolved, isel, sock, blocking, pfd, revents, i, winner, deadline, polls,
  pc,       \* the step fetch is at
  opt,      \* the options
  depth,    \* redirects followed so far
  url,      \* the scheme of the URL being fetched
  authmode, \* the certificate check asked of TLS
  trusted,  \* external: whether this server's certificate is good
  peer,     \* external: what the server is doing
  resp,     \* external: what it answers
  got,      \* units of the answer received so far
  pos,      \* units of it parsed so far: what is between them is pending
  left,     \* remain of body_plain, chunk of body_chunked
  file,     \* the output file's old content is still there
  out,      \* the data written
  rc        \* the exit code

raceVars == <<cstep, resolved, isel, sock, blocking, pfd, revents, i, winner, deadline, polls>>
hopVars == <<opt, depth, url>>
tlsVars == <<authmode, trusted>>
inVars == <<got, pos, left>>
outVars == <<file, out>>

vars == <<raceVars, pc, hopVars, tlsVars, peer, resp, inVars, outVars, rc>>

Race == INSTANCE HgetConnect WITH
  MaxAddrs <- MaxAddrs, Timeout <- Timeout, MaxResolved <- MaxResolved,
  cstep <- cstep, resolved <- resolved, isel <- isel, sock <- sock,
  blocking <- blocking, pfd <- pfd, revents <- revents, i <- i,
  winner <- winner, deadline <- deadline, polls <- polls

----------------------------------------------------------------------------

NoResp == [status |-> "none", location |-> "none", framing |-> "eof", head |-> 0,
           body |-> <<>>]

Wire == resp.head + Len(resp.body)

Token(k) == resp.body[k - resp.head]

\* The n of each data token from place a to place b of the answer.
Data(a, b) == [k \in 1 .. b - a + 1 |-> Token(a + k - 1).n]

IsData(t) == t.kind = "data"

\* The places of the data in a body, and how many of them come up to place p.
DataPlaces(body) == {p \in DOMAIN body : IsData(body[p])}

DataUpTo(body, p) == Cardinality({q \in DataPlaces(body) : q <= p})

\* The data of a body, in its order and without the framing.
DataOf(body) ==
  [k \in 1 .. Cardinality(DataPlaces(body)) |->
     body[CHOOSE p \in DataPlaces(body) : DataUpTo(body, p) = k].n]

Payload == DataOf(resp.body)

SizePlaces(body) == {s \in DOMAIN body : body[s].kind = "size"}

\* What a server that frames its answers as it should does: in a chunked body the
\* data are what the sizes announce, none behind a size of 0; in any other all is.
Framed(r) ==
  IF r.framing = "chunked"
  THEN /\ \A p \in DOMAIN r.body :
            IsData(r.body[p]) <=> \E s \in SizePlaces(r.body) : s < p /\ p <= s + r.body[s].n
       /\ \A s \in SizePlaces(r.body), p \in DataPlaces(r.body) : r.body[s].n = 0 => p < s
  ELSE DataPlaces(r.body) = DOMAIN r.body

AnswersFramed == \A r \in Responses : Framed(r)

Least(a, b) == IF a < b THEN a ELSE b

\* What recv, or mbedtls_ssl_read over bio_recv, comes to: a count, 0 at the
\* end of the stream, -1 on error.  SO_RCVTIMEO makes a silent peer an error on
\* a plain connection; TLS calls it WANT_READ and the read is made again.
Reads(n) ==
  CASE peer = "talking" -> 1 .. Least(n, Wire - got)
    [] peer = "closed" -> {0}
    [] peer = "broken" -> {-1}
    [] peer = "silent" -> IF url = "https" THEN {} ELSE {-1}

\* conn_close
Shut ==
  /\ sock' = [a \in DOMAIN sock |-> IF a = winner THEN "none" ELSE sock[a]]
  /\ winner' = Race!NoFd /\ blocking' = {}
  /\ UNCHANGED <<cstep, resolved, isel, pfd, revents, i, deadline, polls>>

Exit(code) ==
  /\ pc' = "exit" /\ rc' = code
  /\ UNCHANGED <<hopVars, tlsVars, peer, resp, inVars, outVars>>

\* What it must not be: an error path that forgets the connection.
HangUpNot(code) == Exit(code) /\ UNCHANGED raceVars

HangUp(code) == Exit(code) /\ Shut

Goto(step) == pc' = step /\ UNCHANGED <<raceVars, rc>>

----------------------------------------------------------------------------
(* Connecting.                                                             *)

\* What it must not be: the depth is not checked.
ParseUnbounded ==
  /\ pc = "parse"
  /\ \/ /\ url = "bad"
        /\ Exit("url") /\ UNCHANGED raceVars
     \/ /\ url # "bad"
        /\ Race!Begin
        /\ pc' = "connect"
        /\ UNCHANGED <<hopVars, tlsVars, peer, resp, inVars, outVars, rc>>

\* fetch's depth check, url_parse, and the call of tcp_connect.
Parse ==
  /\ pc = "parse"
  /\ \/ /\ depth > MaxRedirects
        /\ Exit("redirect") /\ UNCHANGED raceVars
     \/ /\ depth <= MaxRedirects /\ url = "bad"
        /\ Exit("url") /\ UNCHANGED raceVars
     \/ /\ depth <= MaxRedirects /\ url # "bad"
        /\ Race!Begin
        /\ pc' = "connect"
        /\ UNCHANGED <<hopVars, tlsVars, peer, resp, inVars, outVars, rc>>

Connecting ==
  /\ pc = "connect" /\ Race!ConnectStep
  /\ UNCHANGED <<pc, hopVars, tlsVars, peer, resp, inVars, outVars, rc>>

\* What it must not be: the output is opened before there is anything for it.
ConnectedTruncating ==
  /\ pc = "connect" /\ cstep = "connected"
  /\ peer' = "talking" /\ resp' \in Responses
  /\ trusted' \in IF url = "https" THEN BOOLEAN ELSE {FALSE}
  /\ pc' = IF url = "https" THEN "tls" ELSE "request"
  /\ Race!Returned
  /\ file' = (file /\ ~opt.toFile)
  /\ UNCHANGED <<hopVars, authmode, inVars, out, rc>>

\* The server behind the connection is whoever answers there.
Connected ==
  /\ pc = "connect" /\ cstep = "connected"
  /\ peer' = "talking" /\ resp' \in Responses
  /\ trusted' \in IF url = "https" THEN BOOLEAN ELSE {FALSE}
  /\ pc' = IF url = "https" THEN "tls" ELSE "request"
  /\ Race!Returned
  /\ UNCHANGED <<hopVars, authmode, inVars, outVars, rc>>

Unconnected ==
  /\ pc = "connect" /\ cstep \in {"unresolved", "unconnected"}
  /\ Exit(IF cstep = "unresolved" THEN "resolve" ELSE "connect")
  /\ Race!Returned

\* What it must not be: no CA bundle is taken for leave not to check.
SetUpTlsLax ==
  /\ pc = "tls"
  /\ \/ HangUp("tls")
     \/ /\ authmode' = IF opt.insecure \/ ~opt.ca THEN "none" ELSE "required"
        /\ Goto("handshake")
        /\ UNCHANGED <<hopVars, trusted, peer, resp, inVars, outVars>>

\* The RNG, the configuration and the CA bundle; each may fail.
SetUpTls ==
  /\ pc = "tls"
  /\ \/ HangUp("tls")
     \/ /\ opt.insecure \/ opt.ca
        /\ authmode' = IF opt.insecure THEN "none" ELSE "required"
        /\ Goto("handshake")
        /\ UNCHANGED <<hopVars, trusted, peer, resp, inVars, outVars>>

\* A silent peer is WANT_READ, and the loop goes round again.
Handshake ==
  /\ pc = "handshake"
  /\ \/ /\ peer = "talking" /\ (authmode = "required" => trusted)
        /\ Goto("request")
        /\ UNCHANGED <<hopVars, tlsVars, peer, resp, inVars, outVars>>
     \/ /\ peer \in {"closed", "broken"} \/ (authmode = "required" /\ ~trusted)
        /\ peer # "silent"
        /\ HangUp("tls")

\* conn_write: the request fits the socket's buffer, so that a peer that has
\* only stopped reading does not hold it up.
Request ==
  /\ pc = "request"
  /\ \/ HangUp("url")
     \/ /\ peer # "broken"
        /\ Goto("headers")
        /\ UNCHANGED <<hopVars, tlsVars, peer, resp, inVars, outVars>>
     \/ /\ peer \in {"closed", "broken"}
        /\ HangUp("io")

----------------------------------------------------------------------------
(* The header.                                                             *)

HeaderEnds == got >= resp.head

\* The buffer is full, or the end of the header is in it.
HeaderRead == HeaderEnds \/ got = HdrBuf

\* What it must not be: the units behind the header are dropped.
ReadHeaderLossy ==
  /\ pc = "headers" /\ ~HeaderRead
  /\ \E n \in Reads(HdrBuf - got) :
       \/ /\ n > 0
          /\ got' = got + n
          /\ pos' = got + n
          /\ Goto("headers")
          /\ UNCHANGED <<hopVars, tlsVars, peer, resp, left, outVars>>
       \/ /\ n = 0
          /\ HangUp("proto")
       \/ /\ n < 0
          /\ HangUp("io")

ReadHeader ==
  /\ pc = "headers" /\ ~HeaderRead
  /\ \E n \in Reads(HdrBuf - got) :
       \/ /\ n > 0
          /\ got' = got + n
          /\ pos' = Least(got + n, resp.head)
          /\ Goto("headers")
          /\ UNCHANGED <<hopVars, tlsVars, peer, resp, left, outVars>>
       \/ /\ n = 0
          /\ HangUp("proto")
       \/ /\ n < 0
          /\ HangUp("io")

\* Read up to its end, the header must also be HTTP.
ParseHeader ==
  /\ pc = "headers" /\ HeaderRead
  /\ \/ /\ ~HeaderEnds \/ resp.status = "garbage"
        /\ HangUp("proto")
     \/ /\ HeaderEnds /\ resp.status # "garbage"
        /\ Goto("decide")
        /\ UNCHANGED <<hopVars, tlsVars, peer, resp, inVars, outVars>>

----------------------------------------------------------------------------
(* A redirect, an error or a body.                                         *)

Redirected == resp.status = "redirect" /\ resp.location # "none" /\ opt.follow

\* What it must not be: the hops are not counted.
RedirectUncounted ==
  /\ pc = "decide" /\ Redirected
  /\ \/ /\ resp.location = "relative"
        /\ HangUp("redirect")
     \/ /\ resp.location # "relative"
        /\ url' = resp.location
        /\ Shut
        /\ authmode' = "none" /\ trusted' = FALSE
        /\ peer' = "none" /\ resp' = NoResp
        /\ got' = 0 /\ pos' = 0
        /\ pc' = "parse"
        /\ UNCHANGED <<opt, depth, left, outVars, rc>>

\* The connection is closed, and fetch calls itself with the new URL.
Redirect ==
  /\ pc = "decide" /\ Redirected
  /\ \/ /\ resp.location = "relative"
        /\ HangUp("redirect")
     \/ /\ resp.location # "relative"
        /\ url' = resp.location /\ depth' = depth + 1
        /\ Shut
        /\ authmode' = "none" /\ trusted' = FALSE
        /\ peer' = "none" /\ resp' = NoResp
        /\ got' = 0 /\ pos' = 0
        /\ pc' = "parse"
        /\ UNCHANGED <<opt, left, outVars, rc>>

ServerError ==
  /\ pc = "decide" /\ ~Redirected /\ resp.status = "error"
  /\ HangUp("http")

----------------------------------------------------------------------------
(* The body.                                                               *)

\* The output is opened, which truncates it, only now.  remain is kept as the
\* number of units, -1 for a length that was not given.
OpenOutput ==
  /\ pc = "decide" /\ ~Redirected /\ resp.status # "error"
  /\ \/ /\ opt.toFile
        /\ HangUp("io")
     \/ /\ file' = (file /\ ~opt.toFile)
        /\ left' = IF resp.framing = "length" THEN Len(resp.body) ELSE -1
        /\ Goto(IF resp.framing = "chunked" THEN "line" ELSE "pending")
        /\ UNCHANGED <<hopVars, tlsVars, peer, resp, got, pos, out>>

\* write_all of the n units at pos: all of them, or fewer and then an error.
Write(n) ==
  /\ out' = out \o Data(pos + 1, pos + n)
  /\ pos' = pos + n
  /\ UNCHANGED <<hopVars, tlsVars, peer, resp, file>>

WriteFails(n) ==
  /\ \E k \in 0 .. n - 1 : out' = out \o Data(pos + 1, pos + k)
  /\ pc' = "exit" /\ rc' = "io" /\ Shut
  /\ UNCHANGED <<hopVars, tlsVars, peer, resp, inVars, file>>

\* body_plain: what came with the header first.
PlainPending ==
  /\ pc = "pending"
  /\ \/ /\ Write(got - pos)
        /\ left' = IF left >= 0 THEN left - (got - pos) ELSE left
        /\ Goto("plain") /\ UNCHANGED got
     \/ WriteFails(got - pos)

\* What it must not be: an error in the middle passes for the end.
PlainReadLax ==
  /\ pc = "plain" /\ left # 0
  /\ \E n \in Reads(IF left > 0 THEN Least(left, IoBuf) ELSE IoBuf) :
       \/ /\ n > 0
          /\ got' = got + n
          /\ left' = IF left > 0 THEN left - n ELSE left
          /\ Write(n) /\ Goto("plain")
       \/ /\ n > 0
          /\ WriteFails(n)
       \/ /\ n <= 0
          /\ HangUp("ok")

\* The end of the stream ends the body, however much of it is missing.
PlainRead ==
  /\ pc = "plain" /\ left # 0
  /\ \E n \in Reads(IF left > 0 THEN Least(left, IoBuf) ELSE IoBuf) :
       \/ /\ n > 0
          /\ got' = got + n
          /\ left' = IF left > 0 THEN left - n ELSE left
          /\ Write(n) /\ Goto("plain")
       \/ /\ n > 0
          /\ WriteFails(n)
       \/ /\ n = 0
          /\ HangUp("ok")
       \/ /\ n < 0
          /\ HangUp("io")

PlainDone ==
  /\ pc = "plain" /\ left = 0
  /\ HangUp("ok")

\* body_chunked takes a line from what is pending, or else from the peer.
LineUnits == IF pos < got THEN {0} ELSE Reads(1)

\* A chunk-size line: empty behind a chunk, 0 (or no number) at the end.
Line ==
  /\ pc = "line"
  /\ \E n \in LineUnits :
       \/ /\ n > 0 \/ pos < got
          /\ pos' = pos + 1 /\ got' = got + n
          /\ LET t == Token(pos + 1)
             IN \/ /\ t.kind = "eol"
                   /\ Goto("line")
                   /\ UNCHANGED <<hopVars, tlsVars, peer, resp, left, outVars>>
                \/ /\ t.kind = "size" /\ t.n > 0
                   /\ left' = t.n
                   /\ Goto("chunk")
                   /\ UNCHANGED <<hopVars, tlsVars, peer, resp, outVars>>
                \/ /\ t.kind = "data" \/ (t.kind = "size" /\ t.n = 0)
                   /\ pc' = "exit" /\ rc' = "ok" /\ Shut
                   /\ UNCHANGED <<hopVars, tlsVars, peer, resp, left, outVars>>
       \/ /\ n <= 0 /\ pos = got
          /\ HangUp("io")

\* No read goes past the end of the chunk, and no end of the stream is good.
Chunk ==
  /\ pc = "chunk"
  /\ \E n \in IF pos < got THEN {Least(got - pos, Least(left, IoBuf))}
                            ELSE Reads(Least(left, IoBuf)) :
       \/ /\ n > 0
          /\ got' = IF pos < got THEN got ELSE got + n
          /\ left' = left - n
          /\ Write(n) /\ Goto(IF left = n THEN "line" ELSE "chunk")
       \/ /\ n > 0
          /\ WriteFails(n)
       \/ /\ n <= 0
          /\ HangUp("io")

----------------------------------------------------------------------------

\* External: the server closes (under TLS with a close_notify or without: both
\* are a 0 of mbedtls_ssl_read), resets, or sends nothing more.
PeerStops ==
  /\ pc # "exit" /\ peer = "talking"
  /\ peer' \in {"closed", "broken", "silent"}
  /\ UNCHANGED <<raceVars, pc, hopVars, tlsVars, resp, inVars, outVars, rc>>

Network ==
  /\ pc = "connect" /\ Race!Network
  /\ UNCHANGED <<pc, hopVars, tlsVars, peer, resp, inVars, outVars, rc>>

\* Where the client waits for the peer.
Waiting ==
  \/ pc = "handshake"
  \/ pc = "headers" /\ ~HeaderRead
  \/ pc = "plain" /\ left # 0
  \/ pc \in {"line", "chunk"} /\ pos = got

\* bio_recv turns the timeout into WANT_READ, and the handshake and conn_read
\* try again: this is where a silent TLS peer keeps hget.
TlsRetry == Waiting /\ url = "https" /\ peer = "silent" /\ UNCHANGED vars

Exited == pc = "exit" /\ UNCHANGED vars

\* main: what the command line came to is in opt and url.
Init ==
  /\ Race!ConnectInit
  /\ pc = "parse" /\ opt \in Options /\ depth = 0
  /\ url \in {"http", "https", "bad"}
  /\ authmode = "none" /\ trusted = FALSE
  /\ peer = "none" /\ resp = NoResp
  /\ got = 0 /\ pos = 0 /\ left = 0
  /\ file = TRUE /\ out = <<>> /\ rc = "none"

Client ==
  \/ Parse \/ Connecting \/ Connected \/ Unconnected
  \/ SetUpTls \/ Handshake \/ Request
  \/ ReadHeader \/ ParseHeader
  \/ Redirect \/ ServerError \/ OpenOutput
  \/ PlainPending \/ PlainRead \/ PlainDone \/ Line \/ Chunk

Next == Client \/ PeerStops \/ Network \/ TlsRetry \/ Exited

\* hget is scheduled, and a server that has sent all it has does not keep the
\* connection open and busy for ever (it was asked to close it).
Spec == Init /\ [][Next]_vars /\ WF_vars(Client) /\ WF_vars(PeerStops)

----------------------------------------------------------------------------

Steps == {"parse", "connect", "tls", "handshake", "request", "headers", "decide",
          "pending", "plain", "line", "chunk", "exit"}

Codes == {"none", "ok", "url", "resolve", "connect", "tls", "http", "io", "redirect",
          "proto"}

\* Every variable stays in its type.
TypeOK ==
  /\ Race!ConnectTypeOK
  /\ pc \in Steps /\ opt \in Options /\ depth \in 0 .. MaxRedirects + 1
  /\ url \in {"http", "https", "bad"}
  /\ authmode \in {"none", "required"} /\ trusted \in BOOLEAN
  /\ peer \in {"none", "talking", "closed", "broken", "silent"}
  /\ resp \in Responses \cup {NoResp}
  /\ got \in 0 .. Wire /\ pos \in 0 .. got /\ left \in Int
  /\ file \in BOOLEAN /\ rc \in Codes
  /\ \A k \in DOMAIN out : out[k] \in Nat

\* The race's: its sockets are never lost, and its one survivor is usable.
OneSurvivor == Race!OneSurvivor

\* The race's: the cap on sockets never shuts a family out.
FamiliesShare == Race!FamiliesShare

\* The race's: how early an address that does not answer may be given up.
GivesUpLate == Race!GivesUpLate

\* The race's, as its comment has it: such an address is given all of -T.
HonestTimeout == Race!HonestTimeout

\* Whatever went wrong on the way, no hop of a redirect and no exit leaves a
\* connection open behind it.
NothingLeft ==
  pc \in {"parse", "exit"} => \A a \in Race!Addresses : ~Race!IsOpen(a)

\* However the answer is cut into reads, what is written is a beginning of the
\* body: no framing in it, nothing twice, nothing lost between the header's
\* buffer and the reads that follow.
OutputIsPrefix ==
  out # <<>> => Len(out) <= Len(Payload) /\ out = SubSeq(Payload, 1, Len(out))

\* Exit code 0 means that all of the body was written, but for the one cut
\* body_plain does not tell from an end: the server closing the connection.
OkIsWhole ==
  (pc = "exit" /\ rc = "ok") =>
    out = Payload \/ (resp.framing # "chunked" /\ peer = "closed")

\* The old file is gone only if the download succeeded or broke off in its
\* body: not for a bad URL, a failed connect or handshake, an HTTP error, a
\* malformed answer or a redirect that is not followed.
FileKept == (pc = "exit" /\ ~file) => rc \in {"ok", "io"}

\* On every hop, a request goes over TLS only to a server whose certificate
\* was good, or with -k.
NeverUnverified ==
  (url = "https" /\ pc \in Steps \ {"parse", "connect", "tls", "handshake", "exit"}) =>
    trusted \/ opt.insecure

\* A fetch ends, redirect loops and lost peers included, unless a TLS peer
\* has fallen silent.
Ends == <>(pc = "exit" \/ (url = "https" /\ peer = "silent"))

\* "Once connected, bound every read and write the same way": with the -T
\* timeout on the socket, a fetch ends whatever the server does.
EndsAlways == <>(pc = "exit")
=============================================================================
