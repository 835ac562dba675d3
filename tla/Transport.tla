----------------------------- MODULE Transport ------------------------------
(***************************************************************************)
(* How the byte stream of a connection is established: transport_connect   *)
(* (src/src/client.rs) picks the transport, src/src/io/stream.rs connects  *)
(* directly or through an HTTP CONNECT tunnel and wraps what it gets in    *)
(* TLS, src/src/io/tokio_ws.rs puts a WebSocket on top.                    *)
(*                                                                         *)
(* A stream is the sequence of the layers it was built from.  A function   *)
(* that may fail returns a set with at most one element.  A response of a  *)
(* proxy is a sequence of lines; of a line, its size and what the code     *)
(* looks at are kept.                                                      *)
(***************************************************************************)
EXTENDS Integers, Sequences, SequencesExt

CONSTANT MAX_PROXY_RESPONSE_HEADER_BYTES

ASSUME TransportAssumption == MAX_PROXY_RESPONSE_HEADER_BYTES \in Nat \ {0}

-----------------------------------------------------------------------------
(***************************************************************************)
(* The answer of a proxy.                                                  *)
(***************************************************************************)
\* A line: its size with the line ending, and the version and status a status line
\* has (digits is how long the number is written).
Line(size, blank, version, digits, status) ==
    [size |-> size, blank |-> blank, version |-> version, digits |-> digits,
     status |-> status]

\* A line with no bytes, as at the end of the stream; the beginning of a line.
EmptyLine == Line(0, TRUE, "", 0, 0)
CutLine(size) == Line(size, FALSE, "", 0, 0)

\* Fault: the reader may take no byte more than the limit leaves.
LineLimitExact(total) == MAX_PROXY_RESPONSE_HEADER_BYTES - total

\* One byte more than the limit leaves may be read, to notice that it is exceeded.
LineLimit(total) == MAX_PROXY_RESPONSE_HEADER_BYTES - total + 1

\* reader.take(limit).read_line(): the line, and what is left to read.
ReadLine(rest, limit) ==
    IF rest = <<>> \/ limit = 0 THEN [line |-> EmptyLine, rest |-> rest]
    ELSE IF Head(rest).size <= limit THEN [line |-> Head(rest), rest |-> Tail(rest)]
    ELSE [line |-> CutLine(limit),
          rest |-> <<[Head(rest) EXCEPT !.size = @ - limit]>> \o Tail(rest)]

\* read_proxy_response_line; it waits if no line has come and the stream is open.
read_proxy_response_line(e) ==
    LET read == ReadLine(e.rest, LineLimit(e.total))
    IN [e EXCEPT !.line = read.line, !.rest = read.rest,
                 !.total = @ + read.line.size,
                 !.at = IF e.rest = <<>> /\ ~e.eof THEN "waiting"
                        ELSE IF e.total + read.line.size > MAX_PROXY_RESPONSE_HEADER_BYTES
                        THEN "failed" ELSE @]

\* The status line that opens the tunnel.
StatusAccepted(line) ==
    /\ line.version \in {"HTTP/1.1", "HTTP/1.0"}
    /\ line.digits = 3
    /\ line.status \in 200..299

\* Reads one line of the answer: the status line, then headers up to a blank line.
ExchangeStep(e, i) ==
    IF e.at \notin {"status", "headers"} THEN e
    ELSE LET read == read_proxy_response_line(e)
         IN [read EXCEPT !.at =
                 CASE @ = "status" -> IF StatusAccepted(read.line) THEN "headers" ELSE "failed"
                   [] @ = "headers" -> IF read.line.blank THEN "tunnel" ELSE "headers"
                   [] OTHER -> @]

\* http_connect_exchange after the request is written: where it ends, "tunnel",
\* "failed" or "waiting", and what of the response is left to the tunnel.
http_connect_exchange(response, eof) ==
    FoldLeft(ExchangeStep,
             [at |-> "status", line |-> EmptyLine, rest |-> response, total |-> 0, eof |-> eof],
             [i \in 1..(Len(response) + 2) |-> i])

-----------------------------------------------------------------------------
(***************************************************************************)
(* The layers of a stream.                                                 *)
(*                                                                         *)
(* A configuration has the transport type, the host and port it names      *)
(* (port 0 if a WebSocket request names none), whether it has a TlsConfig, *)
(* the scheme of a WebSocket request, and a proxy or <<>>.                 *)
(***************************************************************************)
Tcp(host, port) == <<[layer |-> "tcp", host |-> host, port |-> port]>>
Tls(host) == <<[layer |-> "tls", host |-> host]>>

\* The host of the request as a proxy reads it: an address with colons in brackets.
Authority(host, port) == [host |-> host.name, bracketed |-> host.colons, port |-> port]

\* The CONNECT request, refused before it is written if the host cannot be in one.
Connect(stream, host, port, auth) ==
    IF host.name = "" \/ host.control THEN {}
    ELSE {stream \o <<[layer |-> "connect", to |-> Authority(host, port), auth |-> auth]>>}

\* Fault: the session with the proxy is checked against the name of the target.
ProxyNameTarget(proxy, host) == host

\* The name the certificate of an HTTPS proxy is checked against.
ProxyName(proxy, host) == proxy.host

http_connect_tunnel(proxy, host, port) ==
    LET tcp == Tcp(proxy.host, proxy.port)
    IN Connect(IF proxy.https THEN tcp \o Tls(ProxyName(proxy, host)) ELSE tcp,
               host, port, proxy.auth)

connect(host, port, proxy) ==
    IF proxy = <<>> THEN {Tcp(host, port)} ELSE http_connect_tunnel(proxy[1], host, port)

\* tls_handshake on the stream to the target.
connect_tls(host, port, proxy) == {s \o Tls(host) : s \in connect(host, port, proxy)}

\* Where a WebSocket request without a port goes.
WsPort(port, default) == IF port = 0 THEN default ELSE port

\* connect of tokio_ws: the scheme and the TlsConfig must agree.
ws_connect(c) ==
    IF c.host.name = "" \/ c.scheme \notin {"ws", "wss"} \/ (c.scheme = "wss") # c.tls THEN {}
    ELSE {s \o <<[layer |-> "ws"]>> :
            s \in IF c.tls THEN connect_tls(c.host, WsPort(c.port, 443), c.proxy)
                           ELSE connect(c.host, WsPort(c.port, 80), c.proxy)}

transport_connect(c) ==
    CASE c.type = "Tcp" -> connect(c.host, c.port, c.proxy)
      [] c.type = "Tls" -> connect_tls(c.host, c.port, c.proxy)
      [] c.type = "Ws" -> ws_connect(c)
=============================================================================
