------------------------------ MODULE TLSListener ------------------------------
(***************************************************************************)
(* The TLS listener (internal/tlslisten/listen.go) under the accept loop   *)
(* of net/http: it completes the handshake inside Accept, one connection   *)
(* at a time, keeps the handshake's duration in a Tracker keyed by the     *)
(* connection, and gives it to the first request that records a run.       *)
(*                                                                         *)
(* Requests of an HTTP/1.1 connection run one after another, the streams   *)
(* of an HTTP/2 connection side by side (net/http, external).  Only the    *)
(* handlers that record a run call ConsumeHandshake.                       *)
(*                                                                         *)
(* The listener runs with the settings of the environment (TLSSettings),   *)
(* and a recorded run says what its connection negotiated.                 *)
(***************************************************************************)
EXTENDS TLSSettings, FiniteSets, Functions

CONSTANTS
  Conns,       \* client connections
  MaxStreams,  \* bound on the requests of each connection
  Recording,   \* whether a request's handler records a run: subset of BOOLEAN
  Environments,  \* the environments the process may be started in
  Offers,      \* what clients may offer
  Key,         \* the key algorithm of the certificate
  NoConn       \* the accept loop is between connections

ASSUME ListenerAssumption ==
  /\ MaxStreams \in [Conns -> Nat \ {0}] /\ Recording \subseteq BOOLEAN /\ NoConn \notin Conns
  /\ Environments \subseteq Environment /\ Offers \subseteq Offer /\ Key \in {"RSA", "ECDSA"}

VARIABLES
  queue,     \* TCP connections the kernel has completed, oldest first
  shaking,   \* the connection whose handshake Accept is in
  conn,      \* connection states
  client,    \* what the client does: completes its handshake, or stalls
  env,       \* the environment of the process
  offer,     \* what the client offers
  tls,       \* what the handshake negotiated, and NoTLS before
  alpn,      \* the protocol the handshake chose
  byConn,    \* Tracker.byConn: connections with a Meta
  hasMeta,   \* connections whose request contexts carry the Meta
  requests,  \* Meta.requests
  started,   \* requests each connection has started
  req        \* the state of each request and the row it records

vars == <<queue, shaking, conn, client, env, offer, tls, alpn,
          byConn, hasMeta, requests, started, req>>
peers == <<client, env, offer>>

tracker == <<byConn, hasMeta, requests>>
traffic == <<started, req>>

Streams(c) == 1..MaxStreams[c]

NoTLS == [version |-> 0, cipher |-> "", cert |-> FALSE, resumed |-> FALSE]
TLS   == {NoTLS} \cup [version: {12, 13}, cipher: TLS12Suites \cup TLS13Suites,
                      cert: BOOLEAN, resumed: BOOLEAN]

NoReq == [st |-> "none", records |-> FALSE, hs |-> FALSE, reused |-> FALSE,
          version |-> 0, cipher |-> "", alpn |-> "", key |-> ""]
Req   == [st: {"none", "running", "recorded", "done"},
          records: BOOLEAN, hs: BOOLEAN, reused: BOOLEAN,
          version: {0, 12, 13}, cipher: {""} \cup TLS12Suites \cup TLS13Suites,
          alpn: {"", "http/1.1", "h2"}, key: {"", "RSA", "ECDSA"}]

Init ==
  /\ queue = <<>> /\ shaking = NoConn
  /\ conn = [c \in Conns |-> "out"]
  /\ client = [c \in Conns |-> "good"]
  /\ env \in Environments /\ offer \in [Conns -> Offers]
  /\ tls = [c \in Conns |-> NoTLS]
  /\ alpn = [c \in Conns |-> "http/1.1"]
  /\ byConn = {} /\ hasMeta = {}
  /\ requests = [c \in Conns |-> 0]
  /\ started = [c \in Conns |-> 0]
  /\ req = [c \in Conns |-> [k \in Streams(c) |-> NoReq]]

\* A client connects to the running server; some clients never send their part of the
\* handshake.
Connect(c) ==
  /\ conn[c] = "out" /\ Serving(env) # {}
  /\ conn' = [conn EXCEPT ![c] = "queued"]
  /\ \E b \in {"good", "stalled"} : client' = [client EXCEPT ![c] = b]
  /\ queue' = Append(queue, c)
  /\ UNCHANGED <<shaking, env, offer, tls, alpn, tracker, traffic>>

\* l.Listener.Accept() and the start of HandshakeContext.
AcceptTCP ==
  /\ shaking = NoConn /\ queue # <<>>
  /\ shaking' = Head(queue) /\ queue' = Tail(queue)
  /\ conn' = [conn EXCEPT ![Head(queue)] = "shaking"]
  /\ UNCHANGED <<peers, tls, alpn, tracker, traffic>>

\* A client that comes back has a session ticket of an earlier connection.
Issued(c) == \E d \in Conns \ {c} : tls[d] # NoTLS

\* The handshake completes: Store, then Accept returns the connection.
HandshakeDone(c) ==
  /\ shaking = c /\ conn[c] = "shaking" /\ client[c] = "good"
  /\ \E t \in Serving(env) : \E n \in Negotiated(t, Key, offer[c], Issued(c)) :
       tls' = [tls EXCEPT ![c] = n]
  /\ conn' = [conn EXCEPT ![c] = "accepted"]
  /\ \E p \in {"http/1.1", "h2"} : alpn' = [alpn EXCEPT ![c] = p]
  /\ byConn' = byConn \cup {c}
  /\ requests' = [requests EXCEPT ![c] = 0]
  /\ UNCHANGED <<queue, shaking, peers, hasMeta, traffic>>

\* Mutation: the handshake has no deadline of its own.
Bug_HandshakeFails(c) ==
  /\ shaking = c /\ conn[c] = "shaking" /\ client[c] = "good"
  /\ conn' = [conn EXCEPT ![c] = "closed"]
  /\ shaking' = NoConn
  /\ UNCHANGED <<queue, peers, tls, alpn, tracker, traffic>>

\* Mutation: a failed connection is not closed.
Bug_HandshakeLeak(c) ==
  /\ shaking = c /\ conn[c] = "shaking"
  /\ shaking' = NoConn
  /\ UNCHANGED <<queue, conn, peers, tls, alpn, tracker, traffic>>

\* The client errs, or handshakeTimeout passes: close it, go on accepting.
HandshakeFails(c) ==
  /\ shaking = c /\ conn[c] = "shaking"
  /\ conn' = [conn EXCEPT ![c] = "closed"]
  /\ shaking' = NoConn
  /\ UNCHANGED <<queue, peers, tls, alpn, tracker, traffic>>

\* The accept loop of net/http: ConnContext loads the Meta, the connection gets a
\* goroutine of its own, and the loop calls Accept again.
Serve(c) ==
  /\ shaking = c /\ conn[c] = "accepted"
  /\ conn' = [conn EXCEPT ![c] = "open"]
  /\ hasMeta' = IF c \in byConn THEN hasMeta \cup {c} ELSE hasMeta
  /\ shaking' = NoConn
  /\ UNCHANGED <<queue, peers, tls, alpn, byConn, requests, traffic>>

InFlight(c) == {k \in Streams(c) : req[c][k].st \in {"running", "recorded"}}

StartRequest(c) ==
  /\ conn[c] = "open" /\ started[c] < MaxStreams[c]
  /\ alpn[c] = "http/1.1" => InFlight(c) = {}
  /\ started' = [started EXCEPT ![c] = @ + 1]
  /\ \E r \in Recording :
       req' = [req EXCEPT ![c][started[c] + 1] = [NoReq EXCEPT !.st = "running",
                                                               !.records = r]]
  /\ UNCHANGED <<queue, shaking, conn, peers, tls, alpn, tracker>>

\* FromRequest and record: the run says what its connection negotiated, and the key of
\* the certificate.
Describe(c, row) == [row EXCEPT !.version = tls[c].version, !.cipher = tls[c].cipher,
                                !.alpn = alpn[c], !.key = Key]

\* Mutation: the counter is read and not advanced.
Bug_ConsumeHandshake(c, k) ==
  /\ req[c][k].st = "running" /\ req[c][k].records
  /\ req' = [req EXCEPT ![c][k] = [Describe(c, @) EXCEPT !.st = "recorded",
                !.hs = c \in hasMeta /\ requests[c] = 0,
                !.reused = c \in hasMeta /\ requests[c] > 0]]
  /\ UNCHANGED <<queue, shaking, conn, peers, tls, alpn, tracker, started>>

\* record: the first caller on a connection gets the handshake, the others "reused".
ConsumeHandshake(c, k) ==
  /\ req[c][k].st = "running" /\ req[c][k].records
  /\ requests' = IF c \in hasMeta THEN [requests EXCEPT ![c] = @ + 1] ELSE requests
  /\ req' = [req EXCEPT ![c][k] = [Describe(c, @) EXCEPT !.st = "recorded",
                !.hs = c \in hasMeta /\ requests[c] = 0,
                !.reused = c \in hasMeta /\ requests[c] > 0]]
  /\ UNCHANGED <<queue, shaking, conn, peers, tls, alpn, byConn, hasMeta, started>>

EndRequest(c, k) ==
  /\ \/ req[c][k].st = "recorded"
     \/ req[c][k].st = "running" /\ ~req[c][k].records
  /\ req' = [req EXCEPT ![c][k].st = "done"]
  /\ UNCHANGED <<queue, shaking, conn, peers, tls, alpn, tracker, started>>

\* Mutation: a closed connection stays in the Tracker.
Bug_Close(c) ==
  /\ conn[c] = "open"
  /\ alpn[c] = "http/1.1" => InFlight(c) = {}
  /\ conn' = [conn EXCEPT ![c] = "closed"]
  /\ UNCHANGED <<queue, shaking, peers, tls, alpn, tracker, traffic>>

\* ConnState(StateClosed).  HTTP/2 handlers may still be running.
Close(c) ==
  /\ conn[c] = "open"
  /\ alpn[c] = "http/1.1" => InFlight(c) = {}
  /\ conn' = [conn EXCEPT ![c] = "closed"]
  /\ byConn' = byConn \ {c}
  /\ UNCHANGED <<queue, shaking, peers, tls, alpn, hasMeta, requests, traffic>>

Next ==
  \/ AcceptTCP
  \/ \E c \in Conns :
       \/ Connect(c) \/ HandshakeDone(c) \/ HandshakeFails(c) \/ Serve(c)
       \/ StartRequest(c) \/ Close(c)
       \/ \E k \in Streams(c) : ConsumeHandshake(c, k) \/ EndRequest(c, k)

Spec == Init /\ [][Next]_vars

\* The goroutine of the accept loop runs, and a handshake ends one way or the other
\* within handshakeTimeout.  Nothing is assumed of the clients.
FairSpec ==
  /\ Spec
  /\ WF_vars(AcceptTCP)
  /\ \A c \in Conns : WF_vars(HandshakeDone(c) \/ HandshakeFails(c)) /\ WF_vars(Serve(c))

-----------------------------------------------------------------------------
\* Type invariant; the loop is with the one connection that is in its handshake or
\* just accepted, and the queue holds the others that wait.
TypeOK ==
  /\ queue \in Seq(Conns) /\ shaking \in Conns \cup {NoConn}
  /\ conn \in [Conns -> {"out", "queued", "shaking", "accepted", "open", "closed"}]
  /\ client \in [Conns -> {"good", "stalled"}]
  /\ env \in Environments /\ offer \in [Conns -> Offers] /\ tls \in [Conns -> TLS]
  /\ alpn \in [Conns -> {"http/1.1", "h2"}]
  /\ byConn \subseteq Conns /\ hasMeta \subseteq Conns
  /\ requests \in [Conns -> Nat]
  /\ \A c \in Conns : started[c] \in 0..MaxStreams[c] /\ req[c] \in [Streams(c) -> Req]
  /\ \A c \in Conns : conn[c] \in {"shaking", "accepted"} <=> shaking = c
  /\ \A c \in Conns : conn[c] = "queued" <=> c \in Range(queue)

\* The Tracker has a Meta for exactly the live TLS connections: no closed connection
\* stays in byConn, and no handler of a live one misses its Meta.
TrackedWhileLive ==
  /\ byConn = {c \in Conns : conn[c] \in {"accepted", "open"}}
  /\ {c \in Conns : conn[c] = "open"} \subseteq hasMeta

\* However the streams of a connection interleave, and when it closes under them, the
\* handshake goes to exactly one recorded run and all others are marked reused.
OneHandshakeRow ==
  \A c \in Conns :
    LET rows == {k \in Streams(c) : req[c][k].records
                                 /\ req[c][k].st \in {"recorded", "done"}}
        cold == {k \in rows : req[c][k].hs}
    IN  /\ rows # {} => Cardinality(cold) = 1
        /\ \A k \in rows : req[c][k].reused <=> ~req[c][k].hs

Rows == UNION {{<<c, k>> : k \in {j \in Streams(c) : req[c][j].records
                                /\ req[c][j].st \in {"recorded", "done"}}} : c \in Conns}

\* What the environment asks for is what the recorded runs show: no run over a version
\* below TLS_MIN_VERSION, none over TLS 1.2 with a suite that TLS_CIPHER_SUITES leaves
\* out, and none of a client without a certificate when TLS_CLIENT_CA_FILE is set.
RowsHonourSettings ==
  \A r \in Rows :
    LET row == req[r[1]][r[2]] IN
    /\ env.minVersion \in {"1.3", "tls1.3", "tlsv1.3"} => row.version = 13
    /\ (row.version = 12 /\ env.suites # <<>>) => row.cipher \in Range(env.suites)
    /\ env.clientCA # "" => tls[r[1]].cert

\* "so cold tables are not contaminated by resumption": unless session tickets were
\* turned on, a run that has a handshake has the time of a full one, although its client
\* connected before and resumes where it can.
ColdRowsFull ==
  env.disableTickets \notin {"0", "false", "no", "off"} =>
    \A r \in Rows : req[r[1]][r[2]].hs => ~tls[r[1]].resumed

\* Stalled clients delay the others and never block them: every connection is taken
\* from the queue and served or closed.
EveryConnectionDecided ==
  \A c \in Conns : conn[c] = "queued" ~> conn[c] \in {"open", "closed"}
=============================================================================
