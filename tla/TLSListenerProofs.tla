--------------------------- MODULE TLSListenerProofs ---------------------------
(***************************************************************************)
(* Proofs about TLSListener for every set of connections, every number of  *)
(* requests on each, every environment and every client: its type          *)
(* invariant, that the Tracker follows the live connections, that the      *)
(* handshake goes to one recorded run, and that the recorded runs show     *)
(* what the environment asks for.                                          *)
(***************************************************************************)
EXTENDS TLSListener, FiniteSetTheorems, TLAPS

(***************************************************************************)
(* From the environment to what a handshake negotiates.                    *)
(***************************************************************************)
\* A setting that is not spelled as false, and parses, is true when that is its default.
LEMMA TrueByDefault ==
  ASSUME NEW raw, NEW b \in boolFromEnv(raw, TRUE), raw \notin {"0", "false", "no", "off"}
  PROVE  b
  BY DEF boolFromEnv

LEMMA SplitNotEmpty == ASSUME NEW parts PROVE splitCSV(parts) # {}
  BY DEF splitCSV

\* Where the fields of a configuration come from.
LEMMA ConfigFields ==
  ASSUME NEW e, NEW cfg \in FromEnv(e)
  PROVE  /\ cfg.minVersion \in tlsMinVersionFromEnv(e.minVersion)
         /\ cfg.suites \in tlsCipherSuitesFromEnv(e.suites)
         /\ cfg.disableTickets \in boolFromEnv(e.disableTickets, TRUE)
         /\ cfg.clientCA = e.clientCA
  BY DEF FromEnv

\* A configuration with which the process serves does what the environment asks for.
LEMMA ServingSettings ==
  ASSUME NEW e \in Environment, NEW t \in Serving(e)
  PROVE  /\ t.minVersion \in {12, 13}
         /\ e.minVersion \in {"1.3", "tls1.3", "tlsv1.3"} => t.minVersion = 13
         /\ e.suites # <<>> => t.suites = splitCSV(e.suites) /\ t.suites # {}
                               /\ t.suites \subseteq TLS12Suites \cup TLS13Suites
         /\ e.disableTickets \notin {"0", "false", "no", "off"} => t.ticketsDisabled
         /\ e.clientCA # "" => t.clientCert
<1>1. PICK cfg \in FromEnv(e) : \E pool \in LoadClientCAs(cfg.clientCA) :
        t = ServerTLSConfig(pool, cfg)
  BY DEF Serving
<1>2. PICK pool \in LoadClientCAs(cfg.clientCA) : t = ServerTLSConfig(pool, cfg)
  BY <1>1
<1>3. /\ t.minVersion = cfg.minVersion /\ t.suites = cfg.suites
      /\ t.ticketsDisabled = cfg.disableTickets /\ t.clientCert = (pool = "pool")
  BY <1>2 DEF ServerTLSConfig
<1>4. /\ cfg.minVersion \in {12, 13}
      /\ e.minVersion \in {"1.3", "tls1.3", "tlsv1.3"} => cfg.minVersion = 13
  BY ConfigFields DEF tlsMinVersionFromEnv
<1>5. e.suites # <<>> => cfg.suites = splitCSV(e.suites) /\ cfg.suites # {}
                         /\ cfg.suites \subseteq TLS12Suites \cup TLS13Suites
  BY ConfigFields, SplitNotEmpty DEF tlsCipherSuitesFromEnv
<1>6. e.disableTickets \notin {"0", "false", "no", "off"} => cfg.disableTickets
  <2>1. cfg.disableTickets \in boolFromEnv(e.disableTickets, TRUE)
    BY ConfigFields
  <2> QED
    BY <2>1, TrueByDefault
<1>7. e.clientCA # "" => pool = "pool"
  BY <1>2, ConfigFields DEF LoadClientCAs
<1> QED
  BY <1>3, <1>4, <1>5, <1>6, <1>7

\* A list of cipher suites that parses names suites and nothing else.
LEMMA PinnedSuites ==
  ASSUME NEW parts, splitCSV(parts) \subseteq TLS12Suites \cup TLS13Suites
  PROVE  splitCSV(parts) \subseteq Range(parts)
  BY DEF splitCSV, Range, TLS12Suites, TLS13Suites

\* A handshake gives what both sides can do, within the settings of the server.
LEMMA NegotiatedWithin ==
  ASSUME NEW e \in Environment, NEW t \in Serving(e), NEW key, NEW o \in Offer,
         NEW i \in BOOLEAN, NEW n \in Negotiated(t, key, o, i)
  PROVE  /\ n \in TLS /\ n.version \in {12, 13}
         /\ e.minVersion \in {"1.3", "tls1.3", "tlsv1.3"} => n.version = 13
         /\ n.version = 12 /\ e.suites # <<>> => n.cipher \in Range(e.suites)
         /\ e.clientCA # "" => n.cert
         /\ e.disableTickets \notin {"0", "false", "no", "off"} => ~n.resumed
<1>1. /\ o.version >= t.minVersion /\ (t.clientCert => o.cert)
      /\ n.version = o.version /\ n.cert = o.cert
      /\ n.resumed = (o.resumes /\ i /\ ~t.ticketsDisabled)
      /\ n.cipher \in IF o.version = 13 THEN o.suites \cap TLS13Suites
                      ELSE {s \in o.suites \cap TLS12Suites :
                              KeyOf(s) = key /\ (t.suites = {} \/ s \in t.suites)}
  <2>1. ~(o.version < t.minVersion \/ (t.clientCert /\ ~o.cert))
    BY DEF Negotiated
  <2>2. o.version \in {12, 13} /\ t.minVersion \in {12, 13}
    BY ServingSettings DEF Offer
  <2> QED
    BY <2>1, <2>2 DEF Negotiated
<1>2. o.version \in {12, 13} /\ o.cert \in BOOLEAN
  BY DEF Offer
<1>3. n \in TLS
  <2>1. n \in [version: {12, 13}, cipher: TLS12Suites \cup TLS13Suites, cert: BOOLEAN,
               resumed: BOOLEAN]
    BY <1>1, <1>2 DEF Negotiated
  <2> QED
    BY <2>1 DEF TLS
<1>4. ASSUME n.version = 12, e.suites # <<>>
      PROVE  n.cipher \in Range(e.suites)
  <2>1. /\ t.suites = splitCSV(e.suites) /\ t.suites # {}
        /\ t.suites \subseteq TLS12Suites \cup TLS13Suites
    BY <1>4, ServingSettings
  <2>2. t.suites \subseteq Range(e.suites)
    BY <2>1, PinnedSuites
  <2>3. n.cipher \in t.suites
    BY <1>1, <1>4, <2>1
  <2> QED
    BY <2>2, <2>3
<1>5. e.minVersion \in {"1.3", "tls1.3", "tlsv1.3"} => n.version = 13
  <2>1. t.minVersion \in {12, 13}
        /\ (e.minVersion \in {"1.3", "tls1.3", "tlsv1.3"} => t.minVersion = 13)
    BY ServingSettings
  <2> QED
    BY <1>1, <1>2, <2>1
<1>6. e.clientCA # "" => n.cert
  <2>1. e.clientCA # "" => t.clientCert
    BY ServingSettings
  <2> QED
    BY <1>1, <2>1
<1>7. e.disableTickets \notin {"0", "false", "no", "off"} => ~n.resumed
  <2>1. e.disableTickets \notin {"0", "false", "no", "off"} => t.ticketsDisabled
    BY ServingSettings
  <2> QED
    BY <1>1, <2>1
<1> QED
  BY <1>1, <1>2, <1>3, <1>4, <1>5, <1>6, <1>7

(***************************************************************************)
(* Type correctness.                                                       *)
(***************************************************************************)
\* A connection waits in the queue once, and the functions are over all connections.
Layout ==
  /\ \A i, j \in DOMAIN queue : queue[i] = queue[j] => i = j
  /\ started \in [Conns -> Nat] /\ DOMAIN req = Conns

TypeInv == TypeOK /\ Layout

\* A new connection is queued behind the others.
LEMMA ConnectType == ASSUME TypeInv, NEW c \in Conns, Connect(c) PROVE TypeInv'
<1> USE DEF TypeInv, TypeOK, Layout, Connect, tracker, traffic
<1>1. queue' = Append(queue, c) /\ queue \in Seq(Conns) /\ c \notin Range(queue)
  OBVIOUS
<1>2. /\ queue' \in Seq(Conns) /\ DOMAIN queue' = DOMAIN queue \cup {Len(queue) + 1}
      /\ \A i \in DOMAIN queue : queue'[i] = queue[i]
      /\ queue'[Len(queue) + 1] = c /\ Len(queue) + 1 \notin DOMAIN queue
  BY <1>1
<1>0. \A i \in DOMAIN queue : queue[i] # c
  BY <1>1 DEF Range
<1>3. /\ Range(queue') = Range(queue) \cup {c}
      /\ \A i, j \in DOMAIN queue' : queue'[i] = queue'[j] => i = j
  <2>1. Range(queue') = Range(queue) \cup {c}
    BY <1>2 DEF Range
  <2>2. \A i, j \in DOMAIN queue : queue[i] = queue[j] => i = j
    OBVIOUS
  <2>3. \A i, j \in DOMAIN queue' : queue'[i] = queue'[j] => i = j
    BY ONLY <1>2, <1>0, <2>2
  <2> QED
    BY <2>1, <2>3
<1>4. shaking # c
  OBVIOUS
<1>5. \A d \in Conns : conn'[d] \in {"shaking", "accepted"} <=> shaking' = d
  BY <1>4
<1>6. \A d \in Conns : conn'[d] = "queued" <=> d \in Range(queue')
  BY <1>3
<1> QED
  BY <1>2, <1>3, <1>5, <1>6

\* The oldest connection leaves the queue.
LEMMA AcceptType == ASSUME TypeInv, AcceptTCP PROVE TypeInv'
<1> USE DEF TypeInv, TypeOK, Layout, AcceptTCP, tracker, traffic, peers
<1>1. queue \in Seq(Conns) /\ queue # <<>>
  OBVIOUS
<1>2. Head(queue) \in Conns /\ Tail(queue) \in Seq(Conns)
  BY <1>1
<1>3. \A i \in DOMAIN Tail(queue) : Tail(queue)[i] = queue[i + 1] /\ i + 1 \in DOMAIN queue
  BY <1>1
<1>4. Range(Tail(queue)) = Range(queue) \ {Head(queue)}
  <2>1. \A i \in DOMAIN queue : i = 1 \/ (i - 1 \in DOMAIN Tail(queue) /\ Tail(queue)[i - 1] = queue[i])
    BY <1>1
  <2>2. 1 \in DOMAIN queue /\ Head(queue) = queue[1]
    BY <1>1
  <2>3. \A i \in DOMAIN Tail(queue) : Tail(queue)[i] # Head(queue)
    <3>1. SUFFICES ASSUME NEW i \in DOMAIN Tail(queue), queue[i + 1] = queue[1] PROVE FALSE
      BY <1>3, <2>2
    <3>2. i + 1 = 1 /\ i \in Nat \ {0}
      BY <1>1, <1>3, <2>2, <3>1
    <3> QED
      BY <3>2
  <2>4. \A i \in DOMAIN Tail(queue) : Tail(queue)[i] \in Range(queue)
    BY <1>3 DEF Range
  <2>5. ASSUME NEW i \in DOMAIN queue, queue[i] # Head(queue)
        PROVE  queue[i] \in Range(Tail(queue))
    <3>1. i - 1 \in DOMAIN Tail(queue) /\ Tail(queue)[i - 1] = queue[i]
      BY <2>1, <2>2, <2>5
    <3> QED
      BY <3>1 DEF Range
  <2>6. Head(queue) \notin Range(Tail(queue))
    BY <2>3 DEF Range
  <2>7. ASSUME NEW x \in Range(queue), x # Head(queue)
        PROVE  x \in Range(Tail(queue))
    <3>1. PICK i \in DOMAIN queue : x = queue[i]
      BY <2>7 DEF Range
    <3> QED
      BY <2>5, <2>7, <3>1
  <2>8. \A x \in Range(Tail(queue)) : x \in Range(queue)
    BY <2>4 DEF Range
  <2> QED
    BY <2>6, <2>7, <2>8
<1>5. \A i, j \in DOMAIN queue' : queue'[i] = queue'[j] => i = j
  <2>1. SUFFICES ASSUME NEW i \in DOMAIN Tail(queue), NEW j \in DOMAIN Tail(queue),
                        Tail(queue)[i] = Tail(queue)[j]
                 PROVE  i = j
    OBVIOUS
  <2>2. i + 1 = j + 1 /\ i \in Nat /\ j \in Nat
    BY <1>1, <1>3, <2>1
  <2> QED
    BY <2>2
<1>6. \A d \in Conns : conn'[d] \in {"shaking", "accepted"} <=> shaking' = d
  BY <1>2, ListenerAssumption
<1>7. \A d \in Conns : conn'[d] = "queued" <=> d \in Range(queue')
  BY <1>2, <1>4
<1> QED
  BY <1>2, <1>5, <1>6, <1>7

\* The handshake completes with something that both sides can do.
LEMMA HandshakeDoneType ==
  ASSUME TypeInv, NEW c \in Conns, HandshakeDone(c)
  PROVE  /\ TypeInv'
         /\ \E t \in Serving(env) :
              tls'[c] \in Negotiated(t, Key, offer[c], Issued(c)) /\ tls'[c] \in TLS
<1> USE DEF TypeInv, TypeOK, Layout, HandshakeDone, traffic, peers
<1>1. PICK t \in Serving(env) : \E n \in Negotiated(t, Key, offer[c], Issued(c)) :
        tls' = [tls EXCEPT ![c] = n]
  OBVIOUS
<1>2. PICK n \in Negotiated(t, Key, offer[c], Issued(c)) : tls' = [tls EXCEPT ![c] = n]
  BY <1>1
<1>3. n \in TLS
  <2>1. env \in Environment /\ offer[c] \in Offer
    BY ListenerAssumption
  <2>2. Issued(c) \in BOOLEAN
    BY DEF Issued
  <2> QED
    BY <1>2, <2>1, <2>2, NegotiatedWithin
<1>4. tls' \in [Conns -> TLS] /\ tls'[c] = n
  BY <1>2, <1>3
<1>5. /\ conn' \in [Conns -> {"out", "queued", "shaking", "accepted", "open", "closed"}]
      /\ alpn' \in [Conns -> {"http/1.1", "h2"}] /\ byConn' \subseteq Conns
      /\ requests' \in [Conns -> Nat]
  OBVIOUS
<1>6. \A d \in Conns : conn'[d] \in {"shaking", "accepted"} <=> shaking' = d
  OBVIOUS
<1>7. \A d \in Conns : conn'[d] = "queued" <=> d \in Range(queue')
  OBVIOUS
<1> QED
  BY <1>2, <1>4, <1>5, <1>6, <1>7

\* A request's row keeps its type when its state changes or it is described.
LEMMA RowType ==
  ASSUME TypeInv, NEW c \in Conns, NEW k \in Streams(c), NEW row \in Req,
         req' = [req EXCEPT ![c][k] = row]
  PROVE  /\ req'[c] = [req[c] EXCEPT ![k] = row]
         /\ \A d \in Conns \ {c} : req'[d] = req[d]
         /\ \A d \in Conns : req'[d] \in [Streams(d) -> Req]
         /\ DOMAIN req' = Conns
  BY DEF TypeInv, TypeOK, Layout

LEMMA StartType ==
  ASSUME TypeInv, NEW c \in Conns, StartRequest(c)
  PROVE  /\ TypeInv'
         /\ started[c] + 1 \in Streams(c)
         /\ \E r \in BOOLEAN :
              req' = [req EXCEPT ![c][started[c] + 1] = [NoReq EXCEPT !.st = "running",
                                                                     !.records = r]]
<1> USE DEF StartRequest
<1>1. started[c] + 1 \in Streams(c) /\ started[c] \in Nat /\ MaxStreams[c] \in Nat
  BY ListenerAssumption DEF TypeInv, TypeOK, Streams
<1>2. PICK r \in BOOLEAN :
        req' = [req EXCEPT ![c][started[c] + 1] = [NoReq EXCEPT !.st = "running",
                                                               !.records = r]]
  BY ListenerAssumption
<1>3. [NoReq EXCEPT !.st = "running", !.records = r] \in Req
  BY DEF NoReq, Req
<1>4. /\ \A d \in Conns : req'[d] \in [Streams(d) -> Req]
      /\ DOMAIN req' = Conns
  BY <1>1, <1>2, <1>3, RowType
<1>5. /\ started' \in [Conns -> Nat]
      /\ \A d \in Conns : started'[d] \in 0..MaxStreams[d]
  BY <1>1 DEF TypeInv, TypeOK, Layout
<1>6. /\ UNCHANGED <<queue, shaking, conn, client, env, offer, tls, alpn>>
      /\ UNCHANGED <<byConn, hasMeta, requests>>
  BY DEF peers, tracker
<1>7. TypeInv'
  BY <1>4, <1>5, <1>6 DEF TypeInv, TypeOK, Layout
<1> QED
  BY <1>1, <1>2, <1>7

\* What a request records of its connection.
LEMMA ConsumeType ==
  ASSUME TypeInv, NEW c \in Conns, NEW k \in Streams(c), ConsumeHandshake(c, k)
  PROVE  /\ TypeInv'
         /\ req' = [req EXCEPT ![c][k] = [Describe(c, req[c][k]) EXCEPT !.st = "recorded",
                      !.hs = c \in hasMeta /\ requests[c] = 0,
                      !.reused = c \in hasMeta /\ requests[c] > 0]]
<1> DEFINE row == [Describe(c, req[c][k]) EXCEPT !.st = "recorded",
                     !.hs = c \in hasMeta /\ requests[c] = 0,
                     !.reused = c \in hasMeta /\ requests[c] > 0]
<1>1. row \in Req
  <2>1. req[c][k] \in Req /\ tls[c] \in TLS /\ alpn[c] \in {"http/1.1", "h2"}
    BY DEF TypeInv, TypeOK
  <2>2. tls[c].version \in {0, 12, 13} /\ tls[c].cipher \in {""} \cup TLS12Suites \cup TLS13Suites
    <3> NoTLS.version = 0 /\ NoTLS.cipher = ""
      BY DEF NoTLS
    <3>1. CASE tls[c] = NoTLS
      BY <3>1
    <3>2. CASE tls[c] # NoTLS
      BY <2>1, <3>2 DEF TLS
    <3> QED
      BY <3>1, <3>2
  <2>3. /\ (c \in hasMeta /\ requests[c] = 0) \in BOOLEAN
        /\ (c \in hasMeta /\ requests[c] > 0) \in BOOLEAN
    OBVIOUS
  <2>4. Describe(c, req[c][k]) \in Req
    BY <2>1, <2>2, ListenerAssumption DEF Describe, Req
  <2> QED
    BY <2>3, <2>4 DEF Req
<1>2. req' = [req EXCEPT ![c][k] = row]
  BY DEF ConsumeHandshake, TypeInv, TypeOK, Layout
<1> HIDE DEF row
<1>3. (\A d \in Conns : req'[d] \in [Streams(d) -> Req]) /\ DOMAIN req' = Conns
  BY <1>1, <1>2, RowType
<1>4. requests' \in [Conns -> Nat]
  BY DEF ConsumeHandshake, TypeInv, TypeOK
<1> QED
  BY <1>2, <1>3, <1>4 DEF ConsumeHandshake, row, TypeInv, TypeOK, Layout, peers

LEMMA EndType ==
  ASSUME TypeInv, NEW c \in Conns, NEW k \in Streams(c), EndRequest(c, k)
  PROVE  TypeInv' /\ req' = [req EXCEPT ![c][k] = [req[c][k] EXCEPT !.st = "done"]]
<1> USE DEF EndRequest
<1>1. req[c][k] \in Req
  BY DEF TypeInv, TypeOK
<1>2. [req[c][k] EXCEPT !.st = "done"] \in Req
  BY <1>1 DEF Req
<1>3. req' = [req EXCEPT ![c][k] = [req[c][k] EXCEPT !.st = "done"]]
  BY DEF TypeInv, TypeOK, Layout
<1>4. (\A d \in Conns : req'[d] \in [Streams(d) -> Req]) /\ DOMAIN req' = Conns
  BY <1>2, <1>3, RowType
<1> QED
  BY <1>3, <1>4 DEF TypeInv, TypeOK, Layout, peers, tracker

\* Every step keeps the type invariant and the layout.
LEMMA TypeStep == TypeInv /\ [Next]_vars => TypeInv'
<1> SUFFICES ASSUME TypeInv, [Next]_vars PROVE TypeInv'
  OBVIOUS
<1>1. CASE AcceptTCP
  BY <1>1, AcceptType
<1>2. ASSUME NEW c \in Conns, Connect(c) PROVE TypeInv'
  BY <1>2, ConnectType
<1>3. ASSUME NEW c \in Conns, HandshakeDone(c) PROVE TypeInv'
  BY <1>3, HandshakeDoneType
<1>4. ASSUME NEW c \in Conns, HandshakeFails(c) PROVE TypeInv'
  BY <1>4, ListenerAssumption
     DEF HandshakeFails, TypeInv, TypeOK, Layout, peers, tracker, traffic
<1>5. ASSUME NEW c \in Conns, Serve(c) PROVE TypeInv'
  BY <1>5, ListenerAssumption DEF Serve, TypeInv, TypeOK, Layout, peers, traffic
<1>6. ASSUME NEW c \in Conns, StartRequest(c) PROVE TypeInv'
  BY <1>6, StartType
<1>7. ASSUME NEW c \in Conns, Close(c) PROVE TypeInv'
  BY <1>7 DEF Close, TypeInv, TypeOK, Layout, peers, traffic
<1>8. ASSUME NEW c \in Conns, NEW k \in Streams(c), ConsumeHandshake(c, k) PROVE TypeInv'
  BY <1>8, ConsumeType
<1>9. ASSUME NEW c \in Conns, NEW k \in Streams(c), EndRequest(c, k) PROVE TypeInv'
  BY <1>9, EndType
<1>10. CASE UNCHANGED vars
  BY <1>10 DEF vars, TypeInv, TypeOK, Layout
<1> QED
  BY <1>1, <1>2, <1>3, <1>4, <1>5, <1>6, <1>7, <1>8, <1>9, <1>10 DEF Next

LEMMA TypeInit == Init => TypeInv
<1> SUFFICES ASSUME Init PROVE TypeInv
  OBVIOUS
<1>1. NoReq \in Req /\ NoTLS \in TLS
  BY DEF NoReq, Req, NoTLS, TLS
<1>2. Range(queue) = {} /\ queue \in Seq(Conns) /\ DOMAIN queue = {}
  BY DEF Init, Range
<1> QED
  BY <1>1, <1>2, ListenerAssumption DEF Init, TypeInv, TypeOK, Layout

\* The types hold, and a connection waits in the queue of the kernel at most once: it is
\* accepted once, and handed to one goroutine.
THEOREM TypeInvariant == Spec => []TypeInv
  BY TypeInit, TypeStep, PTL DEF Spec

\* The variables have their types; the accept loop is with the one connection that is in
\* its handshake or just accepted, and the queue holds those that wait for it.
THEOREM TypeCorrect == Spec => []TypeOK
<1>1. TypeInv => TypeOK
  BY DEF TypeInv
<1> QED
  BY <1>1, TypeInvariant, PTL

(***************************************************************************)
(* The Tracker.                                                            *)
(***************************************************************************)
LEMMA TrackedStep == TypeInv /\ TrackedWhileLive /\ [Next]_vars => TrackedWhileLive'
<1> SUFFICES ASSUME TypeInv, TrackedWhileLive, [Next]_vars PROVE TrackedWhileLive'
  OBVIOUS
<1> USE DEF TrackedWhileLive, TypeInv, TypeOK, tracker
<1>1. CASE AcceptTCP
  <2>1. Head(queue) \in Conns
    BY <1>1 DEF AcceptTCP
  <2>2. Head(queue) \in Range(queue)
    BY <1>1 DEF AcceptTCP, Range
  <2>3. conn[Head(queue)] = "queued"
    BY <2>1, <2>2
  <2> QED
    BY <1>1, <2>1, <2>3 DEF AcceptTCP
<1>2. ASSUME NEW c \in Conns, Connect(c) PROVE TrackedWhileLive'
  BY <1>2 DEF Connect
<1>3. ASSUME NEW c \in Conns, HandshakeDone(c) PROVE TrackedWhileLive'
  BY <1>3 DEF HandshakeDone
<1>4. ASSUME NEW c \in Conns, HandshakeFails(c) PROVE TrackedWhileLive'
  BY <1>4 DEF HandshakeFails
<1>5. ASSUME NEW c \in Conns, Serve(c) PROVE TrackedWhileLive'
  BY <1>5 DEF Serve
<1>6. ASSUME NEW c \in Conns, StartRequest(c) PROVE TrackedWhileLive'
  BY <1>6 DEF StartRequest
<1>7. ASSUME NEW c \in Conns, Close(c) PROVE TrackedWhileLive'
  BY <1>7 DEF Close
<1>8. ASSUME NEW c \in Conns, NEW k \in Streams(c), ConsumeHandshake(c, k)
      PROVE  TrackedWhileLive'
  BY <1>8 DEF ConsumeHandshake
<1>9. ASSUME NEW c \in Conns, NEW k \in Streams(c), EndRequest(c, k)
      PROVE  TrackedWhileLive'
  BY <1>9 DEF EndRequest
<1>10. CASE UNCHANGED vars
  BY <1>10 DEF vars
<1> QED
  BY <1>1, <1>2, <1>3, <1>4, <1>5, <1>6, <1>7, <1>8, <1>9, <1>10 DEF Next

\* However connections are accepted, served, failed and closed, the Tracker holds a Meta
\* for exactly the live ones, and each of those has it in the context of its requests.
THEOREM Tracking == Spec => []TrackedWhileLive
<1>1. Init => TrackedWhileLive
  BY DEF Init, TrackedWhileLive
<1> QED
  BY <1>1, TypeInvariant, TrackedStep, PTL DEF Spec

(***************************************************************************)
(* The recorded runs.                                                      *)
(***************************************************************************)
RowsOf(c) == {k \in Streams(c) : req[c][k].records /\ req[c][k].st \in {"recorded", "done"}}

\* What the connection runs with is what a handshake with this server can give.
Agreed(c) ==
  \E t \in Serving(env), i \in BOOLEAN : tls[c] \in Negotiated(t, Key, offer[c], i)

Early == {"out", "queued", "shaking", "accepted"}

\* Requests run on connections that have agreed on a version and a suite and that have
\* their Meta, in the order they were started, and a row says what was agreed.
Conversation ==
  \A c \in Conns :
    /\ conn[c] \in {"accepted", "open"} => Agreed(c)
    /\ \A k \in Streams(c) :
         /\ conn[c] \in Early \/ k > started[c] => req[c][k].st = "none"
         /\ req[c][k].st # "none" => Agreed(c) /\ c \in hasMeta
    /\ \A k \in RowsOf(c) :
         req[c][k].version = tls[c].version /\ req[c][k].cipher = tls[c].cipher

\* The Meta has been consumed once a row is recorded, by exactly one row.
Handover ==
  \A c \in Conns :
    /\ requests[c] = 0 <=> RowsOf(c) = {}
    /\ RowsOf(c) # {} => \E k \in RowsOf(c) : {j \in RowsOf(c) : req[c][j].hs} = {k}
    /\ \A k \in RowsOf(c) : req[c][k].reused <=> ~req[c][k].hs

RowsInv == Conversation /\ Handover

LEMMA RowsInit == Init => RowsInv
<1> SUFFICES ASSUME Init PROVE RowsInv
  OBVIOUS
<1>1. \A c \in Conns : \A k \in Streams(c) : req[c][k].st = "none"
  BY DEF Init, NoReq
<1>2. \A c \in Conns : RowsOf(c) = {}
  BY <1>1 DEF RowsOf
<1> QED
  BY <1>1, <1>2 DEF Init, RowsInv, Conversation, Handover

\* A step of the accept loop, of a peer or of ConnState leaves the rows as they were.
LEMMA Elsewhere ==
  ASSUME RowsInv, UNCHANGED <<env, offer, tls, requests, started, req>>,
         hasMeta \subseteq hasMeta',
         \A d \in Conns : conn'[d] \in {"accepted", "open"} => conn[d] \in {"accepted", "open"},
         \A d \in Conns : conn'[d] \in Early => conn[d] \in Early
  PROVE  RowsInv'
<1>1. \A c \in Conns : (Agreed(c) <=> Agreed(c)') /\ RowsOf(c)' = RowsOf(c)
  BY DEF Agreed, RowsOf
<1>2. Conversation'
  BY <1>1 DEF RowsInv, Conversation
<1>3. Handover'
  BY <1>1 DEF RowsInv, Handover
<1> QED
  BY <1>2, <1>3 DEF RowsInv

\* The handshake comes before every request of its connection.
LEMMA HandshakeDoneRows ==
  ASSUME TypeInv, RowsInv, NEW c \in Conns, HandshakeDone(c)
  PROVE  RowsInv'
<1>1. /\ conn[c] = "shaking" /\ conn' = [conn EXCEPT ![c] = "accepted"]
      /\ requests' = [requests EXCEPT ![c] = 0]
      /\ UNCHANGED <<env, offer, hasMeta, started, req>>
      /\ \A d \in Conns \ {c} : tls'[d] = tls[d]
  BY DEF HandshakeDone, peers, traffic, TypeInv, TypeOK
<1>2. Agreed(c)'
  <2>1. PICK t \in Serving(env) : tls'[c] \in Negotiated(t, Key, offer[c], Issued(c))
    BY HandshakeDoneType
  <2>2. Issued(c) \in BOOLEAN
    BY DEF Issued
  <2> QED
    BY <1>1, <2>1, <2>2 DEF Agreed
<1>3. \A d \in Conns \ {c} : (Agreed(d) <=> Agreed(d)')
  BY <1>1 DEF Agreed
<1>4. \A d \in Conns : RowsOf(d)' = RowsOf(d)
  BY <1>1 DEF RowsOf
<1>5. RowsOf(c) = {} /\ \A k \in Streams(c) : req[c][k].st = "none"
  BY <1>1 DEF RowsInv, Conversation, RowsOf, Early
<1>6. Conversation'
  BY <1>1, <1>2, <1>3, <1>4, <1>5 DEF RowsInv, Conversation, TypeInv, TypeOK, Early
<1>7. requests'[c] = 0 /\ \A d \in Conns \ {c} : requests'[d] = requests[d]
  BY <1>1 DEF TypeInv, TypeOK
<1>8. Handover'
  BY <1>1, <1>4, <1>5, <1>7 DEF RowsInv, Handover
<1> QED
  BY <1>6, <1>8 DEF RowsInv

\* A request that has just started is no row, nor was what was in its place.
LEMMA StartRows ==
  ASSUME TypeInv, RowsInv, TrackedWhileLive, NEW c \in Conns, StartRequest(c)
  PROVE  RowsInv'
<1> DEFINE k == started[c] + 1
<1>1. /\ conn[c] = "open" /\ started' = [started EXCEPT ![c] = @ + 1]
      /\ UNCHANGED <<conn, env, offer, tls, hasMeta, requests>>
  BY DEF StartRequest, peers, tracker
<1>2. k \in Streams(c) /\ started[c] \in Nat
  BY StartType DEF TypeInv, Layout
<1>3. PICK r \in BOOLEAN :
        req' = [req EXCEPT ![c][k] = [NoReq EXCEPT !.st = "running", !.records = r]]
  BY StartType
<1>4. PICK row \in Req : row.st = "running" /\ req' = [req EXCEPT ![c][k] = row]
  BY <1>3 DEF NoReq, Req
<1>5. /\ req'[c] = [req[c] EXCEPT ![k] = row] /\ req[c] \in [Streams(c) -> Req]
      /\ \A d \in Conns \ {c} : req'[d] = req[d]
  BY <1>2, <1>4, RowType DEF TypeInv, TypeOK
<1>6. /\ req'[c][k].st = "running"
      /\ \A j \in Streams(c) \ {k} : req'[c][j] = req[c][j]
  BY <1>2, <1>4, <1>5
<1>7. \A d \in Conns : (Agreed(d) <=> Agreed(d)')
  BY <1>1 DEF Agreed
<1>8. req[c][k].st = "none"
  BY <1>2 DEF RowsInv, Conversation
<1>9. \A d \in Conns : RowsOf(d)' = RowsOf(d) /\ k \notin RowsOf(c)
  BY <1>5, <1>6, <1>8 DEF RowsOf
<1> HIDE DEF k
<1>10. \A d \in Conns : \A j \in RowsOf(d) : req'[d][j] = req[d][j]
  BY <1>5, <1>6, <1>9 DEF RowsOf
<1>11. Conversation'
  <2>1. Agreed(c) /\ c \in hasMeta
    BY <1>1 DEF RowsInv, Conversation, TrackedWhileLive
  <2>2. \A d \in Conns : conn'[d] \in {"accepted", "open"} => Agreed(d)'
    BY <1>1, <1>7 DEF RowsInv, Conversation
  <2>3. \A d \in Conns : \A j \in RowsOf(d)' :
          req'[d][j].version = tls'[d].version /\ req'[d][j].cipher = tls'[d].cipher
    BY <1>1, <1>9, <1>10 DEF RowsInv, Conversation
  <2>4. \A d \in Conns : \A j \in Streams(d) :
          req'[d][j].st # "none" => Agreed(d)' /\ d \in hasMeta'
    BY <1>1, <1>5, <1>6, <1>7, <2>1 DEF RowsInv, Conversation
  <2>5. ASSUME NEW d \in Conns, NEW j \in Streams(d), conn'[d] \in Early \/ j > started'[d]
        PROVE  req'[d][j].st = "none"
    <3>1. CASE d # c
      BY <1>1, <1>5, <2>5, <3>1 DEF RowsInv, Conversation, TypeInv, Layout
    <3>2. CASE d = c
      <4>1. started'[c] = k /\ j \in Nat /\ j > k /\ k > started[c]
        BY <1>1, <1>2, <2>5, <3>2 DEF k, TypeInv, Layout, Streams, Early
      <4> QED
        BY <1>2, <1>6, <3>2, <4>1 DEF RowsInv, Conversation, k
    <3> QED
      BY <3>1, <3>2
  <2> QED
    BY <2>2, <2>3, <2>4, <2>5 DEF Conversation
<1>12. Handover'
  BY <1>1, <1>9, <1>10 DEF RowsInv, Handover
<1> QED
  BY <1>11, <1>12 DEF RowsInv

\* The first request that records gets the handshake, whichever stream it is, and the
\* others are marked reused.
LEMMA ConsumeRows ==
  ASSUME TypeInv, RowsInv, NEW c \in Conns, NEW k \in Streams(c), ConsumeHandshake(c, k)
  PROVE  RowsInv'
<1>1. /\ req[c][k].st = "running" /\ req[c][k].records
      /\ requests' = IF c \in hasMeta THEN [requests EXCEPT ![c] = @ + 1] ELSE requests
      /\ UNCHANGED <<conn, env, offer, tls, alpn, hasMeta, started>>
  BY DEF ConsumeHandshake, peers
<1>2. req' = [req EXCEPT ![c][k] = [Describe(c, req[c][k]) EXCEPT !.st = "recorded",
                !.hs = c \in hasMeta /\ requests[c] = 0,
                !.reused = c \in hasMeta /\ requests[c] > 0]]
  BY ConsumeType
<1>3. req[c] \in [Streams(c) -> Req] /\ req[c][k] \in Req /\ requests[c] \in Nat
      /\ DOMAIN req = Conns
  BY DEF TypeInv, TypeOK, Layout
<1>4. c \in hasMeta /\ Agreed(c) /\ k \notin RowsOf(c)
  BY <1>1 DEF RowsInv, Conversation, RowsOf
<1>5. /\ req'[c][k].st = "recorded" /\ req'[c][k].records
      /\ req'[c][k].hs <=> requests[c] = 0
      /\ req'[c][k].reused <=> requests[c] > 0
      /\ req'[c][k].version = tls[c].version /\ req'[c][k].cipher = tls[c].cipher
  <2>1. req'[c][k] = [Describe(c, req[c][k]) EXCEPT !.st = "recorded",
                !.hs = c \in hasMeta /\ requests[c] = 0,
                !.reused = c \in hasMeta /\ requests[c] > 0]
    BY <1>2, <1>3
  <2>2. /\ req'[c][k].st = "recorded" /\ req'[c][k].records = req[c][k].records
        /\ req'[c][k].version = tls[c].version /\ req'[c][k].cipher = tls[c].cipher
    BY <1>3, <2>1 DEF Describe, Req
  <2>3. /\ req'[c][k].hs = (c \in hasMeta /\ requests[c] = 0)
        /\ req'[c][k].reused = (c \in hasMeta /\ requests[c] > 0)
    BY <1>3, <2>1 DEF Describe, Req
  <2> QED
    BY <1>1, <1>4, <2>2, <2>3
<1>6. /\ \A d \in Conns \ {c} : req'[d] = req[d]
      /\ \A j \in Streams(c) \ {k} : req'[c][j] = req[c][j]
  BY <1>2, <1>3
<1>7. /\ \A d \in Conns \ {c} : RowsOf(d)' = RowsOf(d)
      /\ RowsOf(c)' = RowsOf(c) \cup {k}
  BY <1>1, <1>5, <1>6 DEF RowsOf
<1>8. \A d \in Conns : (Agreed(d) <=> Agreed(d)')
  BY <1>1 DEF Agreed
<1>9. \A d \in Conns : \A j \in RowsOf(d) : req'[d][j] = req[d][j]
  BY <1>4, <1>6 DEF RowsOf
<1>10. Conversation'
  <2>1. \A d \in Conns : conn'[d] \in {"accepted", "open"} => Agreed(d)'
    BY <1>1, <1>8 DEF RowsInv, Conversation
  <2>2. \A d \in Conns : \A j \in RowsOf(d)' :
          req'[d][j].version = tls'[d].version /\ req'[d][j].cipher = tls'[d].cipher
    BY <1>1, <1>5, <1>7, <1>9 DEF RowsInv, Conversation
  <2>3. \A d \in Conns : \A j \in Streams(d) :
          /\ conn'[d] \in Early \/ j > started'[d] => req'[d][j].st = "none"
          /\ req'[d][j].st # "none" => Agreed(d)' /\ d \in hasMeta'
    BY <1>1, <1>4, <1>6, <1>8 DEF RowsInv, Conversation
  <2> QED
    BY <2>1, <2>2, <2>3 DEF Conversation
<1>11. requests'[c] = requests[c] + 1 /\ \A d \in Conns \ {c} : requests'[d] = requests[d]
  BY <1>1, <1>4 DEF TypeInv, TypeOK
<1>12. \A j \in RowsOf(c)' : req'[c][j].reused <=> ~req'[c][j].hs
  BY <1>3, <1>5, <1>7, <1>9 DEF RowsInv, Handover
<1>13. \E j \in RowsOf(c)' : {i \in RowsOf(c)' : req'[c][i].hs} = {j}
  <2>1. CASE requests[c] = 0
    <3>1. RowsOf(c) = {}
      BY <2>1 DEF RowsInv, Handover
    <3> QED
      BY <1>5, <1>7, <2>1, <3>1
  <2>2. CASE requests[c] # 0
    <3>1. PICK j \in RowsOf(c) : {i \in RowsOf(c) : req[c][i].hs} = {j}
      BY <2>2 DEF RowsInv, Handover
    <3>2. {i \in RowsOf(c)' : req'[c][i].hs} = {i \in RowsOf(c) : req[c][i].hs}
      BY <1>5, <1>7, <1>9, <2>2
    <3> QED
      BY <1>7, <3>1, <3>2
  <2> QED
    BY <2>1, <2>2
<1>14. Handover'
  <2>1. ASSUME NEW d \in Conns \ {c}
        PROVE  /\ requests'[d] = 0 <=> RowsOf(d)' = {}
               /\ RowsOf(d)' # {} =>
                    \E j \in RowsOf(d)' : {i \in RowsOf(d)' : req'[d][i].hs} = {j}
               /\ \A j \in RowsOf(d)' : req'[d][j].reused <=> ~req'[d][j].hs
    BY <1>6, <1>7, <1>11, <2>1 DEF RowsInv, Handover
  <2>2. requests'[c] # 0 /\ RowsOf(c)' # {}
    BY <1>3, <1>7, <1>11
  <2> QED
    BY <1>12, <1>13, <2>1, <2>2 DEF Handover
<1> QED
  BY <1>10, <1>14 DEF RowsInv

\* A row stays a row when its request ends; a request that records none becomes none.
LEMMA EndRows ==
  ASSUME TypeInv, RowsInv, NEW c \in Conns, NEW k \in Streams(c), EndRequest(c, k)
  PROVE  RowsInv'
<1>1. /\ req[c][k].st = "recorded" \/ (req[c][k].st = "running" /\ ~req[c][k].records)
      /\ UNCHANGED <<conn, env, offer, tls, hasMeta, requests, started>>
  BY DEF EndRequest, peers, tracker
<1>2. req' = [req EXCEPT ![c][k] = [req[c][k] EXCEPT !.st = "done"]]
  BY EndType
<1>3. req[c] \in [Streams(c) -> Req] /\ req[c][k] \in Req /\ DOMAIN req = Conns
  BY DEF TypeInv, TypeOK, Layout
<1>4. /\ \A d \in Conns \ {c} : req'[d] = req[d]
      /\ \A j \in Streams(c) \ {k} : req'[c][j] = req[c][j]
      /\ req'[c][k] = [req[c][k] EXCEPT !.st = "done"]
  BY <1>2, <1>3
<1>5. /\ req'[c][k].st = "done" /\ req[c][k].st # "none"
      /\ req'[c][k].records = req[c][k].records /\ req'[c][k].hs = req[c][k].hs
      /\ req'[c][k].reused = req[c][k].reused
      /\ req'[c][k].version = req[c][k].version /\ req'[c][k].cipher = req[c][k].cipher
  <2>1. req[c][k].st # "none"
    BY <1>1
  <2>2. /\ req'[c][k].st = "done" /\ req'[c][k].records = req[c][k].records
        /\ req'[c][k].hs = req[c][k].hs /\ req'[c][k].reused = req[c][k].reused
    BY ONLY <1>3, <1>4 DEF Req
  <2>3. req'[c][k].version = req[c][k].version /\ req'[c][k].cipher = req[c][k].cipher
    BY ONLY <1>3, <1>4 DEF Req
  <2> QED
    BY <2>1, <2>2, <2>3
<1>6. \A d \in Conns : \A j \in Streams(d) :
        /\ req'[d][j].records = req[d][j].records /\ req'[d][j].hs = req[d][j].hs
        /\ req'[d][j].reused = req[d][j].reused
        /\ req'[d][j].version = req[d][j].version /\ req'[d][j].cipher = req[d][j].cipher
        /\ req'[d][j].st = "none" <=> req[d][j].st = "none"
  <2>1. \A d \in Conns : \A j \in Streams(d) :
          (d = c /\ j = k) \/ req'[d][j] = req[d][j]
    BY <1>4
  <2>2. /\ req'[c][k].records = req[c][k].records /\ req'[c][k].hs = req[c][k].hs
        /\ req'[c][k].reused = req[c][k].reused
        /\ req'[c][k].version = req[c][k].version /\ req'[c][k].cipher = req[c][k].cipher
        /\ req'[c][k].st # "none" /\ req[c][k].st # "none"
    BY <1>5
  <2> QED
    BY ONLY <2>1, <2>2
<1>7. \A d \in Conns : RowsOf(d)' = RowsOf(d) /\ RowsOf(d) \subseteq Streams(d)
  <2>1. RowsOf(c)' = RowsOf(c)
    BY <1>1, <1>4, <1>5 DEF RowsOf
  <2> QED
    BY <1>4, <2>1 DEF RowsOf
<1>8. \A d \in Conns : (Agreed(d) <=> Agreed(d)')
  BY <1>1 DEF Agreed
<1>9. Conversation'
  BY <1>1, <1>6, <1>7, <1>8 DEF RowsInv, Conversation
<1>10. Handover'
  <2>1. \A d \in Conns : {i \in RowsOf(d)' : req'[d][i].hs} = {i \in RowsOf(d) : req[d][i].hs}
    BY <1>6, <1>7
  <2> QED
    BY <1>1, <1>6, <1>7, <2>1 DEF RowsInv, Handover
<1> QED
  BY <1>9, <1>10 DEF RowsInv

LEMMA RowsStep == TypeInv /\ TrackedWhileLive /\ RowsInv /\ [Next]_vars => RowsInv'
<1> SUFFICES ASSUME TypeInv, TrackedWhileLive, RowsInv, [Next]_vars PROVE RowsInv'
  OBVIOUS
<1> USE DEF Early, peers, tracker, traffic
<1>1. CASE AcceptTCP
  <2>1. Head(queue) \in Conns
    BY <1>1 DEF AcceptTCP, TypeInv, TypeOK
  <2>2. Head(queue) \in Range(queue)
    BY <1>1 DEF AcceptTCP, Range, TypeInv, TypeOK
  <2>3. conn[Head(queue)] = "queued"
    BY <2>1, <2>2 DEF TypeInv, TypeOK
  <2> QED
    BY <1>1, <2>1, <2>3, Elsewhere DEF AcceptTCP, TypeInv, TypeOK
<1>2. ASSUME NEW c \in Conns, Connect(c) PROVE RowsInv'
  BY <1>2, Elsewhere DEF Connect, TypeInv, TypeOK
<1>3. ASSUME NEW c \in Conns, HandshakeDone(c) PROVE RowsInv'
  BY <1>3, HandshakeDoneRows
<1>4. ASSUME NEW c \in Conns, HandshakeFails(c) PROVE RowsInv'
  BY <1>4, Elsewhere DEF HandshakeFails, TypeInv, TypeOK
<1>5. ASSUME NEW c \in Conns, Serve(c) PROVE RowsInv'
  BY <1>5, Elsewhere DEF Serve, TypeInv, TypeOK
<1>6. ASSUME NEW c \in Conns, StartRequest(c) PROVE RowsInv'
  BY <1>6, StartRows
<1>7. ASSUME NEW c \in Conns, Close(c) PROVE RowsInv'
  BY <1>7, Elsewhere DEF Close, TypeInv, TypeOK
<1>8. ASSUME NEW c \in Conns, NEW k \in Streams(c), ConsumeHandshake(c, k) PROVE RowsInv'
  BY <1>8, ConsumeRows
<1>9. ASSUME NEW c \in Conns, NEW k \in Streams(c), EndRequest(c, k) PROVE RowsInv'
  BY <1>9, EndRows
<1>10. CASE UNCHANGED vars
  BY <1>10, Elsewhere DEF vars
<1> QED
  BY <1>1, <1>2, <1>3, <1>4, <1>5, <1>6, <1>7, <1>8, <1>9, <1>10 DEF Next

\* Requests run on connections whose handshake is over, a recorded run says what their
\* connection has agreed on, and the Meta of a connection is consumed by exactly one run.
THEOREM RowsInvariant == Spec => []RowsInv
  BY TypeInvariant, Tracking, RowsInit, RowsStep, PTL DEF Spec

\* However many streams record a run, in whatever order, and when the connection closes
\* under them: one of the runs has the handshake, and every other is marked reused.
THEOREM OneHandshake == Spec => []OneHandshakeRow
<1>1. RowsInv => OneHandshakeRow
  <2> SUFFICES ASSUME RowsInv, NEW c \in Conns
               PROVE  /\ RowsOf(c) # {} => Cardinality({k \in RowsOf(c) : req[c][k].hs}) = 1
                      /\ \A k \in RowsOf(c) : req[c][k].reused <=> ~req[c][k].hs
    BY DEF OneHandshakeRow, RowsOf
  <2>1. ASSUME RowsOf(c) # {}
        PROVE  Cardinality({k \in RowsOf(c) : req[c][k].hs}) = 1
    <3>1. PICK k \in RowsOf(c) : {j \in RowsOf(c) : req[c][j].hs} = {k}
      BY <2>1 DEF RowsInv, Handover
    <3> QED
      BY <3>1, FS_Singleton
  <2> QED
    BY <2>1 DEF RowsInv, Handover
<1> QED
  BY <1>1, RowsInvariant, PTL

\* A recorded run is over what its connection negotiated with this server.
LEMMA RowsAgreed ==
  ASSUME RowsInv, NEW r \in Rows
  PROVE  /\ r[1] \in Conns /\ r[2] \in RowsOf(r[1]) /\ Agreed(r[1])
         /\ req[r[1]][r[2]].version = tls[r[1]].version
         /\ req[r[1]][r[2]].cipher = tls[r[1]].cipher
<1>1. PICK c \in Conns : \E k \in RowsOf(c) : r = <<c, k>>
  BY DEF Rows, RowsOf
<1>2. PICK k \in RowsOf(c) : r = <<c, k>>
  BY <1>1
<1>3. k \in Streams(c) /\ req[c][k].st # "none"
  BY DEF RowsOf
<1> QED
  BY <1>2, <1>3 DEF RowsInv, Conversation

\* What is agreed with a server is within what its environment asks for.
LEMMA AgreedWithin ==
  ASSUME TypeInv, NEW c \in Conns, Agreed(c)
  PROVE  /\ env.minVersion \in {"1.3", "tls1.3", "tlsv1.3"} => tls[c].version = 13
         /\ tls[c].version = 12 /\ env.suites # <<>> => tls[c].cipher \in Range(env.suites)
         /\ env.clientCA # "" => tls[c].cert
         /\ env.disableTickets \notin {"0", "false", "no", "off"} => ~tls[c].resumed
<1>1. PICK t \in Serving(env), i \in BOOLEAN : tls[c] \in Negotiated(t, Key, offer[c], i)
  BY DEF Agreed
<1>2. env \in Environment /\ offer[c] \in Offer
  BY ListenerAssumption DEF TypeInv, TypeOK
<1> QED
  BY <1>1, <1>2, NegotiatedWithin

\* Whatever a client offers, no run is recorded over a version, a TLS 1.2 suite or a
\* client without a certificate that the environment of the process rules out.
THEOREM SettingsHonoured == Spec => []RowsHonourSettings
<1>1. TypeInv /\ RowsInv => RowsHonourSettings
  BY RowsAgreed, AgreedWithin DEF RowsHonourSettings
<1> QED
  BY <1>1, TypeInvariant, RowsInvariant, PTL

\* Unless session tickets are turned on, no run of a resumed session has the time of a
\* handshake, so that a cold table holds full handshakes only.
THEOREM ColdIsFull == Spec => []ColdRowsFull
<1>1. TypeInv /\ RowsInv => ColdRowsFull
  BY RowsAgreed, AgreedWithin DEF ColdRowsFull
<1> QED
  BY <1>1, TypeInvariant, RowsInvariant, PTL
=============================================================================
