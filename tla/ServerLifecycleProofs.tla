------------------------- MODULE ServerLifecycleProofs -------------------------
(***************************************************************************)
(* Proofs about ServerLifecycle for every set of requests: its type        *)
(* invariant, that no request is cut off before the deadline of the        *)
(* shutdown, and that a clean exit cuts none.                              *)
(***************************************************************************)
EXTENDS ServerLifecycle, TLAPS

(***************************************************************************)
(* Type correctness.                                                       *)
(***************************************************************************)
\* Once the goroutine that serves has returned, its socket is closed and what waited
\* on it is refused; the rest of the type invariant is as before.
LEMMA ServeReturnsType ==
  ASSUME TypeOK, NEW s \in Servers, NEW failed \in BOOLEAN, ServeReturns(s, failed)
  PROVE  TypeOK'
  BY DEF TypeOK, ServeReturns, Servers

LEMMA StopServerType ==
  ASSUME TypeOK, NEW s \in Servers, NEW from, NEW to \in Down, StopServer(s, from, to)
  PROVE  TypeOK'
  BY DEF TypeOK, StopServer, Servers

\* A server drains in time or times out.
LEMMA DrainType ==
  ASSUME TypeOK, NEW s \in Servers, NEW from, NEW to \in Down,
         Drained(s, from, to) \/ TimedOut(s, from, to)
  PROVE  TypeOK'
  BY DEF TypeOK, Drained, TimedOut, clients

\* Every step keeps the type invariant.
LEMMA TypeStep == TypeOK /\ [Next]_vars => TypeOK'
<1> SUFFICES ASSUME TypeOK, [Next]_vars PROVE TypeOK'
  OBVIOUS
<1> USE DEF process, clients
<1>1. CASE Signal
  BY <1>1 DEF Signal, TypeOK
<1>2. CASE ListenFails
  BY <1>2, ServeReturnsType DEF ListenFails, Servers
<1>3. CASE DownStart \/ Expire
  BY <1>3 DEF DownStart, Expire, TypeOK, Down
<1>4. CASE StopHTTP \/ StopHTTPS
  BY <1>4, StopServerType DEF StopHTTP, StopHTTPS, Servers, Down
<1>5. CASE DrainedHTTP \/ DrainedHTTPS \/ TimedOutHTTP \/ TimedOutHTTPS
  BY <1>5, DrainType
     DEF DrainedHTTP, DrainedHTTPS, TimedOutHTTP, TimedOutHTTPS, Servers, Down
<1>6. CASE Exit
  BY <1>6 DEF Exit, TypeOK
<1>7. ASSUME NEW s \in Servers, Serve(s)
      PROVE  TypeOK'
  <2>1. CASE inShutdown[s]
    BY <1>7, <2>1, ServeReturnsType DEF Serve
  <2>2. CASE ~inShutdown[s]
    BY <1>7, <2>2 DEF Serve, TypeOK
  <2> QED
    BY <2>1, <2>2
<1>8. ASSUME NEW s \in Servers, AcceptBreaks(s) \/ AcceptStops(s)
      PROVE  TypeOK'
  BY <1>8, ServeReturnsType DEF AcceptBreaks, AcceptStops
<1>9. ASSUME NEW r \in Reqs, AcceptHTTP(r)
      PROVE  TypeOK'
  BY <1>9 DEF AcceptHTTP, TypeOK
<1>10. ASSUME NEW r \in Reqs, AcceptHTTPS(r)
       PROVE  TypeOK'
  BY <1>10, NoneAssumption DEF AcceptHTTPS, TypeOK
<1>11. ASSUME NEW r \in Reqs, HandshakeEnds(r)
       PROVE  TypeOK'
  BY <1>11, NoneAssumption DEF HandshakeEnds, TypeOK
<1>12. ASSUME NEW r \in Reqs, Finish(r)
       PROVE  TypeOK'
  BY <1>12 DEF Finish, TypeOK
<1>13. ASSUME NEW r \in Reqs, NEW s \in Servers, Connect(r, s)
       PROVE  TypeOK'
  BY <1>13 DEF Connect, TypeOK
<1>14. CASE UNCHANGED vars
  BY <1>14 DEF vars, TypeOK
<1>15. CASE Shutdown
  BY <1>3, <1>4, <1>5, <1>6, <1>15 DEF Shutdown
<1> QED
  BY <1>1, <1>2, <1>7, <1>8, <1>9, <1>10, <1>11, <1>12, <1>13, <1>14, <1>15, Zenon DEF Next

\* The variables have their types, the accept loop is inside the handshake of exactly
\* the request that is in one, and a server that has returned has closed its socket.
THEOREM TypeCorrect == Spec => []TypeOK
<1>1. ASSUME Init PROVE TypeOK
  <2>1. \A r \in Reqs : req[r] = "handshake" <=> shaking = r
    BY <1>1, NoneAssumption DEF Init
  <2>2. \A s \in Servers : serve[s] = "returned" => ~open[s]
    BY <1>1 DEF Init
  <2>3. /\ serve \in [Servers -> {"starting", "serving", "returned"}]
        /\ open \in [Servers -> BOOLEAN] /\ inShutdown \in [Servers -> BOOLEAN]
        /\ on \in [Reqs -> Servers]
        /\ req \in [Reqs -> {"none", "pending", "handshake", "active", "done", "refused", "cut"}]
    BY <1>1 DEF Init, Servers
  <2> QED
    BY <1>1, <2>1, <2>2, <2>3 DEF Init, TypeOK, Down
<1> QED
  BY <1>1, TypeStep, PTL DEF Spec

(***************************************************************************)
(* The shutdown.                                                           *)
(***************************************************************************)
\* The steps of the third goroutine that come after it has shut a server down.
Past(s) ==
  IF s = "http" THEN {"stop https", "drain https", "returned"} ELSE {"returned"}

\* Handshakes are done by the HTTPS accept loop, which is still running.
LoopShakes ==
  \A r \in Reqs : shaking = r => on[r] = "https" /\ serve["https"] = "serving"

\* A server that is draining, or has drained, is in shutdown.
MarkedDown ==
  /\ down = "drain http" => inShutdown["http"]
  /\ down = "drain https" => inShutdown["https"]

\* Nothing can become active any more on a server that was shut down, and nothing is
\* active unless its Shutdown returned the error of its context.
Quiet(s) ==
  down \in Past(s) => /\ inShutdown[s] /\ serve[s] # "serving"
                      /\ ActiveOn(s) = {} \/ "shutdown" \in errs

\* Requests are cut off by an exit after a Shutdown that returned an error, and a
\* Shutdown returns one only when the deadline has passed.
CutsAreReported ==
  /\ \A r \in Reqs : req[r] = "cut" => exited /\ "shutdown" \in errs
  /\ "shutdown" \in errs => expired

ShutdownInv ==
  LoopShakes /\ MarkedDown /\ (\A s \in Servers : Quiet(s)) /\ CutsAreReported

LEMMA ShutdownInit == Init => ShutdownInv
  BY NoneAssumption DEF Init, ShutdownInv, LoopShakes, MarkedDown, Quiet, Past,
                        CutsAreReported, Servers

\* A server that stops serving makes no request active and cuts none.
LEMMA ServeReturnsQuiet ==
  ASSUME TypeOK, ShutdownInv, NEW s \in Servers, NEW failed \in BOOLEAN,
         ServeReturns(s, failed), s = "https" => \A r \in Reqs : shaking # r
  PROVE  ShutdownInv'
<1>1. LoopShakes'
  BY DEF TypeOK, ShutdownInv, LoopShakes, ServeReturns, Servers
<1>2. MarkedDown'
  BY DEF ShutdownInv, MarkedDown, ServeReturns
<1>3. ASSUME NEW z \in Servers
      PROVE  Quiet(z)'
  BY <1>3 DEF TypeOK, ShutdownInv, Quiet, ActiveOn, ServeReturns, Servers, Past
<1>4. CutsAreReported'
  BY DEF TypeOK, ShutdownInv, CutsAreReported, ServeReturns, Servers
<1> QED
  BY <1>1, <1>2, <1>3, <1>4 DEF ShutdownInv

\* Shutdown marks the server and makes no request active.
LEMMA StopServerQuiet ==
  ASSUME TypeOK, ShutdownInv, StopHTTP \/ StopHTTPS
  PROVE  ShutdownInv'
<1> USE DEF StopHTTP, StopHTTPS, StopServer
<1>1. LoopShakes'
  BY DEF TypeOK, ShutdownInv, LoopShakes
<1>2. MarkedDown'
  BY DEF TypeOK, ShutdownInv, MarkedDown, Servers
<1>3. ASSUME NEW s \in Servers
      PROVE  Quiet(s)'
  <2>1. Quiet(s)
    BY <1>3 DEF ShutdownInv
  <2>2. ActiveOn(s)' = ActiveOn(s)
    <3>1. on' = on /\ \A r \in Reqs : req'[r] = "active" <=> req[r] = "active"
      OBVIOUS
    <3> QED
      BY ONLY <3>1 DEF ActiveOn
  <2>3. down' \in Past(s) => down \in Past(s)
    BY DEF Past, Servers
  <2>4. /\ inShutdown[s] => inShutdown'[s]
        /\ serve' = serve /\ errs' = errs
    BY DEF TypeOK
  <2> QED
    BY <2>1, <2>2, <2>3, <2>4 DEF Quiet
<1>4. CutsAreReported'
  BY DEF TypeOK, ShutdownInv, CutsAreReported
<1> QED
  BY <1>1, <1>2, <1>3, <1>4 DEF ShutdownInv

\* A Shutdown that returns has seen its server idle, or returns an error at the deadline.
LEMMA DrainQuiet ==
  ASSUME TypeOK, ShutdownInv, DrainedHTTP \/ DrainedHTTPS \/ TimedOutHTTP \/ TimedOutHTTPS
  PROVE  ShutdownInv'
<1> USE DEF DrainedHTTP, DrainedHTTPS, TimedOutHTTP, TimedOutHTTPS, Drained, TimedOut, clients
<1>1. LoopShakes'
  BY DEF ShutdownInv, LoopShakes
<1>2. MarkedDown'
  BY DEF ShutdownInv, MarkedDown
<1>3. ASSUME NEW s \in Servers
      PROVE  Quiet(s)'
  <2>1. Quiet(s) /\ MarkedDown /\ s \in {"http", "https"}
    BY <1>3 DEF ShutdownInv, Servers
  <2>2. /\ ActiveOn(s)' = ActiveOn(s) /\ inShutdown' = inShutdown /\ serve' = serve
        /\ errs \subseteq errs'
    BY DEF TypeOK, ActiveOn
  <2>3. down' \in Past(s) =>
          \/ down \in Past(s)
          \/ /\ inShutdown[s] /\ serve[s] # "serving"
             /\ ActiveOn(s) = {} \/ "shutdown" \in errs'
    <3>1. CASE DrainedHTTP \/ TimedOutHTTP
      BY <2>1, <3>1 DEF Past, MarkedDown, TypeOK, ActiveOn
    <3>2. CASE DrainedHTTPS \/ TimedOutHTTPS
      BY <2>1, <3>2 DEF Past, MarkedDown, TypeOK, ActiveOn
    <3> QED
      BY <3>1, <3>2
  <2> QED
    BY <2>1, <2>2, <2>3 DEF Quiet
<1>4. CutsAreReported'
  BY DEF TypeOK, ShutdownInv, CutsAreReported
<1> QED
  BY <1>1, <1>2, <1>3, <1>4 DEF ShutdownInv

\* The exit finds both servers quiet: what it cuts off is active behind an error.
LEMMA ExitQuiet == ASSUME TypeOK, ShutdownInv, Exit PROVE ShutdownInv'
<1>1. LoopShakes' /\ MarkedDown'
  BY DEF ShutdownInv, LoopShakes, MarkedDown, Exit
<1>2. ASSUME NEW s \in Servers
      PROVE  Quiet(s)'
  BY <1>2 DEF TypeOK, ShutdownInv, Quiet, ActiveOn, Exit
<1>3. ASSUME NEW r \in Reqs, req[r] = "active"
      PROVE  "shutdown" \in errs
  <2>1. Quiet(on[r]) /\ on[r] \in Servers /\ r \in ActiveOn(on[r])
    BY <1>3 DEF TypeOK, ShutdownInv, ActiveOn
  <2>2. down \in Past(on[r])
    BY <2>1 DEF Exit, Past, Servers
  <2> QED
    BY <2>1, <2>2 DEF Quiet
<1>4. CutsAreReported'
  BY <1>3 DEF TypeOK, ShutdownInv, CutsAreReported, Exit
<1> QED
  BY <1>1, <1>2, <1>4 DEF ShutdownInv

\* A connection is accepted only while its server serves, which no quiet server does.
LEMMA ClientsQuiet ==
  ASSUME TypeOK, ShutdownInv, NEW r \in Reqs,
         \/ AcceptHTTP(r) \/ AcceptHTTPS(r) \/ HandshakeEnds(r) \/ Finish(r)
         \/ \E s \in Servers : Connect(r, s)
  PROVE  ShutdownInv'
<1> USE DEF process
<1>q. \A s \in Servers : Quiet(s)
  BY DEF ShutdownInv
<1>1. CASE AcceptHTTP(r)
  <2>1. LoopShakes' /\ MarkedDown' /\ CutsAreReported'
    BY <1>1 DEF AcceptHTTP, TypeOK, ShutdownInv, LoopShakes, MarkedDown, CutsAreReported
  <2>2. \A s \in Servers : Quiet(s)'
    BY <1>1, <1>q DEF AcceptHTTP, TypeOK, ActiveOn, Quiet, Servers
  <2> QED
    BY <2>1, <2>2 DEF ShutdownInv
<1>2. CASE AcceptHTTPS(r)
  <2>1. LoopShakes' /\ MarkedDown'
    BY <1>2, NoneAssumption DEF AcceptHTTPS, TypeOK, ShutdownInv, LoopShakes, MarkedDown
  <2>2. CutsAreReported'
    BY <1>2 DEF AcceptHTTPS, TypeOK, ShutdownInv, CutsAreReported
  <2>3. \A s \in Servers : ActiveOn(s)' = ActiveOn(s)
    BY <1>2 DEF AcceptHTTPS, TypeOK, ActiveOn
  <2>4. \A s \in Servers : Quiet(s)'
    BY <1>2, <1>q, <2>3 DEF AcceptHTTPS, Quiet
  <2> QED
    BY <2>1, <2>2, <2>4 DEF ShutdownInv
<1>3. CASE HandshakeEnds(r)
  <2>1. LoopShakes' /\ MarkedDown' /\ CutsAreReported'
    BY <1>3, NoneAssumption
       DEF HandshakeEnds, TypeOK, ShutdownInv, LoopShakes, MarkedDown, CutsAreReported
  <2>2. on[r] = "https" /\ serve["https"] = "serving"
    BY <1>3 DEF HandshakeEnds, ShutdownInv, LoopShakes
  <2>3. \A s \in Servers : Quiet(s)'
    BY <1>3, <1>q, <2>2 DEF HandshakeEnds, TypeOK, ActiveOn, Quiet, Servers
  <2> QED
    BY <2>1, <2>3 DEF ShutdownInv
<1>4. CASE Finish(r)
  <2>1. LoopShakes' /\ MarkedDown' /\ CutsAreReported'
    BY <1>4 DEF Finish, TypeOK, ShutdownInv, LoopShakes, MarkedDown, CutsAreReported
  <2>2. \A s \in Servers : ActiveOn(s)' \subseteq ActiveOn(s)
    BY <1>4 DEF Finish, TypeOK, ActiveOn
  <2>3. \A s \in Servers : Quiet(s)'
    BY <1>4, <1>q, <2>2 DEF Finish, Quiet
  <2> QED
    BY <2>1, <2>3 DEF ShutdownInv
<1>5. ASSUME NEW s \in Servers, Connect(r, s)
      PROVE  ShutdownInv'
  <2>1. LoopShakes'
    BY <1>5 DEF Connect, TypeOK, ShutdownInv, LoopShakes
  <2>2. ASSUME NEW z \in Servers
        PROVE  ActiveOn(z)' = ActiveOn(z)
    BY <1>5 DEF Connect, TypeOK, ActiveOn
  <2>3. MarkedDown' /\ \A z \in Servers : Quiet(z)'
    BY <1>5, <2>2 DEF Connect, ShutdownInv, MarkedDown, Quiet
  <2>4. CutsAreReported'
    BY <1>5 DEF Connect, TypeOK, ShutdownInv, CutsAreReported
  <2> QED
    BY <2>1, <2>3, <2>4 DEF ShutdownInv
<1> QED
  BY <1>1, <1>2, <1>3, <1>4, <1>5

\* A server that was shut down before it came to serve returns at once.
LEMMA ServeQuiet ==
  ASSUME TypeOK, ShutdownInv, NEW s \in Servers, Serve(s)
  PROVE  ShutdownInv'
<1>1. \A r \in Reqs : s = "https" => shaking # r
  BY DEF ShutdownInv, LoopShakes, Serve
<1>2. CASE inShutdown[s]
  BY <1>1, <1>2, ServeReturnsQuiet DEF Serve
<1>3. CASE ~inShutdown[s]
  <2>1. LoopShakes'
    BY <1>1, <1>3 DEF Serve, TypeOK, ShutdownInv, LoopShakes, process, clients, Servers
  <2>2. MarkedDown'
    BY <1>3 DEF Serve, ShutdownInv, MarkedDown, process, clients
  <2>3. ASSUME NEW z \in Servers
        PROVE  Quiet(z)'
    BY <1>3, <2>3 DEF Serve, TypeOK, ShutdownInv, Quiet, ActiveOn, process, clients
  <2>4. CutsAreReported'
    BY <1>3 DEF Serve, ShutdownInv, CutsAreReported, process, clients
  <2> QED
    BY <2>1, <2>2, <2>3, <2>4 DEF ShutdownInv
<1> QED
  BY <1>2, <1>3

LEMMA ShutdownStep == TypeOK /\ ShutdownInv /\ [Next]_vars => ShutdownInv'
<1> SUFFICES ASSUME TypeOK, ShutdownInv, [Next]_vars PROVE ShutdownInv'
  OBVIOUS
<1>1. CASE Signal
  BY <1>1 DEF Signal, ShutdownInv, LoopShakes, MarkedDown, Quiet, ActiveOn, CutsAreReported,
              clients
<1>2. CASE DownStart
  <2>1. LoopShakes' /\ MarkedDown' /\ CutsAreReported'
    BY <1>2 DEF DownStart, ShutdownInv, LoopShakes, MarkedDown, CutsAreReported, clients
  <2>2. \A s \in Servers : Quiet(s)'
    BY <1>2 DEF DownStart, Quiet, Past
  <2> QED
    BY <2>1, <2>2 DEF ShutdownInv
<1>11. CASE Expire
  BY <1>11 DEF Expire, ShutdownInv, LoopShakes, MarkedDown, Quiet, ActiveOn, CutsAreReported,
               clients
<1>3. CASE ListenFails
  BY <1>3, ServeReturnsQuiet DEF ListenFails, Servers
<1>4. CASE StopHTTP \/ StopHTTPS
  BY <1>4, StopServerQuiet
<1>5. CASE DrainedHTTP \/ DrainedHTTPS \/ TimedOutHTTP \/ TimedOutHTTPS
  BY <1>5, DrainQuiet
<1>6. CASE Exit
  BY <1>6, ExitQuiet
<1>7. ASSUME NEW s \in Servers, Serve(s)
      PROVE  ShutdownInv'
  BY <1>7, ServeQuiet
<1>8. ASSUME NEW s \in Servers, AcceptBreaks(s) \/ AcceptStops(s)
      PROVE  ShutdownInv'
  BY <1>8, ServeReturnsQuiet, NoneAssumption DEF AcceptBreaks, AcceptStops
<1>9. ASSUME NEW r \in Reqs,
             \/ AcceptHTTP(r) \/ AcceptHTTPS(r) \/ HandshakeEnds(r) \/ Finish(r)
             \/ \E s \in Servers : Connect(r, s)
      PROVE  ShutdownInv'
  BY <1>9, ClientsQuiet
<1>10. CASE UNCHANGED vars
  BY <1>10 DEF vars, ShutdownInv, LoopShakes, MarkedDown, Quiet, ActiveOn, CutsAreReported
<1>12. CASE Shutdown
  BY <1>2, <1>4, <1>5, <1>6, <1>11, <1>12 DEF Shutdown
<1> QED
  BY <1>1, <1>3, <1>7, <1>8, <1>9, <1>10, <1>12, Zenon DEF Next

\* When the shutdown has gone past a server, nothing becomes active on it any more, and
\* what still is was left there by a Shutdown that returned the error of its deadline.
THEOREM ShutdownInvariant == Spec => []ShutdownInv
  BY TypeCorrect, ShutdownInit, ShutdownStep, PTL DEF Spec

\* A request, whichever server it is on and wherever the shutdown catches it, is cut off
\* only after the deadline that both servers share.
THEOREM CutsAtDeadline == Spec => []CutOnlyAtDeadline
<1>1. ShutdownInv => CutOnlyAtDeadline
  BY DEF ShutdownInv, CutsAreReported, CutOnlyAtDeadline
<1> QED
  BY <1>1, ShutdownInvariant, PTL

\* If ListenAndServe returns without an error, every request that was active on either
\* server had finished, also one whose handshake ended during the shutdown.
THEOREM CleanExit == Spec => []CleanExitCutsNothing
<1>1. ShutdownInv => CleanExitCutsNothing
  BY DEF ShutdownInv, CutsAreReported, CleanExitCutsNothing
<1> QED
  BY <1>1, ShutdownInvariant, PTL
=============================================================================
