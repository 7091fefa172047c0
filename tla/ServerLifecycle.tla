---------------------------- MODULE ServerLifecycle ----------------------------
(***************************************************************************)
(* The life of the server process (App.ListenAndServe in                   *)
(* internal/server/server.go, run in cmd/server/main.go): one errgroup of  *)
(* three goroutines, two that serve and one that waits for the group's     *)
(* context and shuts HTTP down, then HTTPS, under one common deadline.     *)
(*                                                                         *)
(* http.Server is external: Shutdown closes the listener, waits for Serve  *)
(* to return, then until no request is active or the deadline passes.      *)
(* The HTTPS accept loop can be inside a handshake while that happens.     *)
(***************************************************************************)
EXTENDS Integers, FiniteSets

CONSTANTS
  Reqs,   \* client requests, each on a connection of its own
  None    \* no request is in its handshake

Servers == {"http", "https"}
ASSUME NoneAssumption == None \notin Reqs

VARIABLES
  signalled,   \* SIGTERM or SIGINT arrived
  ctx,         \* the group's context
  serve,       \* the two serving goroutines
  open,        \* whether the listening socket is open
  inShutdown,  \* http.Server.inShutdown
  down,        \* the third goroutine
  expired,     \* the shutdown deadline has passed
  errs,        \* goroutines that returned an error
  exited,      \* ListenAndServe has returned
  on, req,     \* each request's server and state
  shaking      \* the request whose handshake the HTTPS accept loop is in

vars == <<signalled, ctx, serve, open, inShutdown, down, expired, errs, exited,
          on, req, shaking>>

process == <<signalled, ctx, down, expired, errs, exited>>
clients == <<on, req, shaking>>

Down == {"wait", "stop http", "drain http", "stop https", "drain https", "returned"}

\* net.Listen has opened the HTTPS socket before the goroutines start.
Init ==
  /\ signalled = FALSE /\ ctx = "live"
  /\ serve = [s \in Servers |-> "starting"]
  /\ open = [s \in Servers |-> s = "https"]
  /\ inShutdown = [s \in Servers |-> FALSE]
  /\ down = "wait" /\ expired = FALSE /\ errs = {} /\ exited = FALSE
  /\ on = [r \in Reqs |-> "http"] /\ req = [r \in Reqs |-> "none"]
  /\ shaking = None

ActiveOn(s) == {r \in Reqs : on[r] = s /\ req[r] = "active"}

\* Mutation: the listening socket is left open.
Bug_ServeReturns(s, failed) ==
  /\ serve' = [serve EXCEPT ![s] = "returned"]
  /\ errs' = IF failed THEN errs \cup {s} ELSE errs
  /\ ctx'  = IF failed THEN "cancelled" ELSE ctx
  /\ UNCHANGED <<signalled, open, inShutdown, down, expired, exited, clients>>

\* A goroutine of the group that returns an error cancels the group's context.
ServeReturns(s, failed) ==
  /\ serve' = [serve EXCEPT ![s] = "returned"]
  /\ open' = [open EXCEPT ![s] = FALSE]
  /\ req' = [r \in Reqs |-> IF on[r] = s /\ req[r] = "pending" THEN "refused" ELSE req[r]]
  /\ errs' = IF failed THEN errs \cup {s} ELSE errs
  /\ ctx'  = IF failed THEN "cancelled" ELSE ctx
  /\ UNCHANGED <<signalled, inShutdown, down, expired, exited, on, shaking>>

-----------------------------------------------------------------------------
Signal ==
  /\ ~signalled /\ ~exited
  /\ signalled' = TRUE /\ ctx' = "cancelled"
  /\ UNCHANGED <<serve, open, inShutdown, down, expired, errs, exited, clients>>

\* Serve and ListenAndServe return at once with ErrServerClosed after Shutdown.
Serve(s) ==
  /\ serve[s] = "starting"
  /\ IF inShutdown[s] THEN ServeReturns(s, FALSE)
     ELSE /\ serve' = [serve EXCEPT ![s] = "serving"]
          /\ open' = [open EXCEPT ![s] = TRUE]
          /\ UNCHANGED <<process, inShutdown, clients>>

\* The HTTP port is taken.
ListenFails ==
  /\ serve["http"] = "starting" /\ ~inShutdown["http"]
  /\ ServeReturns("http", TRUE)

\* Accept fails for good while nobody is shutting down.
AcceptBreaks(s) ==
  /\ serve[s] = "serving" /\ ~inShutdown[s] /\ (s = "https" => shaking = None)
  /\ ServeReturns(s, TRUE)

\* Accept fails on the closed listener: ErrServerClosed, which is no error.
AcceptStops(s) ==
  /\ serve[s] = "serving" /\ inShutdown[s] /\ (s = "https" => shaking = None)
  /\ ServeReturns(s, FALSE)

Connect(r, s) ==
  /\ req[r] = "none" /\ open[s]
  /\ on' = [on EXCEPT ![r] = s]
  /\ req' = [req EXCEPT ![r] = "pending"]
  /\ UNCHANGED <<process, serve, open, inShutdown, shaking>>

AcceptHTTP(r) ==
  /\ serve["http"] = "serving" /\ open["http"] /\ on[r] = "http" /\ req[r] = "pending"
  /\ req' = [req EXCEPT ![r] = "active"]
  /\ UNCHANGED <<process, serve, open, inShutdown, on, shaking>>

AcceptHTTPS(r) ==
  /\ serve["https"] = "serving" /\ open["https"] /\ shaking = None
  /\ on[r] = "https" /\ req[r] = "pending"
  /\ shaking' = r
  /\ req' = [req EXCEPT ![r] = "handshake"]
  /\ UNCHANGED <<process, serve, open, inShutdown, on>>

\* The handshake succeeds or fails, also on a listener closed meanwhile.
HandshakeEnds(r) ==
  /\ shaking = r
  /\ shaking' = None
  /\ \E st \in {"active", "refused"} : req' = [req EXCEPT ![r] = st]
  /\ UNCHANGED <<process, serve, open, inShutdown, on>>

Finish(r) ==
  /\ req[r] = "active" /\ ~exited
  /\ req' = [req EXCEPT ![r] = "done"]
  /\ UNCHANGED <<process, serve, open, inShutdown, on, shaking>>

-----------------------------------------------------------------------------
\* <-ctx.Done(): the deadline of both shutdowns starts here.
DownStart ==
  /\ down = "wait" /\ ctx = "cancelled"
  /\ down' = "stop http"
  /\ UNCHANGED <<signalled, ctx, serve, open, inShutdown, expired, errs, exited, clients>>

Expire ==
  /\ down \notin {"wait", "returned"} /\ ~expired
  /\ expired' = TRUE
  /\ UNCHANGED <<signalled, ctx, serve, open, inShutdown, down, errs, exited, clients>>

\* Shutdown sets inShutdown and closes the listener; what waits on it is reset.
StopServer(s, from, to) ==
  /\ down = from /\ down' = to
  /\ inShutdown' = [inShutdown EXCEPT ![s] = TRUE]
  /\ open' = [open EXCEPT ![s] = serve[s] = "starting" /\ @]
  /\ req' = [r \in Reqs |-> IF on[r] = s /\ req[r] = "pending" /\ serve[s] # "starting"
                            THEN "refused" ELSE req[r]]
  /\ UNCHANGED <<signalled, ctx, serve, expired, errs, exited, on, shaking>>

\* Mutation: Shutdown does not wait for the requests under way.
Bug_Drained(s, from, to) ==
  /\ down = from /\ serve[s] # "serving"
  /\ down' = to
  /\ UNCHANGED <<signalled, ctx, serve, open, inShutdown, expired, errs, exited, clients>>

Drained(s, from, to) ==
  /\ down = from /\ serve[s] # "serving"
  /\ ActiveOn(s) = {}
  /\ down' = to
  /\ UNCHANGED <<signalled, ctx, serve, open, inShutdown, expired, errs, exited, clients>>

\* Mutation: the deadline is taken for a clean shutdown.
Bug_TimedOut(s, from, to) ==
  /\ down = from /\ serve[s] # "serving"
  /\ ActiveOn(s) # {} /\ expired
  /\ down' = to
  /\ UNCHANGED <<signalled, ctx, serve, open, inShutdown, expired, errs, exited, clients>>

\* Mutation: Shutdown has no deadline.
Bug_NoDeadline(s, from, to) == down = from /\ FALSE

\* Shutdown returns the error of its context; its requests keep running.
TimedOut(s, from, to) ==
  /\ down = from /\ serve[s] # "serving"
  /\ ActiveOn(s) # {} /\ expired
  /\ down' = to
  /\ errs' = errs \cup {"shutdown"}
  /\ UNCHANGED <<signalled, ctx, serve, open, inShutdown, expired, exited, clients>>

StopHTTP      == StopServer("http", "stop http", "drain http")
StopHTTPS     == StopServer("https", "stop https", "drain https")
DrainedHTTP   == Drained("http", "drain http", "stop https")
DrainedHTTPS  == Drained("https", "drain https", "returned")
TimedOutHTTP  == TimedOut("http", "drain http", "stop https")
TimedOutHTTPS == TimedOut("https", "drain https", "returned")

\* group.Wait returns, and run with it: whatever is still active is cut off.
Exit ==
  /\ ~exited /\ down = "returned" /\ \A s \in Servers : serve[s] = "returned"
  /\ exited' = TRUE
  /\ req' = [r \in Reqs |-> IF req[r] = "active" THEN "cut" ELSE req[r]]
  /\ UNCHANGED <<signalled, ctx, serve, open, inShutdown, down, expired, errs, on, shaking>>

Shutdown == \/ DownStart \/ Expire \/ StopHTTP \/ StopHTTPS \/ DrainedHTTP \/ DrainedHTTPS
            \/ TimedOutHTTP \/ TimedOutHTTPS \/ Exit

Next ==
  \/ Signal \/ ListenFails \/ Shutdown
  \/ \E s \in Servers : Serve(s) \/ AcceptBreaks(s) \/ AcceptStops(s)
  \/ \E r \in Reqs : \/ AcceptHTTP(r) \/ AcceptHTTPS(r) \/ HandshakeEnds(r) \/ Finish(r)
                     \/ \E s \in Servers : Connect(r, s)

Spec == Init /\ [][Next]_vars

\* The goroutines run, timers fire, and a handshake ends within its own timeout.
\* Requests may take as long as they like and nobody need send a signal.
FairSpec ==
  /\ Spec
  /\ WF_vars(Shutdown)
  /\ \A s \in Servers : WF_vars(Serve(s)) /\ WF_vars(AcceptStops(s))
  /\ \A r \in Reqs : WF_vars(HandshakeEnds(r))

-----------------------------------------------------------------------------
\* Type invariant; a request is in its handshake iff the accept loop is with it.
TypeOK ==
  /\ signalled \in BOOLEAN /\ expired \in BOOLEAN /\ exited \in BOOLEAN
  /\ ctx \in {"live", "cancelled"} /\ down \in Down
  /\ serve \in [Servers -> {"starting", "serving", "returned"}]
  /\ open \in [Servers -> BOOLEAN] /\ inShutdown \in [Servers -> BOOLEAN]
  /\ errs \subseteq {"http", "https", "shutdown"}
  /\ on \in [Reqs -> Servers]
  /\ req \in [Reqs -> {"none", "pending", "handshake", "active", "done", "refused", "cut"}]
  /\ \A r \in Reqs : req[r] = "handshake" <=> shaking = r
  /\ \A s \in Servers : serve[s] = "returned" => ~open[s]

\* The process exits without an error only if no request was cut off.
CleanExitCutsNothing ==
  exited /\ errs = {} => \A r \in Reqs : req[r] # "cut"

\* No request is cut off before the shutdown deadline.
CutOnlyAtDeadline == \A r \in Reqs : req[r] = "cut" => expired

\* A signal, a port that is taken or a listener that breaks ends in the exit of the
\* process, whatever requests and handshakes are under way.
ShutsDown == ctx = "cancelled" ~> exited
=============================================================================
