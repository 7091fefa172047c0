---------------------------- MODULE MCTLSListener -----------------------------
(***************************************************************************)
(* Small instances of TLSListener.                                         *)
(***************************************************************************)
EXTENDS TLSListener, TLC

Env(tickets, min, suites, ca) ==
  [maxBytes |-> "", serveCA |-> "", disableTickets |-> tickets, minVersion |-> min,
   suites |-> suites, clientCA |-> ca]

\* A connection with three requests, and one before or after it.
ThreeAndOne == <<3, 1>>

\* The defaults, tickets on, a TLS 1.2 pin, client certificates, TLS 1.3 with a pin that
\* has no effect; and five with which the process does not come to serve: a pin without
\* a suite that HTTP/2 requires, a list of no names, a client CA file that is missing, a
\* size limit of zero, a setting that is neither true nor false.
TenEnvs ==
  {Env("", "", <<>>, ""), Env("no", "", <<>>, ""),
   Env("", "1.2", <<"ECDHE_RSA_AES_128", "", "AES_128">>, ""),
   Env("", "", <<>>, "pem"), Env("yes", "tls1.3", <<"AES_128">>, ""),
   Env("", "", <<"AES_128">>, ""), Env("", "", <<"", "">>, ""), Env("", "", <<>>, "missing"),
   [Env("", "", <<>>, "") EXCEPT !.maxBytes = "0"],
   [Env("", "", <<>>, "") EXCEPT !.serveCA = "maybe", !.maxBytes = "5"]}

FewOffers ==
  {[version |-> 13, suites |-> {"ECDHE_RSA_AES_128", "AES_256"}, cert |-> TRUE, resumes |-> TRUE],
   [version |-> 12, suites |-> {"ECDHE_RSA_AES_128", "ECDHE_RSA_AES_256"}, cert |-> FALSE,
    resumes |-> FALSE]}
=============================================================================
