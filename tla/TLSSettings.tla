------------------------------ MODULE TLSSettings -----------------------------
(***************************************************************************)
(* From the environment (internal/config/config.go) to the configuration   *)
(* of the HTTPS listener (internal/certs/tlsconfig.go), and what Go's TLS  *)
(* and HTTP/2 make of it with a client (external).                         *)
(*                                                                         *)
(* A value that can fail to parse is a set: of the one value, or empty.    *)
(* Blank variables are "" and <<>>; addresses and paths are left out.      *)
(***************************************************************************)
EXTENDS Integers, Sequences

TLS12Suites == {"ECDHE_RSA_AES_128", "ECDHE_ECDSA_AES_128", "ECDHE_RSA_AES_256"}
TLS13Suites == {"AES_128", "AES_256"}

KeyOf(suite) == IF suite = "ECDHE_ECDSA_AES_128" THEN "ECDSA" ELSE "RSA"

Environment == [maxBytes: {"", "0", "5", "bad"}, serveCA: STRING, disableTickets: STRING,
                minVersion: STRING, suites: Seq(STRING), clientCA: STRING]

intFromEnv(raw, fallback) ==
  CASE raw = ""    -> {fallback}
    [] raw = "bad" -> {}
    [] raw = "0"   -> {0}
    [] raw = "5"   -> {5}

boolFromEnv(raw, fallback) ==
  {b \in BOOLEAN : \/ raw = "" /\ b = fallback
                   \/ raw \in {"1", "true", "yes", "on"} /\ b
                   \/ raw \in {"0", "false", "no", "off"} /\ ~b}

tlsMinVersionFromEnv(raw) ==
  {v \in {12, 13} : \/ raw \in {"", "1.2", "tls1.2", "tlsv1.2"} /\ v = 12
                    \/ raw \in {"1.3", "tls1.3", "tlsv1.3"} /\ v = 13}

\* The parts between commas; a list of none is the default DNS name, also where the
\* list is one of cipher suites.
splitCSV(parts) ==
  LET names == {parts[i] : i \in DOMAIN parts} \ {""}
  IN  IF names = {} THEN {"localhost"} ELSE names

tlsCipherSuitesFromEnv(parts) ==
  IF parts = <<>> THEN {{}}
  ELSE IF splitCSV(parts) \subseteq TLS12Suites \cup TLS13Suites THEN {splitCSV(parts)} ELSE {}

DefaultMaxBlobBytes == 268435456

FromEnv(env) ==
  [maxBytes: intFromEnv(env.maxBytes, DefaultMaxBlobBytes) \ {0},
   serveCA: boolFromEnv(env.serveCA, TRUE),
   disableTickets: boolFromEnv(env.disableTickets, TRUE),
   minVersion: tlsMinVersionFromEnv(env.minVersion),
   suites: tlsCipherSuitesFromEnv(env.suites),
   clientCA: {env.clientCA}]

\* A file that is missing, or that has no certificates, stops the start.
LoadClientCAs(file) ==
  {pool \in {"none", "pool"} : \/ file = "" /\ pool = "none"
                               \/ file = "pem" /\ pool = "pool"}

\* Mutation: the pool is set and client certificates are not asked for.
Bug_ServerTLSConfig(clientCAs, cfg) ==
  [minVersion |-> cfg.minVersion, suites |-> cfg.suites,
   ticketsDisabled |-> cfg.disableTickets, clientCert |-> FALSE]

\* Mutation: the ticket setting is passed on as it is called, not as it is meant.
Bug_Tickets(clientCAs, cfg) ==
  [minVersion |-> cfg.minVersion, suites |-> cfg.suites,
   ticketsDisabled |-> ~cfg.disableTickets, clientCert |-> clientCAs = "pool"]

ServerTLSConfig(clientCAs, cfg) ==
  [minVersion |-> cfg.minVersion, suites |-> cfg.suites,
   ticketsDisabled |-> cfg.disableTickets, clientCert |-> clientCAs = "pool"]

\* http2.ConfigureServer, as Serve calls it: a list of cipher suites that can be used
\* below TLS 1.3 must have one that HTTP/2 requires.
HTTP2Accepts(tls) ==
  tls.suites = {} \/ tls.minVersion >= 13
  \/ tls.suites \cap {"ECDHE_RSA_AES_128", "ECDHE_ECDSA_AES_128"} # {}

\* The configurations with which the process comes to serve HTTPS: one or none.
Serving(env) ==
  {tls \in UNION {{ServerTLSConfig(pool, cfg) : pool \in LoadClientCAs(cfg.clientCA)} :
                    cfg \in FromEnv(env)} : HTTP2Accepts(tls)}

\* What a client offers: its highest version, suites, whether it has a certificate, and
\* whether it resumes sessions when it can.
Offer == [version: {12, 13}, suites: SUBSET (TLS12Suites \cup TLS13Suites),
          cert: BOOLEAN, resumes: BOOLEAN]

\* crypto/tls: the highest version of both; the list of the server binds TLS 1.2 only,
\* where the suite must also fit the key of the certificate; a session that was issued
\* is resumed if the client likes.
Negotiated(tls, key, offer, issued) ==
  IF offer.version < tls.minVersion \/ (tls.clientCert /\ ~offer.cert) THEN {}
  ELSE [version: {offer.version},
        cipher: IF offer.version = 13 THEN offer.suites \cap TLS13Suites
                ELSE {s \in offer.suites \cap TLS12Suites :
                        KeyOf(s) = key /\ (tls.suites = {} \/ s \in tls.suites)},
        cert: {offer.cert},
        resumed: {offer.resumes /\ issued /\ ~tls.ticketsDisabled}]
=============================================================================
