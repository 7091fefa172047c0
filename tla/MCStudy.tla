-------------------------------- MODULE MCStudy -------------------------------
(***************************************************************************)
(* Small instances of Study.                                               *)
(***************************************************************************)
EXTENDS Study

Line(only, reuse, http11, http2, repeat, warmup) ==
  [only |-> only, reuse |-> reuse, http11 |-> http11, http2 |-> http2,
   repeat |-> repeat, warmup |-> warmup]

\* Cold probes with the defaults and with options, the streams of --reuse, uploads, one
\* upload, and a command line that is refused; over TLS, and over plain HTTP.
Study7 ==
  {[opt |-> Line(TRUE, FALSE, TRUE, FALSE, 0, 0),   series |-> "warming"],
   [opt |-> Line(TRUE, FALSE, FALSE, TRUE, 1, 1),   series |-> "varying"],
   [opt |-> Line(TRUE, FALSE, TRUE, FALSE, 1, 1),   series |-> "plain"],
   [opt |-> Line(TRUE, TRUE, FALSE, FALSE, 2, 3),   series |-> "varying"],
   [opt |-> Line(TRUE, TRUE, TRUE, FALSE, 2, 0),    series |-> "varying"],
   [opt |-> Line(FALSE, FALSE, FALSE, FALSE, 2, 0), series |-> "varying"],
   [opt |-> Line(FALSE, FALSE, TRUE, FALSE, 0, 0),  series |-> "warming"]}

\* curl's report of a request: DNS, TCP and TLS, then the answer, in microseconds.
Report(dns, tcp, tls, rest) ==
  [lookup |-> dns, connect |-> dns + tcp,
   appconnect |-> IF tls = 0 THEN 0 ELSE dns + tcp + tls,
   pretransfer |-> dns + tcp + tls + 1, starttransfer |-> dns + tcp + tls + rest,
   redirect |-> 0, total |-> dns + tcp + tls + rest + 2]

\* Handshakes that get faster, that vary, and plain HTTP.
Reports ==
  [warming |-> [i \in 1..6 |-> Report(3, 20 - i, 900 \div i, 7)],
   varying |-> [i \in 1..6 |-> Report(i, 5, 100 + ((i * 37) % 50), 2 * i)],
   plain   |-> [i \in 1..6 |-> Report(1, 9 + ((i * 3) % 5), 0, i)]]

\* What the theorems about the summaries ask of curl's reports holds of these.
ASSUME ReportsAssumption == WarmupsCount /\ ConnectsTakeTime

Settings == {[op |-> "", grouped |-> TRUE], [op |-> "handshake", grouped |-> TRUE]}
=============================================================================
