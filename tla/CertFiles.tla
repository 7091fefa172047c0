------------------------------- MODULE CertFiles -------------------------------
(***************************************************************************)
(* The server's certificate files (internal/certs/certs.go) over the       *)
(* starts of its container (scripts/entrypoint.sh, cmd/server/main.go).    *)
(*                                                                         *)
(* A start builds the trust bundle, then loads the certificate and key if  *)
(* both files exist, refuses to run if one of them does, and otherwise     *)
(* generates a CA, a certificate and a key and writes the three files one  *)
(* after the other.  A start can end at every step (a signal, a call that  *)
(* fails); the files outlive it.                                           *)
(***************************************************************************)
EXTENDS Integers

CONSTANT MaxStarts   \* bound on the starts of the container

ASSUME MaxStartsAssumption == MaxStarts \in Nat

(***************************************************************************)
(* A file is absent, empty, a part of a PEM or all of it.  by is the start *)
(* that generated it, 0 for a file the operator provided: a certificate    *)
(* belongs to the key, and is signed by the CA, of the same start.         *)
(***************************************************************************)
Files   == {"ca", "cert", "key"}
Content == [kind: {"absent", "empty", "part", "whole"}, by: Nat]

Absent   == [kind |-> "absent", by |-> 0]
Empty    == [kind |-> "empty", by |-> 0]
Part(g)  == [kind |-> "part", by |-> g]
Whole(g) == [kind |-> "whole", by |-> g]

VARIABLES
  given,      \* the files the operator provided
  file,       \* what each file holds
  pc,         \* where the process is
  starts,     \* starts so far, the present one included
  bundle,     \* the CAs in SSL_CERT_FILE, by the start that generated them
  material,   \* certs.Material: whose pair is served, and the CA at /ca.crt
  first,      \* history: the material served first
  cut         \* history: a start ended with a certificate written and no key yet

vars == <<given, file, pc, starts, bundle, material, first, cut>>

Nothing  == [pair |-> -1, ca |-> Absent]
Material == [pair: Nat \cup {-1}, ca: Content]

Init ==
  /\ given \in SUBSET Files
  /\ file = [f \in Files |-> IF f \in given THEN Whole(0) ELSE Absent]
  /\ pc = "off" /\ starts = 0
  /\ bundle = {} /\ material = Nothing /\ first = Nothing /\ cut = FALSE

-----------------------------------------------------------------------------
\* Mutation: the CA file is not appended.
Bug_Entrypoint ==
  /\ pc \in {"off", "refused"} /\ starts < MaxStarts
  /\ starts' = starts + 1 /\ pc' = "stat" /\ bundle' = {}
  /\ UNCHANGED <<given, file, material, first, cut>>

\* The bundle is made of the CA file as this start finds it.
Entrypoint ==
  /\ pc \in {"off", "refused"} /\ starts < MaxStarts
  /\ starts' = starts + 1
  /\ bundle' = IF file["ca"].kind = "whole" THEN {file["ca"].by} ELSE {}
  /\ pc' = "stat"
  /\ UNCHANGED <<given, file, material, first, cut>>

Exists(f) == file[f].kind # "absent"

\* Mutation: the certificate and its key are written before the CA.
Bug_After(f) == CASE f = "stat" -> "cert" [] f = "cert" -> "key"
                  [] f = "key" -> "ca" [] f = "ca" -> "generated"

\* Where a start goes on after a step, and in which order it writes the files.
After(f) == CASE f = "stat" -> "ca" [] f = "ca" -> "cert"
              [] f = "cert" -> "key" [] f = "key" -> "generated"

\* Mutation: a pair without its CA file is replaced like one that is missing.
Bug_NeedsCA ==
  /\ pc = "stat"
  /\ pc' = IF \A f \in Files : Exists(f) THEN "load" ELSE After("stat")
  /\ UNCHANGED <<given, starts, file, bundle, material, first, cut>>

\* Mutation: every start generates.
Bug_Generates ==
  /\ pc = "stat" /\ pc' = After("stat")
  /\ UNCHANGED <<given, starts, file, bundle, material, first, cut>>

\* Mutation: a CA file alone counts as an incomplete set of files.
Bug_RefusesCA ==
  /\ pc = "stat"
  /\ pc' = IF Exists("cert") /\ Exists("key") THEN "load"
           ELSE IF \E f \in Files : Exists(f) THEN "refused"
           ELSE After("stat")
  /\ UNCHANGED <<given, starts, file, bundle, material, first, cut>>

LoadOrGenerate ==
  /\ pc = "stat"
  /\ pc' = IF Exists("cert") /\ Exists("key") THEN "load"
           ELSE IF Exists("cert") \/ Exists("key") THEN "refused"
           ELSE After("stat")
  /\ UNCHANGED <<given, starts, file, bundle, material, first, cut>>

Serve(m) == /\ pc' = "serving"
            /\ material' = m
            /\ first' = IF first = Nothing THEN m ELSE first

\* tls.LoadX509KeyPair takes a certificate and the key that belongs to it.
PairLoads == /\ file["cert"].kind = "whole" /\ file["key"].kind = "whole"
             /\ file["cert"].by = file["key"].by

\* Without a CA file, or with an empty one, the certificate is offered in its place.
loadProvided ==
  /\ pc = "load" /\ PairLoads
  /\ Serve([pair |-> file["cert"].by,
            ca   |-> IF file["ca"].kind \in {"absent", "empty"} THEN file["cert"]
                                                                ELSE file["ca"]])
  /\ UNCHANGED <<given, starts, file, bundle, cut>>

LoadFails ==
  /\ pc = "load" /\ ~PairLoads
  /\ pc' = "refused"
  /\ UNCHANGED <<given, starts, file, bundle, material, first, cut>>

(***************************************************************************)
(* generateAndWrite: os.WriteFile truncates, then writes, file after file. *)
(***************************************************************************)
Set(f, c) == file' = [file EXCEPT ![f] = c]

Truncate(f) ==
  /\ pc = f /\ file[f] # Empty
  /\ Set(f, Empty)
  /\ UNCHANGED <<given, starts, pc, bundle, material, first, cut>>

WriteFile(f) ==
  /\ pc = f /\ file[f] = Empty
  /\ Set(f, Whole(starts))
  /\ pc' = After(f)
  /\ UNCHANGED <<given, starts, bundle, material, first, cut>>

\* The keys and certificates in memory are served, not what the files hold.
Generated ==
  /\ pc = "generated"
  /\ Serve([pair |-> starts, ca |-> Whole(starts)])
  /\ UNCHANGED <<given, starts, file, bundle, cut>>

-----------------------------------------------------------------------------
\* The process leaves a certificate behind, a part of one at least, without its key.
LeavesHalf == cut' = (cut \/ pc = "key" \/ (pc = "cert" /\ Exists("cert")))

Down == pc' = "off" /\ material' = Nothing

\* A signal, or an error of a call: the process exits.
Stop ==
  /\ pc \notin {"off", "refused"}
  /\ Down /\ LeavesHalf
  /\ UNCHANGED <<given, starts, file, bundle, first>>

\* A write that stops short is an error as well, and leaves a part of the file.
WriteShort(f) ==
  /\ pc = f /\ file[f] = Empty
  /\ Set(f, Part(starts))
  /\ Down /\ cut' = (cut \/ f \in {"cert", "key"})
  /\ UNCHANGED <<given, starts, bundle, first>>

Next ==
  \/ Entrypoint \/ LoadOrGenerate \/ loadProvided \/ LoadFails
  \/ \E f \in Files : Truncate(f) \/ WriteFile(f) \/ WriteShort(f)
  \/ Generated \/ Stop

Spec == Init /\ [][Next]_vars

-----------------------------------------------------------------------------
\* Type invariant.  A file an operator provided is never a part of one, and is only
\* replaced by a generated one when neither certificate nor key was provided.
TypeOK ==
  /\ given \subseteq Files
  /\ file \in [Files -> Content]
  /\ pc \in {"off", "stat", "load", "refused", "serving", "generated"} \cup Files
  /\ starts \in 0..MaxStarts
  /\ bundle \subseteq Nat
  /\ material \in Material /\ first \in Material /\ cut \in BOOLEAN
  /\ \A f \in given : file[f] = Whole(0) \/ given \subseteq {"ca"}

\* The operator provided certificate and key and not the CA that signed them.
PairOnly == given = {"cert", "key"}

\* Clients that trust the CA at /ca.crt accept the certificate that is served,
\* whichever starts were interrupted before, unless the operator did not provide the
\* CA: it is written before what it signs.
CASignsServed ==
  pc = "serving" => material.ca = Whole(material.pair) \/ PairOnly

\* A client that trusted the server once can go on doing so: later starts serve the
\* certificate and the CA of the first one, and none of them refuses to run.
RestartsKeepTrust ==
  first # Nothing =>
    /\ pc # "refused" /\ pc \notin Files
    /\ pc = "serving" => material = first

\* A start that refuses to run found what an operator left incomplete, or what a
\* start left that ended between writing the certificate and writing the key.
RefusedOnlyWhenHalf ==
  pc = "refused" =>
    cut \/ ("cert" \in given) # ("key" \in given)

\* Programs of the container that use the bundle accept the server, from the first
\* start that serves files of an earlier one or of the operator: only the start that
\* generates the CA has built its bundle without it.
BundleTrustsServer ==
  pc = "serving" /\ material.pair < starts
    => material.pair \in bundle \/ PairOnly
=============================================================================
