---------------------------- MODULE CertFilesProofs ----------------------------
(***************************************************************************)
(* For any number of starts, wherever each of them ends: what the server   *)
(* presents verifies with the CA it offers, stays the same once it was     *)
(* presented, and a start refuses to run only on an incomplete set of      *)
(* files.                                                                  *)
(***************************************************************************)
EXTENDS CertFiles, TLAPS

\* What loadProvided makes of the files as they are.
OnDisk == [pair |-> file["cert"].by,
           ca   |-> IF file["ca"].kind \in {"absent", "empty"} THEN file["cert"]
                                                               ELSE file["ca"]]

\* While a start generates, the files are written up to where it is.
WrittenSoFar ==
  /\ pc = "ca"   => ~Exists("cert") /\ ~Exists("key")
  /\ pc = "cert" => file["ca"] = Whole(starts) /\ ~Exists("key")
  /\ pc = "key"  => /\ file["ca"] = Whole(starts) /\ file["cert"] = Whole(starts)
                    /\ file["key"].kind \in {"absent", "empty"}
  /\ pc = "generated" => \A f \in Files : file[f] = Whole(starts)
  /\ pc \in Files => given \subseteq {"ca"}

\* A pair that loads lies beside the CA that signed it.
SignedOnDisk == PairLoads => file["ca"] = Whole(file["cert"].by) \/ PairOnly

\* A file of a pair that does not load was left by the operator or by an early end.
HalfOnDisk ==
  /\ (pc \notin Files /\ (Exists("cert") \/ Exists("key")))
       => PairLoads \/ cut \/ ("cert" \in given) # ("key" \in given)
  /\ pc = "load" => Exists("cert") /\ Exists("key")
  /\ pc = "refused" => ~PairLoads /\ (Exists("cert") \/ Exists("key"))

\* What was served first is what the files hold, and nothing writes them again.
ServedOnDisk ==
  /\ first # Nothing => /\ PairLoads /\ first = OnDisk
                        /\ pc \in {"off", "stat", "load", "serving"}
  /\ pc = "serving" => material = first /\ first # Nothing

\* A start that does not generate has put the CA of the files into its bundle.
BundleOfDisk ==
  /\ pc \in {"stat", "load"} /\ file["ca"].kind = "whole" => file["ca"].by \in bundle
  /\ pc = "serving" => \/ material.pair = starts \/ material.pair \in bundle \/ PairOnly

CertInv == WrittenSoFar /\ SignedOnDisk /\ HalfOnDisk /\ ServedOnDisk /\ BundleOfDisk

-----------------------------------------------------------------------------
USE MaxStartsAssumption DEF Files

\* The values a file is given are contents, for every start.
LEMMA ContentTypes ==
  /\ Absent \in Content /\ Empty \in Content
  /\ \A g \in Nat : Part(g) \in Content /\ Whole(g) \in Content
BY DEF Content, Absent, Empty, Part, Whole

\* The operator's files, in whichever combination, have their types.
LEMMA TypeInit == Init => TypeOK
<1> SUFFICES ASSUME Init PROVE TypeOK
  OBVIOUS
<1>1. file \in [Files -> Content]
  BY ContentTypes DEF Init
<1>2. Nothing \in Material
  BY ContentTypes DEF Nothing, Material
<1>3. \A f \in given : file[f] = Whole(0)
  BY DEF Init
<1>4. given \subseteq Files /\ starts \in 0..MaxStarts
  BY DEF Init
<1> QED
  BY <1>1, <1>2, <1>3, <1>4 DEF Init, TypeOK

\* Every step keeps the types, and writes an operator's file only when the operator
\* provided no part of the pair.
LEMMA TypeStep == TypeOK /\ WrittenSoFar /\ [Next]_vars => TypeOK' /\ given' = given
<1> SUFFICES ASSUME TypeOK, WrittenSoFar, [Next]_vars PROVE TypeOK' /\ given' = given
  OBVIOUS
<1> USE ContentTypes
<1>0. starts \in Nat /\ \A f \in Files : file[f] \in Content /\ file[f].by \in Nat
  BY DEF TypeOK, Content
<1>1. CASE Entrypoint
  BY <1>0, <1>1 DEF Entrypoint, TypeOK
<1>2. CASE LoadOrGenerate
  BY <1>2 DEF LoadOrGenerate, After, TypeOK
<1>3. CASE loadProvided
  BY <1>0, <1>3 DEF loadProvided, Serve, Material, TypeOK
<1>4. CASE LoadFails
  BY <1>4 DEF LoadFails, TypeOK
<1>5. ASSUME NEW f \in Files, Truncate(f) PROVE TypeOK' /\ given' = given
  BY <1>5 DEF Truncate, Set, TypeOK, WrittenSoFar
<1>6. ASSUME NEW f \in Files, WriteFile(f) PROVE TypeOK' /\ given' = given
  BY <1>0, <1>6 DEF WriteFile, Set, After, TypeOK, WrittenSoFar
<1>7. ASSUME NEW f \in Files, WriteShort(f) PROVE TypeOK' /\ given' = given
  BY <1>0, <1>7 DEF WriteShort, Set, Down, Nothing, Material, TypeOK, WrittenSoFar
<1>8. CASE Generated
  BY <1>0, <1>8 DEF Generated, Serve, Material, TypeOK
<1>9. CASE Stop
  BY <1>9 DEF Stop, Down, LeavesHalf, Nothing, Material, TypeOK
<1>10. CASE UNCHANGED vars
  BY <1>10 DEF vars, TypeOK
<1> QED
  BY <1>1, <1>2, <1>3, <1>4, <1>5, <1>6, <1>7, <1>8, <1>9, <1>10 DEF Next

\* The empty directory and every set of files of an operator satisfy the invariant.
LEMMA CertInit == Init => CertInv
<1> SUFFICES ASSUME Init PROVE CertInv
  OBVIOUS
<1>1. \A f \in Files : file[f] = IF f \in given THEN Whole(0) ELSE Absent
  BY DEF Init
<1>2. pc = "off" /\ first = Nothing /\ given \subseteq Files
  BY DEF Init
<1>3. \A f \in Files : f \in given <=> file[f] = Whole(0)
  BY <1>1 DEF Whole, Absent
<1>4. \A f \in Files : f \notin given <=> file[f] = Absent
  BY <1>1 DEF Whole, Absent
<1>5. PairLoads <=> {"cert", "key"} \subseteq given
  BY <1>3, <1>4 DEF PairLoads, Whole, Absent
<1>6. SignedOnDisk
  <2>1. {"cert", "key"} \subseteq given => "ca" \in given \/ PairOnly
    BY <1>2 DEF PairOnly
  <2>2. {"cert", "key"} \subseteq given => file["cert"].by = 0
    BY <1>3 DEF Whole
  <2> QED
    BY <1>3, <1>5, <2>1, <2>2 DEF SignedOnDisk
<1>7. HalfOnDisk
  BY <1>2, <1>4, <1>5 DEF HalfOnDisk, Exists, Absent
<1> QED
  BY <1>2, <1>6, <1>7 DEF CertInv, WrittenSoFar, ServedOnDisk, BundleOfDisk

\* Every step keeps the invariant.  The order in which the files are written is used
\* where the key completes the pair: the CA and the certificate of that start are
\* whole by then.
LEMMA CertStep == TypeOK /\ CertInv /\ [Next]_vars => CertInv'
<1> SUFFICES ASSUME TypeOK, CertInv, [Next]_vars PROVE CertInv'
  OBVIOUS
<1> USE DEF WrittenSoFar, SignedOnDisk, HalfOnDisk, ServedOnDisk, BundleOfDisk,
            PairLoads, PairOnly, Exists, OnDisk
<1>1. CASE Entrypoint
  BY <1>1 DEF Entrypoint, CertInv
<1>2. CASE LoadOrGenerate
  BY <1>2 DEF LoadOrGenerate, After, Whole, CertInv, TypeOK
<1>3. CASE loadProvided
  BY <1>3 DEF loadProvided, Serve, Nothing, Whole, Content, CertInv, TypeOK
<1>4. CASE LoadFails
  BY <1>4 DEF LoadFails, CertInv
<1>5. ASSUME NEW f \in Files, Truncate(f) PROVE CertInv'
  BY <1>5 DEF Truncate, Set, Empty, Whole, CertInv, TypeOK
<1>6. ASSUME NEW f \in Files, WriteFile(f) PROVE CertInv'
  BY <1>6 DEF WriteFile, Set, After, Empty, Whole, CertInv, TypeOK
<1>7. ASSUME NEW f \in Files, WriteShort(f) PROVE CertInv'
  BY <1>7 DEF WriteShort, Set, Down, Empty, Part, Whole, CertInv, TypeOK
<1>8. CASE Generated
  BY <1>8 DEF Generated, Serve, Nothing, Whole, CertInv, TypeOK
<1>9. CASE Stop
  BY <1>9 DEF Stop, Down, LeavesHalf, CertInv
<1>10. CASE UNCHANGED vars
  BY <1>10 DEF vars, CertInv
<1> QED
  BY <1>1, <1>2, <1>3, <1>4, <1>5, <1>6, <1>7, <1>8, <1>9, <1>10 DEF Next

\* Types and invariant hold in every reachable state.
LEMMA CertInvariant == Spec => [](TypeOK /\ CertInv)
<1>1. TypeOK /\ CertInv /\ [Next]_vars => (TypeOK /\ CertInv)'
  BY TypeStep, CertStep DEF CertInv
<1> QED
  BY <1>1, TypeInit, CertInit, PTL DEF Spec

-----------------------------------------------------------------------------
\* The files of an operator are replaced only when there is no pair among them.
THEOREM CertTypes == Spec => []TypeOK
BY CertInvariant, PTL

\* However many starts ended while they wrote, the CA at /ca.crt signed the
\* certificate that is served, unless the operator provided the pair alone.
THEOREM CAAlwaysSigns == Spec => []CASignsServed
<1>1. TypeOK /\ CertInv => CASignsServed
  BY DEF TypeOK, CertInv, ServedOnDisk, SignedOnDisk, OnDisk, PairLoads, CASignsServed,
         Whole, Content
<1> QED
  BY <1>1, CertInvariant, PTL

\* Once the server was trusted, every later start presents the same certificate and CA.
THEOREM TrustIsKept == Spec => []RestartsKeepTrust
<1>1. CertInv => RestartsKeepTrust
  BY DEF CertInv, ServedOnDisk, RestartsKeepTrust
<1> QED
  BY <1>1, CertInvariant, PTL

\* Only half of a pair, of the operator or of an interrupted start, stops a start.
THEOREM RefusalsExplained == Spec => []RefusedOnlyWhenHalf
<1>1. CertInv => RefusedOnlyWhenHalf
  BY DEF CertInv, HalfOnDisk, RefusedOnlyWhenHalf
<1> QED
  BY <1>1, CertInvariant, PTL

\* Programs of the container trust the server from the second start that serves on.
THEOREM BundleTrusts == Spec => []BundleTrustsServer
<1>1. TypeOK /\ CertInv => BundleTrustsServer
  BY DEF CertInv, BundleOfDisk, BundleTrustsServer, TypeOK, Material
<1> QED
  BY <1>1, CertInvariant, PTL
=============================================================================
