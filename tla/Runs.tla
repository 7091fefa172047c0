--------------------------------- MODULE Runs ---------------------------------
(***************************************************************************)
(* The runs of the benchmark and the client timings attached to them, as   *)
(* internal/results/log.go declares, addresses and merges them.            *)
(***************************************************************************)
EXTENDS Integers, Sequences

(***************************************************************************)
(* A run is reduced to what identifies it and what a merge changes.  Blob  *)
(* names and experiment ids are numbers, 0 for the empty string.           *)
(*   id      its Timestamp: a run stamped later has a larger id;           *)
(*   client  the curl phases last merged (0: none, the Go zero value);     *)
(*   hs      TLSHandshakeMs, which a merge leaves alone when the post has  *)
(*           none (0: omitted).                                            *)
(***************************************************************************)
Operation == {"", "generate", "upload", "download", "handshake"}

Draft == [op: Operation, name: Nat, exp: Nat, idx: Nat]
Run   == [id: Nat, op: Operation, name: Nat, exp: Nat, idx: Nat,
          client: Nat, hs: Nat]
Post  == [op: Operation, name: Nat, exp: Nat, idx: Nat,
          phases: Nat, hs: Nat]

Stamp(d, i) == [id |-> i, op |-> d.op, name |-> d.name, exp |-> d.exp,
                idx |-> d.idx, client |-> 0, hs |-> 0]

Ids(s) == {s[k].id : k \in DOMAIN s}

(***************************************************************************)
(* findMergeIndex and applyClientPhases / applyClientMeta.                 *)
(***************************************************************************)
\* Mutation: the sample of the post is not looked at.
Bug_AnySample(s, p) == {k \in DOMAIN s : s[k].op = p.op /\ s[k].exp = p.exp}

Matches(s, p) ==
  {k \in DOMAIN s :
     /\ s[k].op = p.op
     /\ IF p.exp # 0 THEN s[k].exp = p.exp /\ s[k].idx = p.idx
                      ELSE s[k].name = p.name}

WithTimings(r, p) ==
  [r EXCEPT !.client = p.phases,
            !.hs     = IF p.hs > 0    THEN p.hs  ELSE @,
            !.exp    = IF p.exp # 0   THEN p.exp ELSE @,
            !.idx    = IF p.idx > 0   THEN p.idx ELSE @]

Merged(s, k, p) == [s EXCEPT ![k] = WithTimings(@, p)]

=============================================================================
