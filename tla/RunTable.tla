-------------------------------- MODULE RunTable --------------------------------
(***************************************************************************)
(* What the results log promises its readers, without a file, a mutex or a *)
(* buffer: a table of runs, the set of runs acknowledged to a handler and   *)
(* the number of restarts.                                                 *)
(***************************************************************************)
EXTENDS Runs

CONSTANTS Drafts, Posts, MaxRuns
VARIABLES table, acked, restarts

TableInit == table = <<>> /\ acked = {} /\ restarts = 0

\* A new run goes behind all others.
Add == \E d \in Drafts, i \in 1..MaxRuns :
         /\ i \notin Ids(table) \cup acked
         /\ table' = Append(table, Stamp(d, i))
         /\ acked' = acked

Acknowledge == \E i \in 1..MaxRuns : acked' = acked \cup {i} /\ table' = table

\* Which run a post is about: a sample of an experiment, or a blob operation.
Addresses(p, r) ==
  /\ r.op = p.op
  /\ p.exp # 0 => r.exp = p.exp /\ r.idx = p.idx
  /\ p.exp = 0 => r.name = p.name

\* The run is the same run, its client timings are those of the post, and a post
\* that names the sample leaves it the sample it was.
Attached(old, new, p) ==
  /\ new.id = old.id /\ new.op = old.op /\ new.name = old.name
  /\ new.client = p.phases
  /\ new.hs = IF p.hs > 0 THEN p.hs ELSE old.hs
  /\ new.exp = old.exp
  /\ p.exp # 0 => new.idx = old.idx

Attach(p) ==
  /\ \E k \in DOMAIN table :
       /\ \A j \in DOMAIN table : Addresses(p, table[j]) <=> j = k
       /\ DOMAIN table' = DOMAIN table
       /\ \A j \in DOMAIN table \ {k} : table'[j] = table[j]
       /\ Attached(table[k], table'[k], p)
  /\ acked' = acked

\* Only a run nobody was told about can go.
Drop ==
  /\ table # <<>>
  /\ table[Len(table)].id \notin acked
  /\ table' = SubSeq(table, 1, Len(table) - 1)
  /\ acked' = acked

\* After a restart timings may be those of an earlier moment and unacknowledged
\* runs may be gone; the acknowledged ones are there, as what they were, in order.
Restart ==
  /\ acked \cap Ids(table) \subseteq Ids(table')
  /\ \A j \in DOMAIN table, k \in DOMAIN table' :
       table[j].id = table'[k].id =>
         /\ table[j].op = table'[k].op /\ table[j].name = table'[k].name
         /\ \A m \in 1..(j - 1), n \in k..Len(table') : table[m].id # table'[n].id
  /\ restarts' = restarts + 1
  /\ acked' = acked

TableNext ==
  \/ /\ Add \/ Acknowledge \/ Drop \/ \E p \in Posts : Attach(p)
     /\ restarts' = restarts
  \/ Restart

Spec == TableInit /\ [][TableNext]_<<table, acked, restarts>>
=============================================================================
