----------------------------- MODULE MCBlobStore ------------------------------
(***************************************************************************)
(* Small instances of BlobStore with MAX_BLOB_BYTES = 2.                   *)
(***************************************************************************)
EXTENDS BlobStore, TLC

A == [base |-> "a", sha |-> 0]

Declared   == [expected |-> 2, bytes |-> 2, exact |-> FALSE]
Unexpected == [expected |-> 2, bytes |-> 1, exact |-> FALSE]
TooLarge   == [expected |-> 3, bytes |-> 3, exact |-> FALSE]
Chunked    == [expected |-> 0, bytes |-> 1, exact |-> FALSE]
Endless    == [expected |-> 0, bytes |-> 9, exact |-> FALSE]
Generated  == [expected |-> 1, bytes |-> 9, exact |-> TRUE]
ShortRead  == [expected |-> 2, bytes |-> 1, exact |-> TRUE]

OneName   == {A}
AllBodies == {Declared, Unexpected, TooLarge, Chunked, Endless, Generated, ShortRead}
TwoBodies == {Declared, Generated}

Perms == Permutations(Workers)
=============================================================================
