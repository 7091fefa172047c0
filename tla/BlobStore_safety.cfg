SPECIFICATION Spec
CONSTANTS
  Workers = {w1, w2}
  Names <- OneName
  Bodies <- AllBodies
  MaxBytes = 2
  MaxWrites = 2
  MaxFaults = 1
  MaxCrashes = 1
SYMMETRY Perms
INVARIANTS TypeOK WholeBlobs BlobsWithinLimit RefusedNotServed NoTempLeak HashMatches OpenConsistent
