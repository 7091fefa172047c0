SPECIFICATION FairSpec
CONSTANTS
  Conns = {1, 2}
  MaxStreams <- ThreeAndOne
  Recording = {TRUE, FALSE}
  Environments <- TenEnvs
  Offers <- FewOffers
  Key = "RSA"
  NoConn = NoConn
CHECK_DEADLOCK FALSE
INVARIANTS TypeOK TrackedWhileLive OneHandshakeRow RowsHonourSettings ColdRowsFull
PROPERTY EveryConnectionDecided
