CONSTANTS
  Threads = {t1, t2}
  MaxPolls = 2
  MaxCalls = 2
  Nobody = Nobody
SPECIFICATION FairSpec
INVARIANTS TypeOK NoCircularWait ExchangesApart
PROPERTY EveryCallReturns
