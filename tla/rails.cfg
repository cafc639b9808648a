CONSTANTS
  c1 = c1
  c2 = c2
  a1 = a1
  a2 = a2
  Nothing = Nothing
  Conns <- MCConns
  Addrs <- MCAddrs
  Remotes <- MCRemotes
  Messages <- MCMessages
  Builds <- MCBuilds
SPECIFICATION FairSpec
INVARIANTS TypeOK ServedRegistered OneLogin
PROPERTIES DeadSessionsGo ShutdownReturns
