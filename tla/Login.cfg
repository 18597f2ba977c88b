SPECIFICATION FairSpec
CONSTANTS
  s1 = s1
  s2 = s2
  s3 = s3
  alice = alice
  bob = bob
  Conns <- MCConns
  Clients <- MCClients
  ClientOf <- MCClientOf
  Files = {f1, f2}
  NoConn = NoConn
  NoFile = NoFile
INVARIANTS
  TypeOK
  OneSessionPerClient
  KeyOfSession
PROPERTY Served
CHECK_DEADLOCK FALSE
