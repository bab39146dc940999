SPECIFICATION FairSpec
CONSTANTS
  Requests = {r1}
  Poller = Poller
  NoCaller = NoCaller
  Keys = {k1, k2, k3}
  Watched = {k1, k2}
  Api = Api
  Admin = Admin
  Servers = {Api, Admin}
INVARIANTS
  TypeOK
  RepositoryOutlivesGets
  FailureIsReported
  FlushedLast
PROPERTIES
  ShutsDown
  KeepsWarm
CHECK_DEADLOCK FALSE
