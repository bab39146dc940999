SPECIFICATION Spec
CONSTANTS
  Requests = {r1}
  Poller = Poller
  NoCaller = NoCaller
  Keys = {k1}
  Watched = {k1}
  Api = Api
  Admin = Admin
  Servers = {Api}
INVARIANTS
  PollsUntilCancelled
CHECK_DEADLOCK FALSE
