\* One thread, two servers, a server is avoided after one failure.
CONSTANTS
  Users = {u1}
  Hosts = {h1, h2}
  MaxHosts = 2
  MaxFailTimes = 1
  None = None
SPECIFICATION Spec
PROPERTY UnavailableIsSkipped
CHECK_DEADLOCK FALSE
