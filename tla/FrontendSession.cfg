\* Two tabs of one browser and three calls; one tab signs in and out; the token of
\* the first call may expire; the second call may be given up and still reach the server.
SPECIFICATION Spec
CONSTANTS
  home = home  incidents = incidents  first = first  None = None
  Tabs = {home, incidents}
  Calls = {1, 2, 3}
  Offered <- MCOffered
  ShortLived = {1}
  Revocable = {first}
  Late = {2}
INVARIANTS
  TypeOK
  UndisturbedCallsSucceed
  LogoutIsComplete
  
PROPERTIES
  EveryCallSettles
