SPECIFICATION Spec
CONSTANTS
  Part = {"connections"}
  c1 = c1
  c2 = c2
  Connection = {c1, c2}
  Handlers <- MCHandlers
  Path <- MCPath
  MaxRequests = 1
  MaxPackets = 1
  b1 = b1
  b2 = b2
  b3 = b3
  s1 = s1
  s2 = s2
  Browser = {b1, b2, b3}
  Address <- MCAddress
  AddressOf <- MCAddressOf
  Account <- MCAccount
  Group = {"admins"}
  Sends <- MCSends
  Content <- MCContent
  Session = {s1, s2}
  MaxFailures = 2
  Window = 2
  BlockDuration = 3
  MaxEntries = 1
  IdleTimeout = 2
  CheckTime = 1
  Second = 2
SYMMETRY Symmetry
CHECK_DEADLOCK FALSE
INVARIANTS
  AllClosing
