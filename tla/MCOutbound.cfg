SPECIFICATION OutboundSpec
CONSTANTS
  p1 = p1
  p2 = p2
  p3 = p3
  Peer = {p1, p2, p3}
  Configured <- MCConfigured
  Discovered <- MCDiscovered
  MaxOutbound = 2
  MaxDials = 2
  MaxSync = 1
  Reconnect = 1
  MaxBackoff = 1
  Cooldown = 1
  MaxFailures = 1
INVARIANTS
  DialingExact
  NoLostWakeup
  BackoffRemembered
PROPERTIES
  ConfiguredDialed
