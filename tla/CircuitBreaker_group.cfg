CONSTANTS
  a = a
  b = b
  h = h
  Requests = {a, b, h}
  Bypassing = {h}
  Dead = {}
  Abortable = {a}
  Timeout <- ShortTimeouts
  Cooldown = 2
  FailureThreshold = 2
SPECIFICATION FairSpec
INVARIANT ProbeGate
INVARIANT SingleProbe
PROPERTY LateSuccessIgnored
PROPERTY Recovers
