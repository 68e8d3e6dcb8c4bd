\* A service with one key and a service with two; no symmetry, for liveness.
SPECIFICATION Spec
CONSTANTS
  r1 = r1  r2 = r2  r3 = r3  r4 = r4  k1 = k1  k2 = k2  k3 = k3
  svc1 = svc1  svc2 = svc2  c1 = c1  c2 = c2
  Requests = {r1, r2, r3}
  Clicks = {}
  Keys = {k1, k2, k3}
  KeyService <- OneKeyOrTwo
  Services = {svc1, svc2}
  Payloads <- KeyPayloads
  strip <- MCStrip
  normalize <- MCNormalize
  EventIds = {"x", "y", "z"}
  EventTypes = {"TIMEOUT", "DISK"}
  Times = {1, 2, 3}
  Threshold = 2
  Window = 2
  None = None
PROPERTIES
  ThresholdDetected
  EveryDeliveryEnds
