SPECIFICATION Spec
CONSTANTS
  a = a
  b = b
  Subscribers <- Clients
  Attentive <- Stays
  Event <- Verdicts
  Slots = 2
  MaxEvents = 4
INVARIANT EveryDecision
