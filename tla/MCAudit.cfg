SPECIFICATION FairSpec
CONSTANTS
  a = a
  b = b
  Subscribers <- Clients
  Attentive <- Stays
  Event <- Verdicts
  Slots = 2
  MaxEvents = 5
INVARIANT Accounted
PROPERTIES ImplementsFeed CatchesUp
