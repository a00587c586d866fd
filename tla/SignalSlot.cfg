SPECIFICATION Spec
CONSTANTS
  Clients = {c1, c2}
  Deliveries = {d1, d2}
  Signals = {int, winch}
  NoClient = NoClient
  NoSignal = NoSignal
  MaxGeneration = 2
INVARIANTS
  SingleOwner
PROPERTY ImplementsMailbox
