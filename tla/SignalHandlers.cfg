SPECIFICATION FairSpec
CONSTANTS
  Threads = {t1, t2}
  interrupt = interrupt
  resize = resize
  bystander = t2
  Editor <- MCEditor
  CallerMasks <- MCMasks
  NoClient = NoClient
  NoSignal = NoSignal
  Caller = Caller
  MaxSends = 2
  MaxFailures = 2
ACTION_CONSTRAINT Within
INVARIANTS
  DispositionsAreOwed
  MasksAreTheCallers
PROPERTY SignalsGetThrough
