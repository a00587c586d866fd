SPECIFICATION Spec
CONSTANTS
  Interrupts = {"interrupt"}
  Suspend = "suspend"
  Continue = "continue"
  Resize = "resize"
  NoSignal = "none"
  MaxSends = 2
  MaxFailures = 1
INVARIANTS CallerSeesCooked ContinueFollowsSuspend EditsWhileReading
PROPERTY InterruptEndsRead
CHECK_DEADLOCK FALSE
