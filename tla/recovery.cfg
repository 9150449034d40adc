\* Either way to drive a job: crashes at the resumable points between the writes, an
\* operator who retries, approves by hand and cancels, GitHub and validation in
\* order.  Two launchers, one of which dies at any point, and two operators who activate
\* issues or run the loop over the queue.
SPECIFICATION MCFairSpec
CONSTANTS
  Heads = {h1}
  PrStatuses = {"ready"}
  Outcomes = {"passed"}
  CliOps = {c1, c2}
  CliTargets = {"executing", "cancelled", "approved"}
  Fickle = FALSE
  Raising = FALSE
  CrashAt <- MCRecoverable
  MaxCrashes = 2
  MaxDispatches = 3
  None = None
PROPERTIES
  PipelineRecovers
  RunnersDeliver
  LaunchersRecover
  LoopsEnd
  LoopsDrainTheQueue
  ImplementsLifecycle
