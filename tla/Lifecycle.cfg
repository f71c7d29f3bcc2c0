\* Two threads and the loop itself queue up to three functors and three tasks;
\* every choice of probes, with a reference at once or later; three devices in a
\* fleet; each serving script, with two fake devices; three saves of a checkpoint.
SPECIFICATION LifecycleSpec
CONSTANTS
  t1 = t1  t2 = t2  me = me  f1 = f1  f2 = f2
  Posters = {t1, t2, me}
  Self = me
  MaxPosts = 3
  Configs <- AllConfigs
  RefModes <- Both
  FleetSize = 3
  FakeDevices = {f1, f2}
  MaxConnected = 3
  Checkpoints <- MCCheckpoints
  kAioAlignment = 2
  MaxSaves = 3
CHECK_DEADLOCK FALSE
INVARIANTS WakeupPending InOrderOnce TimerGuardsSession ProfileIsEarned SavedIsReadable
PROPERTIES EverythingRuns SessionReports FleetShutsDown ServingEnds
