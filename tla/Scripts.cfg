INIT ScriptsInit
NEXT ScriptsNext
\* a tool ends
CHECK_DEADLOCK FALSE
CONSTANTS
  LogDevices = {0, 1}
  Gemms = {0, 3}
  MaxVt = 2
  MaxLines = 3
  MaxOther = 1
  BatchDevices = {0, 1}
  BatchGemms = {0, 1}
  Levels = {0, 1}
  Stages = {0, 1}
  Kinds = {"cleave_tp", "pp_local", "dp_allreduce"}
  Phases = {"COMPUTE"}
  Baselines = {"cleave", "dtfm", "megatron"}
  Options <- MCOptions
  Groups = {0, 1}
  Profiles <- MCProfiles
  MaxEntries = 2
  MaxEvents = 1
  SmCounts = {1, 3}
  TotalSms = 2
  MaxSm = 3
  ValidSms = {1, 2}
  LastSlotNs = 2
  StepIds = {0, 1}
  MaxNs = 3
  MaxSlots = 3
  MaxGemms = 2
  Scale = 64
  RawLoads = {0, 32, 64}
  AlphaInverse = 2
  SlewCap = 12
  MinDeadband = 3
  SmMin = 8
  SmMax = 24
  SmStep = 2
  MaxGenerated = 3
  RanSms = {8, 24, 48}
  GpuSms = 48
  SlotSms = {24, 40}
  ResidentSms = 24
  WallTimes = {1, 7}
  BenchTimes = {0, 1, 20}
  MaxReplayed = 2
  PerfDevices = {0, 1}
  PacketBytes = {1}
  MaxPerfTime = 3
  MaxPackets = 2
  Measurements <- MCMeasurements
  ModeLists <- MCModeLists
  Repetition <- MCRepetition
  CountLists <- MCCountLists
  Repetitions = 2
  LogicalCpus = 2
INVARIANTS SyncIsSound BatchTimeIsSound TraceToolsSound TimingToolsSound ReportsAreSound
