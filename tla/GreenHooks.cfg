CONSTANTS
  Sms = {2, 4}
  Traces <- MCTraces
  Times = {0, 1000}
  MaxStep = 2
  MaxSwitch = 2
  MaxIdx = 3
SPECIFICATION Spec
INVARIANTS ContextIsAsRecorded DispatchedAsLogged
