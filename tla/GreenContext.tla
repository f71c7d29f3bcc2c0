----------------------------- MODULE GreenContext -----------------------------
(***************************************************************************)
(* GreenContextController and its backends: CppBackend over the native     *)
(* runtime, TorchNativeBackend over torch.cuda.green_contexts, and         *)
(* OffBackend.  The training thread's CUDA context stack is a sequence of  *)
(* SM counts, 0 for the primary context.                                   *)
(*                                                                         *)
(* The operators are the backend's calls; a process that uses the          *)
(* controller composes them into its actions (AutogradHooks).              *)
(***************************************************************************)
EXTENDS GreenTrace

CONSTANTS
  Sms,        \* SM counts a context exists for
  MaxSwitch   \* bound: pop_context raises only below this many switches

(* There are SM counts, and a greatest.                                      *)
ASSUME SmsAssumption == Sms \subseteq Nat \ {0} /\ \E s \in Sms : \A t \in Sms : t <= s

VARIABLES
  kind,        \* the backend: "cpp", "torch", "off", or "none" before
  closed,      \* _closed of the controller and of the backend
  trace,       \* the trace loaded: its entries and time unit
  stack,       \* CUDA contexts of the thread
  active,      \* _active_gc (torch) or active_sm_count_ (native)
  switches,    \* _switch_count (torch; nothing depends on the native one)
  generation,  \* _generation; the native runtime never changes its own
  bundles,     \* SM count |-> generation of the cached StreamBundle
  prev_sm,     \* _prev_sm_count (cpp): where the last logged swap led, or 0
  pop_failed   \* history: the last pop_context raised

context == <<stack, active, switches, generation, prev_sm, pop_failed>>
green == <<kind, closed, trace, bundles, context>>

Partition == CHOOSE s \in Sms : \A t \in Sms : t <= s
NoTrace == [entries |-> <<>>, unit |-> "us"]
Primary == <<0>>

InitGreen ==
  /\ kind = "none" /\ closed = FALSE /\ trace = NoTrace
  /\ stack = Primary /\ active = 0 /\ switches = 0 /\ generation = 0
  /\ bundles = << >> /\ prev_sm = 0 /\ pop_failed = FALSE

(***************************************************************************)
(* select_backend.  "cpp" and "torch" tell whether the native module and   *)
(* the green contexts of torch are missing, unsupported or supported.      *)
(***************************************************************************)
SelectBackend(request, strict, cpp, torch) ==
  IF request \in {"cpp", "auto"} /\ cpp = "supported" THEN "cpp"
  ELSE IF request = "cpp" THEN "raises"      \* also after "Falling back."
  ELSE IF request \in {"torch_native", "auto"} /\ torch = "supported" THEN "torch"
  ELSE IF request \in {"off", "auto"} /\ ~strict THEN "off"
  ELSE "raises"

(* load_trace: the native parser refuses an empty trace, one out of order,  *)
(* and SM counts without a context; the Python one takes what it can read.  *)
Loads(k, tr) ==
  \/ k = "torch"
  \/ /\ k = "cpp" /\ tr.entries # <<>> /\ InOrder(tr.entries)
     /\ \A i \in 1..Len(tr.entries) : tr.entries[i][2] \in Sms

(* The controller, with a bundle cached for every SM count; the native      *)
(* runtime leaves the last slot it created current.                         *)
Construct(k, tr) ==
  /\ kind' = k
  /\ trace' = IF Loads(k, tr) THEN tr ELSE NoTrace
  /\ bundles' = [s \in IF k = "off" THEN {0} ELSE Sms |-> 0]
  /\ active' = IF k = "cpp" THEN Partition ELSE 0
  /\ stack' = IF k = "cpp" THEN <<Partition>> ELSE Primary
  /\ UNCHANGED <<closed, switches, generation, prev_sm, pop_failed>>

(* The native parser has converted the timestamps when it loads a trace, so *)
(* its steps are compared with microseconds; the Python one converts them   *)
(* for a time and not for a step.                                           *)
Scale(clock) == IF clock = "step" /\ kind = "torch" THEN 1 ELSE TimeScale(trace.unit)

Snap(sm) == IF kind = "torch" THEN Nearest(Sms, sm) ELSE sm

SmFor(clock, t) ==
  IF kind = "off" THEN 0
  ELSE IF trace.entries = <<>> THEN Partition
  ELSE Snap(SmCountAt(trace.entries, Scale(clock), t, Partition))

Slots == IF closed THEN {} ELSE Sms
Pop(s) == SubSeq(s, 1, Len(s) - 1)
SetCurrent(sm) == stack' = [stack EXCEPT ![Len(stack)] = sm]

(***************************************************************************)
(* activate_for_step and activate_for_time.  "raises" is the call of torch *)
(* that raises: "pop" (pop_context), "set" (set_context) or "no"; one that *)
(* raises leaves the stack as it was.  A swap is logged when the SM count  *)
(* is not prev_sm, which then follows.                                     *)
(***************************************************************************)
PopsContext(sm) == kind = "torch" /\ active # 0 /\ active # sm
SetsContext(sm) == kind = "torch" /\ sm \in Slots /\ active # sm
PopCanRaise == active # 0 /\ switches < MaxSwitch
CanRaise(sm, raises) ==
  \/ raises = "no"
  \/ raises = "pop" /\ PopsContext(sm) /\ PopCanRaise
  \/ raises = "set" /\ SetsContext(sm)

(* Mutant: the context that is active is not popped before the next.        *)
ActivateTorchNested(sm, raises) ==
  LET sets == SetsContext(sm) /\ raises = "no"
  IN /\ stack' = IF sets THEN Append(stack, sm) ELSE stack
     /\ active' = IF sets THEN sm ELSE active
     /\ UNCHANGED <<switches, generation, prev_sm, pop_failed>>

(* Mutant: a context that is active stays, whatever its SM count.           *)
ActivateTorchSticky(sm, raises) ==
  LET sets == sm \in Slots /\ active = 0 /\ raises = "no"
  IN /\ stack' = IF sets THEN Append(stack, sm) ELSE stack
     /\ active' = IF sets THEN sm ELSE active
     /\ UNCHANGED <<switches, generation, prev_sm, pop_failed>>

ActivateTorch(sm, raises) ==
  LET pops == PopsContext(sm) /\ raises # "pop"
      sets == SetsContext(sm) /\ raises = "no"
      base == IF pops THEN Pop(stack) ELSE stack
      now == switches + (IF pops THEN 1 ELSE 0)
  IN /\ stack' = IF sets THEN Append(base, sm) ELSE base
     /\ active' = IF sets THEN sm ELSE IF pops THEN 0 ELSE active
     /\ switches' = IF sets /\ now = 0 THEN 1 ELSE now
     /\ generation' = IF sets /\ now = 0 THEN 1 ELSE generation + now - switches
     /\ pop_failed' = IF PopsContext(sm) THEN ~pops ELSE pop_failed
     /\ UNCHANGED prev_sm

ActivateCpp(sm, timed) ==
  /\ IF sm \in Slots
     THEN /\ SetCurrent(sm) /\ active' = sm
     ELSE UNCHANGED <<stack, active>>
  /\ prev_sm' = IF timed THEN sm ELSE prev_sm
  /\ UNCHANGED <<switches, generation, pop_failed>>

Activate(sm, timed, raises) ==
  /\ CanRaise(sm, raises)
  /\ \/ kind = "torch" /\ ActivateTorch(sm, raises)
     \/ kind = "cpp" /\ ActivateCpp(sm, timed)
     \/ kind = "off" /\ UNCHANGED context
  /\ UNCHANGED <<kind, closed, trace, bundles>>

(* deactivate, which is given the SM count that was activated.              *)
(* Mutant: what deactivate does is not logged.                              *)
DeactivateCppSilently(sm) ==
  /\ SetCurrent(IF sm \in Slots THEN sm ELSE 0)
  /\ active' = sm
  /\ UNCHANGED <<switches, generation, prev_sm, pop_failed>>

DeactivateCpp(sm) ==
  /\ SetCurrent(IF sm \in Slots THEN sm ELSE 0)
  /\ active' = sm
  /\ prev_sm' = sm
  /\ UNCHANGED <<switches, generation, pop_failed>>

(* A context whose pop raises stays active.                                 *)
DeactivateTorch(raises) ==
  /\ raises => PopCanRaise
  /\ stack' = IF active = 0 \/ raises THEN stack ELSE Pop(stack)
  /\ active' = IF raises THEN active ELSE 0
  /\ pop_failed' = IF active = 0 THEN pop_failed ELSE raises
  /\ UNCHANGED <<switches, generation, prev_sm>>

Deactivate(sm, raises) ==
  /\ \/ kind = "torch" /\ DeactivateTorch(raises)
     \/ kind = "cpp" /\ ~raises /\ DeactivateCpp(sm)
     \/ kind = "off" /\ ~raises /\ UNCHANGED context
  /\ UNCHANGED <<kind, closed, trace, bundles>>

(* close ignores a pop that raises, and forgets the context all the same.   *)
CloseTorch(raises) ==
  /\ raises => PopCanRaise
  /\ stack' = IF active = 0 \/ raises THEN stack ELSE Pop(stack)
  /\ active' = 0
  /\ pop_failed' = IF active = 0 THEN pop_failed ELSE raises

Close(raises) ==
  /\ closed' = TRUE
  /\ bundles' = << >>
  /\ \/ kind = "torch" /\ CloseTorch(raises)
     \/ kind = "cpp" /\ ~raises /\ SetCurrent(0) /\ UNCHANGED <<active, pop_failed>>
     \/ kind = "off" /\ ~raises /\ UNCHANGED <<stack, active, pop_failed>>
  /\ UNCHANGED <<kind, trace, switches, generation, prev_sm>>

ResetSwapStats ==
  /\ prev_sm' = 0
  /\ UNCHANGED <<kind, closed, trace, bundles, stack, active, switches, generation, pop_failed>>
===============================================================================
