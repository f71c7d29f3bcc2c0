----------------------------- MODULE AutogradHooks -----------------------------
(***************************************************************************)
(* The autograd hooks of the linear layer, over the green context          *)
(* controller, in the training thread.  A forward call dispatches one      *)
(* matrix multiplication and waits for it; a backward call dispatches the  *)
(* gradients that are needed, in order, then waits for them in order.      *)
(* Between calls the training loop enters and leaves step scopes, reads    *)
(* and resets the GEMM log, sets the hooks' controller and closes it.      *)
(***************************************************************************)
EXTENDS GreenContext

CONSTANTS
  Traces,    \* traces a controller is given
  Times,     \* microseconds at which the clock is read
  MaxStep,   \* bound on the step scopes entered
  MaxIdx     \* bound on the operations logged between two resets

(* Timestamps and SM counts of a trace are integers, the clock's readings   *)
(* naturals.                                                                *)
ASSUME TracesAssumption ==
  /\ \A tr \in Traces : tr.entries \in Seq(Int \X Int)
  /\ Times \subseteq Nat

VARIABLES
  greenctx,     \* _greenctx is set
  log_enabled,  \* _gemm_log_enabled
  gemm_log,     \* _gemm_log
  gemm_idx,     \* _gemm_idx
  clock,        \* time since _greenctx_t0, -1 when that is 0.0
  step,         \* the step scope: its index, SM counts and bundle, or idle
  steps,        \* step scopes entered
  call,         \* the call of a hook
  ops,          \* the call's multiplications the service accepted, by operation id
  returned      \* what the last call returned: phase |-> operation

hooks == <<greenctx, log_enabled, gemm_log, gemm_idx, clock>>
vars == <<green, hooks, step, steps, call, ops, returned>>

Calls == { <<"forward">>, <<"grad_input", "grad_weight">>, <<"grad_input">>, <<"grad_weight">> }
Idle == [stage |-> "idle"]

Init ==
  /\ InitGreen
  /\ greenctx = FALSE /\ log_enabled = FALSE
  /\ gemm_log = <<>> /\ gemm_idx = 0 /\ clock = -1
  /\ step = Idle /\ steps = 0 /\ call = Idle /\ ops = <<>> /\ returned = << >>

(* The training loop has the thread.                                        *)
Between == call.stage = "idle"

(***************************************************************************)
(* The controller, from the training loop                                  *)
(***************************************************************************)
FromConfig ==
  /\ kind = "none" /\ Between
  /\ \E enabled, strict \in BOOLEAN, request \in {"auto", "cpp", "torch_native", "off", "other"},
        cpp, torch \in {"missing", "unsupported", "supported"}, tr \in Traces :
       LET k == IF enabled THEN SelectBackend(request, strict, cpp, torch) ELSE "off"
       IN /\ k # "raises"
          /\ ~(strict /\ k # "off" /\ tr.entries # <<>> /\ ~Loads(k, tr))
          /\ Construct(k, tr)
  /\ UNCHANGED <<hooks, step, steps, call, ops, returned>>

(* Mutant: the cached bundle is used whatever its generation.               *)
CachedBundle(sm, gen) == IF sm \in DOMAIN bundles THEN bundles[sm] ELSE gen

(* A bundle of another generation is rebuilt.                               *)
LookUpBundle(sm, gen) == IF sm \in DOMAIN bundles /\ bundles[sm] = gen THEN bundles[sm] ELSE gen

(* step_scope up to its yield; a closed backend has no streams to build a   *)
(* bundle from.                                                             *)
EnterStep(raises) ==
  LET sm == SmFor("step", steps)
  IN /\ kind # "none" /\ Between /\ step = Idle /\ steps < MaxStep
     /\ CanRaise(sm, raises)
     /\ \/ kind = "torch" /\ ActivateTorch(sm, raises)
        \/ kind = "cpp" /\ ActivateCpp(sm, FALSE)
        \/ kind = "off" /\ UNCHANGED context
     /\ steps' = steps + 1
     /\ IF raises # "no" \/ (closed /\ kind # "off")
        THEN UNCHANGED <<step, bundles>>
        ELSE /\ bundles' = [s \in DOMAIN bundles \cup {sm} |->
                             IF s = sm THEN LookUpBundle(sm, generation') ELSE bundles[s]]
             /\ step' = [stage |-> "step", index |-> steps, sm |-> sm, hooked |-> FALSE,
                         bundle |-> bundles'[sm], generation |-> generation']
     /\ UNCHANGED <<kind, closed, trace, hooks, call, ops, returned>>

(* The step's body ends or raises: the finally clause of step_scope.        *)
ExitStep(raises) ==
  /\ Between /\ step.stage = "step"
  /\ Deactivate(step.sm, raises)
  /\ step' = Idle
  /\ UNCHANGED <<hooks, steps, call, ops, returned>>

CloseController(raises) ==
  /\ kind # "none" /\ ~closed /\ Between
  /\ Close(raises)
  /\ UNCHANGED <<hooks, step, steps, call, ops, returned>>

ResetStats ==
  /\ kind = "cpp" /\ Between
  /\ ResetSwapStats
  /\ UNCHANGED <<hooks, step, steps, call, ops, returned>>

(***************************************************************************)
(* The hooks' own state                                                    *)
(***************************************************************************)
(* Mutant: the entries of the log survive.                                  *)
ResetCounters(log) == gemm_log' = log /\ clock' = -1 /\ gemm_idx' = 0

ResetGemmLog(log) == gemm_log' = <<>> /\ clock' = -1 /\ gemm_idx' = 0

SetGreenctx ==
  /\ Between /\ kind # "none"
  /\ \E on, reset \in BOOLEAN :
       /\ greenctx' = on
       /\ log_enabled' = on
       /\ IF reset THEN ResetGemmLog(gemm_log) ELSE UNCHANGED <<gemm_log, clock, gemm_idx>>
  /\ UNCHANGED <<green, step, steps, call, ops, returned>>

SetGemmLogging ==
  /\ Between
  /\ log_enabled' \in BOOLEAN
  /\ UNCHANGED <<green, greenctx, gemm_log, gemm_idx, clock, step, steps, call, ops, returned>>

GetGemmLog ==
  /\ Between
  /\ ResetGemmLog(gemm_log)
  /\ UNCHANGED <<green, greenctx, log_enabled, step, steps, call, ops, returned>>

(* _elapsed_us: the first reading after a reset starts the clock.           *)
ElapsedUs(t) == t \in Times /\ t >= clock /\ (clock = -1 => t = 0)

(***************************************************************************)
(* LinearFunction.forward and backward                                     *)
(***************************************************************************)
Begin ==
  /\ kind # "none" /\ Between
  /\ \E c \in Calls :
       /\ gemm_idx + Len(c) <= MaxIdx
       /\ call' = [stage |-> "dispatch", phases |-> c, i |-> 1, raising |-> FALSE,
                   oids |-> <<>>, sms |-> <<>>, starts |-> <<>>, idxs |-> <<>>, got |-> << >>]
  /\ ops' = <<>> /\ returned' = << >>
  /\ UNCHANGED <<green, hooks, step, steps>>

(* After the last dispatch the call waits, from the first operation on.     *)
Advance(c) ==
  IF c.i < Len(c.phases) THEN [c EXCEPT !.stage = "dispatch", !.i = @ + 1]
                         ELSE [c EXCEPT !.stage = "wait", !.i = 1]

(* The service: an operation id, -1, or an exception.                       *)
AsyncDispatch(phase, sm, after(_)) ==
  \/ /\ ops' = Append(ops, [phase |-> phase, sm |-> sm, under |-> stack[Len(stack)], waited |-> FALSE])
     /\ call' = after([call EXCEPT !.oids = Append(@, Len(ops) + 1)])
  \/ /\ UNCHANGED ops
     /\ call' = after([call EXCEPT !.oids = Append(@, -1)])

DispatchPlain ==
  /\ call.stage = "dispatch" /\ ~greenctx
  /\ \/ AsyncDispatch(call.phases[call.i], 0,
          LAMBDA c : Advance([c EXCEPT !.sms = Append(@, -1), !.starts = Append(@, -1), !.idxs = Append(@, -1)]))
     \/ call' = Idle /\ UNCHANGED ops
  /\ UNCHANGED <<green, hooks, step, steps, returned>>

(* A step scope around the call remembers that a hook has activated in it.  *)
ActivateForTime(raises) ==
  /\ call.stage = "dispatch" /\ greenctx
  /\ \E t \in Times :
       LET sm == SmFor("time", t)
       IN /\ ElapsedUs(t)
          /\ Activate(sm, TRUE, raises)
          /\ clock' = t
          /\ call' = IF raises # "no" THEN Idle
                     ELSE [call EXCEPT !.stage = "activated", !.sms = Append(@, sm), !.starts = Append(@, t)]
  /\ step' = IF step = Idle THEN Idle ELSE [step EXCEPT !.hooked = TRUE]
  /\ UNCHANGED <<greenctx, log_enabled, gemm_log, gemm_idx, steps, ops, returned>>

DispatchActivated ==
  /\ call.stage = "activated"
  /\ \/ AsyncDispatch(call.phases[call.i], call.sms[call.i], LAMBDA c : [c EXCEPT !.stage = "finally"])
     \/ call' = [call EXCEPT !.stage = "finally", !.raising = TRUE] /\ UNCHANGED ops
  /\ UNCHANGED <<green, hooks, step, steps, returned>>

(* The finally clause, and the index the operation is logged under.         *)
DeactivateHook(raises) ==
  /\ call.stage = "finally"
  /\ Deactivate(call.sms[call.i], raises)
  /\ IF call.raising \/ raises
     THEN call' = Idle /\ UNCHANGED gemm_idx
     ELSE /\ call' = Advance([call EXCEPT !.idxs = Append(@, IF log_enabled THEN gemm_idx ELSE -1)])
          /\ gemm_idx' = IF log_enabled THEN gemm_idx + 1 ELSE gemm_idx
  /\ UNCHANGED <<greenctx, log_enabled, gemm_log, clock, step, steps, ops, returned>>

(* Mutant: backward waits for the operation it dispatched first.            *)
FirstOid(c) == c.oids[1]

WaitOid(c) == c.oids[c.i]

LogGemm(end) ==
  Append(gemm_log, [idx |-> call.idxs[call.i],
                    start |-> call.starts[call.i], end |-> end])

(* _wait_for_dispatched_matmul raises for -1, and wait_matmul may; then the *)
(* operation is logged, and the call goes on or returns.                    *)
WaitMatmul ==
  /\ call.stage = "wait"
  /\ LET oid == WaitOid(call)
         last == call.i = Len(call.phases)
         phase == call.phases[call.i]
         got == [p \in DOMAIN call.got \cup {phase} |-> IF p = phase THEN oid ELSE call.got[p]]
     IN \/ /\ call' = Idle /\ UNCHANGED <<hooks, ops, returned>>
        \/ /\ oid > 0
           /\ ops' = [ops EXCEPT ![oid].waited = TRUE]
           /\ \E t \in Times :
                IF call.idxs[call.i] # -1
                THEN ElapsedUs(t) /\ clock' = t /\ gemm_log' = LogGemm(t)
                ELSE t = 0 /\ UNCHANGED <<clock, gemm_log>>
           /\ call' = IF last THEN Idle ELSE [call EXCEPT !.i = @ + 1, !.got = got]
           /\ returned' = IF last THEN got ELSE returned
           /\ UNCHANGED <<greenctx, log_enabled, gemm_idx>>
  /\ UNCHANGED <<green, step, steps>>

Next ==
  \/ FromConfig \/ ResetStats
  \/ SetGreenctx \/ SetGemmLogging \/ GetGemmLog
  \/ Begin \/ DispatchPlain \/ DispatchActivated \/ WaitMatmul
  \/ \E raises \in {"no", "pop", "set"} : EnterStep(raises) \/ ActivateForTime(raises)
  \/ \E raises \in BOOLEAN : ExitStep(raises) \/ CloseController(raises) \/ DeactivateHook(raises)

Spec == Init /\ [][Next]_vars

-------------------------------------------------------------------------------
(* The state is well formed: counters are naturals, the log's indices are   *)
(* below the next one, an SM count is one the backend has.                  *)
TypeOK ==
  /\ kind \in {"none", "cpp", "torch", "off"} /\ closed \in BOOLEAN
  /\ stack \in Seq(Sms \cup {0}) /\ stack # <<>> /\ active \in Sms \cup {0}
  /\ switches \in Nat /\ generation \in Nat /\ prev_sm \in Sms \cup {0}
  /\ gemm_idx \in Nat /\ clock \in Times \cup {-1}
  /\ call.stage \in {"idle", "dispatch", "activated", "finally", "wait"}
  /\ step.stage \in {"idle", "step"}
  /\ \A i \in 1..Len(gemm_log) : gemm_log[i].idx \in 0..gemm_idx - 1

(* The CUDA context stack holds what the backend records as active and      *)
(* nothing more: with torch the primary context and the active one, with    *)
(* the native runtime one context, the active slot's until close().  Only   *)
(* a pop_context that raised in close() leaves a context nobody records.    *)
(* Outside a step scope and a hook call torch has a context active only     *)
(* when the pop_context of a deactivate or of an activation raised.         *)
ContextBalanced ==
  /\ kind = "torch" => \/ stack = (IF active = 0 THEN Primary ELSE <<0, active>>)
                       \/ closed /\ pop_failed /\ active = 0 /\ Len(stack) = 2
  /\ kind = "cpp" => stack = (IF closed THEN Primary ELSE <<active>>)
  /\ kind = "off" => stack = Primary
  /\ kind = "torch" /\ Between /\ step = Idle /\ active # 0 => pop_failed

(* A step scope's body has the SM count of the step current from its        *)
(* activate_for_step to its deactivate, as long as the controller is open   *)
(* and no hook has activated within it.  After a hook it has not: torch's   *)
(* deactivate in the hook pops the step's own context, and the rest of the  *)
(* step runs on the primary context; the native one leaves the hook's SM    *)
(* count current.                                                           *)
StepContextHeld ==
  step # Idle /\ Between /\ ~closed =>
    IF step.hooked /\ kind = "torch" THEN active = 0 \/ pop_failed
    ELSE IF step.hooked THEN Last(stack) = active
    ELSE Last(stack) = step.sm

(* An operation was dispatched under the SM count the hook logs for it,     *)
(* also when the hook runs inside a step scope with another SM count; only  *)
(* a closed backend dispatches on the primary context, or on the one its    *)
(* close() could not pop.                                                   *)
DispatchedUnder ==
  \A i \in 1..Len(ops) : ops[i].sm # 0 =>
    ops[i].under = ops[i].sm \/ (closed /\ (ops[i].under = 0 \/ pop_failed))

(* A call that returned has waited for each of its operations, and what it  *)
(* returns for a gradient is that gradient's operation.                     *)
ReturnedMeansWaited ==
  \A p \in DOMAIN returned : ops[returned[p]].waited /\ ops[returned[p]].phase = p

(* The GEMM log between two resets: indices rise, start times do not fall,  *)
(* and no operation ends before it started.                                 *)
LogInOrder ==
  \A i \in 1..Len(gemm_log) :
    /\ gemm_log[i].start <= gemm_log[i].end
    /\ \A j \in 1..i - 1 : /\ gemm_log[j].idx < gemm_log[i].idx
                           /\ gemm_log[j].start <= gemm_log[i].start

(* What a step scope or a hook activates is what an ordered trace           *)
(* prescribes for that step or that time, or the nearest SM count torch     *)
(* has a context for.  A step is the timestamp itself, whatever the unit    *)
(* (_sm_count_at_step); the native runtime keeps to that only for           *)
(* microseconds, since its parser converts every timestamp.                 *)
Expected(scale, t) ==
  IF kind = "off" THEN 0
  ELSE IF trace.entries = <<>> THEN Partition
  ELSE Snap(Prescribed(trace.entries, scale, t, Partition))

ActivatedAsTraced ==
  InOrder(trace.entries) =>
    /\ step # Idle => step.sm = Expected(1, step.index) \/ (kind = "cpp" /\ trace.unit # "us")
    /\ ~Between => \A i \in 1..Len(call.sms) :
         call.sms[i] # -1 => call.sms[i] = Expected(TimeScale(trace.unit), call.starts[i])

(* The bundle a step scope yields is of the SM count and the generation     *)
(* that its activation returned, however often contexts were switched since *)
(* the bundle was cached.                                                   *)
StepBundleCurrent == step # Idle => step.bundle = step.generation

(* Between scopes and calls the last swap the Python layer logged led to    *)
(* the SM count the native runtime has active: step scopes, which log only  *)
(* when they end, leave no swap unrecorded.                                 *)
SwapLogCurrent ==
  kind = "cpp" /\ Between /\ step = Idle /\ prev_sm # 0 => prev_sm = active

(* The CUDA context stack holds what the backend records as active, a step    *)
(* scope runs under its SM count until a hook activates within it and yields  *)
(* the bundle of its activation, and the swap log ends where the native       *)
(* runtime is (activate_for_step, activate_for_time, deactivate, close,       *)
(* step_scope), whichever set_context or pop_context of torch raised.         *)
ContextIsAsRecorded ==
  ContextBalanced /\ StepContextHeld /\ StepBundleCurrent /\ SwapLogCurrent

(* Every operation of a hook runs under the SM count that the trace gives for  *)
(* its start and that the log has for it, and is waited for before its result  *)
(* is returned.                                                                *)
DispatchedAsLogged ==
  DispatchedUnder /\ ActivatedAsTraced /\ LogInOrder /\ ReturnedMeansWaited
===============================================================================
