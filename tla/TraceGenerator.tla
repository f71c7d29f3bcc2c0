----------------------------- MODULE TraceGenerator -----------------------------
(***************************************************************************)
(* generate_trace, one slot at a time: a load (random, or shaped by a      *)
(* smoothed, slew-limited state with a deadband), the SM count it is       *)
(* quantized to, and the slot's schedule and decode times.  Loads are in   *)
(* Scale-ths; the noise behind them is any value of RawLoads.              *)
(***************************************************************************)
EXTENDS Integers, Sequences, FiniteSets, FiniteSetsExt

CONSTANTS
  Scale,          \* a load of 1.0
  RawLoads,       \* values of the clipped noise
  AlphaInverse,   \* 1 / --alpha
  SlewCap,        \* --slew
  MinDeadband,    \* 0.04
  SmMin, SmMax, SmStep,
  MaxGenerated    \* bound on slots

VARIABLES
  gmode,    \* [traffic, scs]; "none" before
  gload,    \* load of the last slot
  gtime,    \* when the next slot is scheduled, in us
  gtrace    \* rows written: sequence of [sched, decode, sm]

genVars == <<gmode, gload, gtime, gtrace>>

Traffics == {"random", "shaped"}

(* SCS_PRESETS: nominal slot and decode budget, in us.                      *)
Preset(scs) ==
  CASE scs = 15 -> [slot |-> 1000, min |-> 500, max |-> 714]
    [] scs = 30 -> [slot |-> 500, min |-> 200, max |-> 429]
    [] scs = 60 -> [slot |-> 250, min |-> 150, max |-> 411]
    [] scs = 120 -> [slot |-> 125, min |-> 100, max |-> 321]

GenInit == gmode = [traffic |-> "none", scs |-> 0] /\ gload = 0 /\ gtime = 0 /\ gtrace = <<>>

(***************************************************************************)
(* load_to_sm                                                              *)
(***************************************************************************)
(* np.rint of n / d: halves go to the even neighbour.                       *)
Rint(n, d) ==
  LET q == n \div d
      r == n % d
  IN IF 2 * r < d \/ (2 * r = d /\ q % 2 = 0) THEN q ELSE q + 1

Ceil(n, d) == (n + d - 1) \div d

(* Mutant: the load is not capped below the last half step.                 *)
UncappedSm(load) == SmMin + Rint(load * (SmMax - SmMin), Scale * SmStep) * SmStep

(* The load is capped just under half a step below the top.                 *)
LoadToSm(load) ==
  LET range == SmMax - SmMin
      capped == 2 * load * range >= 2 * Scale * range - Scale * SmStep
      steps == IF range > 0 /\ capped THEN Ceil(range, SmStep) - 1 ELSE Rint(load * range, Scale * SmStep)
  IN SmMin + steps * SmStep

(***************************************************************************)
(* generate_shaped_load                                                    *)
(***************************************************************************)
Deadband == Max({MinDeadband, SlewCap \div 2})

(* Mutant: the smoothed load is taken without the slew limit.               *)
SmoothedOnly(state, raw) == state + (raw - state) \div AlphaInverse

Shape(state, raw) ==
  LET delta == Max({-SlewCap, Min({SlewCap, (raw - state) \div AlphaInverse})})
      next == Max({0, Min({Scale, state + delta})})
      moved == IF next > state THEN next - state ELSE state - next
  IN IF moved < Deadband THEN state ELSE next

(***************************************************************************)
(* generate_timing                                                         *)
(***************************************************************************)
(* Mutant: a jitter of a fifth.                                             *)
WideJitter(nominal) == {nominal - nominal \div 5, nominal, nominal + nominal \div 5}

(* The slot's length varies by up to 2%.                                    *)
SlotLengths(nominal) == {nominal - nominal \div 50, nominal, nominal + nominal \div 50}

GenStart ==
  /\ gmode.traffic = "none"
  /\ \E traffic \in Traffics, scs \in {15, 30, 60, 120} : gmode' = [traffic |-> traffic, scs |-> scs]
  /\ UNCHANGED <<gload, gtime, gtrace>>

GenSlot ==
  /\ gmode.traffic # "none" /\ Len(gtrace) < MaxGenerated
  /\ \E raw \in RawLoads, budget \in {Preset(gmode.scs).min, Preset(gmode.scs).max},
        length \in SlotLengths(Preset(gmode.scs).slot) :
       /\ gload' = IF gmode.traffic = "random" \/ gtrace = <<>> THEN raw ELSE Shape(gload, raw)
       /\ gtrace' = Append(gtrace, [sched |-> gtime, decode |-> gtime + budget, sm |-> LoadToSm(gload')])
       /\ gtime' = gtime + length
  /\ UNCHANGED gmode

GenNext == GenStart \/ GenSlot

-------------------------------------------------------------------------------
(* Every SM count is on the ladder from sm_min in steps of sm_step and, the *)
(* load being capped, below sm_max: the top of the range is left to         *)
(* training at any load.                                                    *)
SmsOnLadder ==
  \A i \in 1..Len(gtrace) :
    /\ gtrace[i].sm >= SmMin /\ (gtrace[i].sm - SmMin) % SmStep = 0
    /\ gtrace[i].sm < SmMax \/ (SmMin = SmMax /\ gtrace[i].sm = SmMin)

(* A shaped trace changes the SM count from slot to slot by no more than    *)
(* the slew cap is worth and one step of rounding.                          *)
ShapedIsGentle ==
  gmode.traffic = "shaped" =>
    \A i \in 2..Len(gtrace) :
      LET change == gtrace[i].sm - gtrace[i - 1].sm
      IN (IF change < 0 THEN -change ELSE change) * Scale <= SlewCap * (SmMax - SmMin) + SmStep * Scale

(* By how many slots a decoding may lag.                                    *)
SlotsAhead == IF gmode.scs = 120 THEN 3 ELSE IF gmode.scs = 60 THEN 2 ELSE 1

(* Slots follow one another, and a slot's decoding starts before the next   *)
(* slot is scheduled with 15 and 30 kHz, before the second next with 60 and *)
(* before the third with 120 kHz, whatever the budget and the jitter.       *)
DecodeKeepsPace ==
  LET scheduled(j) == IF j <= Len(gtrace) THEN gtrace[j].sched ELSE gtime
  IN \A i \in 1..Len(gtrace) : \A j \in (i + 1)..(Len(gtrace) + 1) :
       /\ gtrace[i].sched < scheduled(j)
       /\ j - i >= SlotsAhead => gtrace[i].decode < scheduled(j)

(* A generated trace stays on the SM ladder below the top, changes gently     *)
(* when shaped, and decodes a slot within as many slots as its subcarrier     *)
(* spacing allows (load_to_sm, generate_shaped_load, generate_timing).        *)
TraceIsUsable ==
  SmsOnLadder /\ ShapedIsGentle /\ DecodeKeepsPace
===============================================================================
