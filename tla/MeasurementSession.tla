-------------------------- MODULE MeasurementSession --------------------------
(***************************************************************************)
(* The probes a proxy server runs on a device it has just registered:      *)
(* DeviceMeasurementSession (M1 latency, M2 bandwidth, M3 FLOPS, each      *)
(* optional, each with a timeout) as ProxySvrHandle sets it up, feeds it   *)
(* with the device's answers and drops it, all on the loop of the device's *)
(* connection.                                                             *)
(*                                                                         *)
(* A device may answer a probe late, twice, not at all or wrongly.  The    *)
(* server computes the reference product of M3 at once; an asynchronous    *)
(* reference is the other use the class allows: the product comes later,   *)
(* or fails, and the owner of the session keeps it until then.             *)
(***************************************************************************)
EXTENDS Naturals

CONSTANTS
  Configs,   \* the sets of probes that may be enabled
  RefModes   \* whether reference_gemm_ may answer after it returned

Probes == {"lat", "bw", "flops"}

ASSUME ConfigsAssumption == Configs \subseteq SUBSET Probes
ASSUME RefModesAssumption == RefModes \subseteq BOOLEAN

VARIABLES
  cfg,       \* the enabled probes
  async,     \* the reference product comes later
  st,        \* state_, a pending state being the name of its probe
  probe,     \* in_flight_probe_id_
  armed,     \* timer_armed_, and the timer of the loop that goes with it
  sent,      \* the probes the device was sent
  ref,       \* the reference product: "none", "pending", "ready" or "failed"
  stash,     \* pending_device_c_: "none", or whether it is right
  measured,  \* the probes whose measured_ fields are set
  verified,  \* measured_flops_verified
  fired,     \* how often on_done_ was called
  ok,        \* MeasurementResult::ok of the last call
  profile,   \* the probes in its measured_profile
  held,      \* the session exists: the tracker's map, or its owner, has it
  eligible   \* is_connected: GetConnectedDevices lists the device

session == <<st, probe, armed, sent, ref, stash, measured, verified>>
outcome == <<fired, ok, profile, held>>
sessionVars == <<cfg, async, session, outcome, eligible>>

Terminal == {"DONE", "FAILED"}

SessionInit ==
  /\ cfg \in Configs
  /\ async \in RefModes
  /\ st = "IDLE"
  /\ probe = 0
  /\ armed = FALSE
  /\ sent = {}
  /\ ref = "none"
  /\ stash = "none"
  /\ measured = {}
  /\ verified = FALSE
  /\ fired = 0
  /\ ok = FALSE
  /\ profile = {}
  /\ held = FALSE
  /\ eligible = FALSE

(* The callback stores the profile, removes the session from the tracker's *)
(* map, which destroys it, and queues SendIdlePartitions.                   *)
OnDone(success) ==
  /\ fired' = fired + 1
  /\ ok' = success
  /\ profile' = measured'
  /\ held' = async

Finish(success) ==
  IF st \in Terminal THEN UNCHANGED <<st, armed, outcome>>
  ELSE /\ st' = IF success THEN "DONE" ELSE "FAILED"
       /\ armed' = FALSE
       /\ OnDone(success)

(* Mutant: a probe runs without a timer.                                    *)
StartProbeUnarmed(k) ==
  /\ probe' = probe + 1
  /\ ref' = IF k # "flops" THEN ref ELSE IF async THEN "pending" ELSE "ready"
  /\ st' = k
  /\ armed' = FALSE
  /\ sent' = sent \cup {[kind |-> k, id |-> probe + 1]}
  /\ held' = TRUE
  /\ UNCHANGED <<fired, ok, profile>>

(* Start*Probe: a new id, the reference product for M3, the timer, the     *)
(* request.  A failed send finishes the session.                           *)
StartProbe(k) ==
  /\ probe' = probe + 1
  /\ ref' = IF k # "flops" THEN ref ELSE IF async THEN "pending" ELSE "ready"
  /\ \/ /\ st' = k
        /\ armed' = TRUE
        /\ sent' = sent \cup {[kind |-> k, id |-> probe + 1]}
        /\ held' = TRUE
        /\ UNCHANGED <<fired, ok, profile>>
     \/ Finish(FALSE) /\ UNCHANGED sent

(* HandleRegisterResponse registers the device, then starts the session;   *)
(* with no probe enabled the device is scheduled at once.                  *)
HandleRegisterResponse ==
  /\ st = "IDLE" /\ ~eligible
  /\ eligible' = TRUE
  /\ UNCHANGED <<cfg, async, stash, measured, verified>>
  /\ \/ /\ cfg = {}
        /\ st' = "DONE" /\ OnDone(TRUE)
        /\ UNCHANGED <<probe, armed, sent, ref>>
     \/ /\ cfg # {}
        /\ StartProbe(IF "lat" \in cfg THEN "lat"
                      ELSE IF "bw" \in cfg THEN "bw" ELSE "flops")

(* The checks at the head of each OnProbe*Response, past the lookup of the  *)
(* session by the handler.                                                  *)
Accepts(m) == held /\ st = m.kind /\ probe = m.id

(* Mutant: M3 is looked for before M2.                                      *)
OnProbeEchoFlopsFirst(m) ==
  /\ m \in sent /\ m.kind # "flops"
  /\ Accepts(m)
  /\ measured' = measured \cup {m.kind}
  /\ IF "flops" \in cfg THEN StartProbe("flops")
     ELSE IF m.kind = "lat" /\ "bw" \in cfg THEN StartProbe("bw")
     ELSE /\ st' = "DONE"
          /\ armed' = FALSE
          /\ UNCHANGED <<probe, sent, ref, outcome>>
  /\ UNCHANGED <<cfg, async, stash, verified, eligible>>

(* After the last enabled echo probe state_ is set to DONE before Finish,  *)
(* which then returns at once: on_done_ is kept and never called.          *)
OnProbeEchoResponse(m) ==
  /\ m \in sent /\ m.kind # "flops"
  /\ Accepts(m)
  /\ measured' = measured \cup {m.kind}
  /\ IF m.kind = "lat" /\ "bw" \in cfg THEN StartProbe("bw")
     ELSE IF "flops" \in cfg THEN StartProbe("flops")
     ELSE /\ st' = "DONE"
          /\ armed' = FALSE
          /\ UNCHANGED <<probe, sent, ref, outcome>>
  /\ UNCHANGED <<cfg, async, stash, verified, eligible>>

(* Mutant: reports the probe as done whatever the comparison says.          *)
VerifyUnchecked(right) ==
  /\ measured' = measured \cup {"flops"}
  /\ verified' = right
  /\ Finish(TRUE)

(* Mutant: sets the state before Finish, as the echo handlers do.           *)
VerifyEndsFirst(right) ==
  /\ measured' = measured \cup {"flops"}
  /\ verified' = right
  /\ st' = "DONE"
  /\ armed' = FALSE
  /\ UNCHANGED outcome

Verify(right) ==
  /\ measured' = measured \cup {"flops"}
  /\ verified' = right
  /\ Finish(right)

(* The product may be right, wrong or of the wrong size; it is set aside   *)
(* while the reference is not ready.                                       *)
OnProbeFlopsResponse(m) ==
  /\ m \in sent /\ m.kind = "flops"
  /\ Accepts(m)
  /\ \/ UNCHANGED <<stash, measured, verified>> /\ Finish(FALSE)
     \/ \E right \in BOOLEAN :
          IF ref = "ready"
          THEN Verify(right) /\ UNCHANGED stash
          ELSE /\ stash' = IF right THEN "right" ELSE "wrong"
               /\ armed' = FALSE
               /\ UNCHANGED <<st, measured, verified, outcome>>
  /\ UNCHANGED <<cfg, async, probe, sent, ref, eligible>>

(* The callback of an asynchronous reference_gemm_. *)
ReferenceDone ==
  /\ ref = "pending"
  /\ ref' = "ready"
  /\ stash' = "none"
  /\ IF stash # "none" THEN Verify(stash = "right")
     ELSE UNCHANGED <<st, armed, measured, verified, outcome>>
  /\ UNCHANGED <<cfg, async, probe, sent, eligible>>

ReferenceFailed ==
  /\ ref = "pending"
  /\ ref' = "failed"
  /\ UNCHANGED <<cfg, async, probe, sent, stash, measured, verified, eligible>>
  /\ IF st = "flops" THEN Finish(FALSE) ELSE UNCHANGED <<st, armed, outcome>>

OnTimeout ==
  /\ armed
  /\ UNCHANGED <<cfg, async, probe, sent, ref, stash, measured, verified,
                 eligible>>
  /\ Finish(FALSE)

(* Mutant: a closed connection destroys the session, not its timer.         *)
ConnectionClosedArmed ==
  /\ eligible /\ ~async
  /\ eligible' = FALSE
  /\ held' = FALSE
  /\ UNCHANGED <<cfg, async, st, probe, armed, sent, ref, stash, measured,
                 verified, fired, ok, profile>>

(* The server's ConnectionClosedCb removes the session; its destructor     *)
(* cancels the timer.                                                      *)
ConnectionClosed ==
  /\ eligible /\ ~async
  /\ eligible' = FALSE
  /\ held' = FALSE
  /\ armed' = FALSE
  /\ UNCHANGED <<cfg, async, st, probe, sent, ref, stash, measured, verified,
                 fired, ok, profile>>

SessionNext ==
  \/ HandleRegisterResponse
  \/ \E m \in sent : OnProbeEchoResponse(m) \/ OnProbeFlopsResponse(m)
  \/ ReferenceDone \/ ReferenceFailed
  \/ OnTimeout \/ ConnectionClosed

SessionSpec == SessionInit /\ [][SessionNext]_sessionVars

(* An armed timer goes off and an asynchronous reference answers; a device  *)
(* need not.                                                                *)
FairSession ==
  SessionSpec /\ WF_sessionVars(OnTimeout) /\ WF_sessionVars(ReferenceDone \/ ReferenceFailed)

(***************************************************************************)
(* Properties.                                                             *)
(***************************************************************************)
(* The type of the state; on_done_ is called at most once. *)
SessionTypeOK ==
  /\ cfg \in SUBSET Probes
  /\ async \in BOOLEAN
  /\ st \in {"IDLE"} \cup Probes \cup Terminal
  /\ probe \in Nat
  /\ armed \in BOOLEAN
  /\ sent \subseteq [kind : Probes, id : Nat]
  /\ ref \in {"none", "pending", "ready", "failed"}
  /\ stash \in {"none", "right", "wrong"}
  /\ measured \subseteq Probes
  /\ verified \in BOOLEAN
  /\ fired \in 0..1
  /\ ok \in BOOLEAN
  /\ profile \subseteq Probes
  /\ held \in BOOLEAN
  /\ eligible \in BOOLEAN

(* The timer's callback holds a bare pointer to the session: the timer     *)
(* runs only while the session exists and waits for an answer, and a       *)
(* session that waits has either its timer or a reference product coming.  *)
TimerGuardsSession ==
  /\ armed => held /\ st \in Probes
  /\ held /\ st \in Probes => armed \/ (stash # "none" /\ ref = "pending")

(* on_done_ is called with ok exactly when every enabled probe was         *)
(* measured and the product of M3 verified.                                *)
OkMeansMeasured ==
  fired = 1 => (ok <=> profile = cfg /\ ("flops" \in cfg => verified))

Rank == [k \in Probes |-> CASE k = "lat" -> 1 [] k = "bw" -> 2 [] k = "flops" -> 3]

(* Probes are measured in order, none skipped: M2 and M3 subtract the      *)
(* latency of M1, and an answer to an earlier probe never counts for a     *)
(* later one.                                                              *)
MeasuredInOrder ==
  \A k \in measured \cup (Probes \cap {st}) :
    \A j \in cfg : Rank[j] < Rank[k] => j \in measured

(* A session that started comes to a terminal state, unless its device     *)
(* goes away, even if the device answers nothing.                          *)
SessionEnds == eligible ~> (st \in Terminal \/ ~eligible)

(* When M3 is enabled, and so comes last, a registered device is handed to *)
(* the scheduler by the callback, whichever probe fails, times out or is   *)
(* answered wrongly, and however the reference product comes in.           *)
FlopsLastReports ==
  (eligible /\ "flops" \in cfg) ~> (fired = 1 \/ ~eligible)

(* A registered device is handed to the scheduler when its probes are over *)
(* ("On completion (or failure), pushes the device into the idle-partition *)
(* scheduler").                                                            *)
OnDoneFires == eligible ~> (fired = 1 \/ ~eligible)

(* The probes run "AFTER device registration and BEFORE the device becomes *)
(* scheduler-eligible".  False: RegisterDevice comes first.                *)
MeasuredBeforeEligible == eligible => st \in Terminal

(* What a session reports was earned in order (OnProbeEchoResponse,           *)
(* OnProbeFlopsResponse, Finish): ok means every enabled probe measured and   *)
(* verified, and no probe counts before an earlier one.                       *)
ProfileIsEarned ==
  OkMeansMeasured /\ MeasuredInOrder

(* A started session ends (ArmTimer, OnTimeout), and with M3 enabled its      *)
(* device is handed to the scheduler (Finish), whatever the device answers.   *)
SessionReports ==
  SessionEnds /\ FlopsLastReports
==============================================================================
