------------------------- MODULE TimerSessionProofs --------------------------
(***************************************************************************)
(* Proofs about the timers and about the session that a timer guards:      *)
(* - TimerQueue, for any timers, interval and delays: a timer that was     *)
(*   cancelled is not called again, and the timerfd is armed for the       *)
(*   earliest timer whenever no batch is being called;                     *)
(* - MeasurementSession, for every choice of enabled probes and for a      *)
(*   reference product that comes at once or later.                        *)
(***************************************************************************)
EXTENDS TimerQueue, MeasurementSession, TLAPS

(***************************************************************************)
(* The measurement session.                                                *)
(***************************************************************************)
(* The order of the probes, spelled out. *)
ProbesOrdered ==
  /\ "bw" \in measured \cup {st} /\ "lat" \in cfg => "lat" \in measured
  /\ "flops" \in measured \cup {st} => cfg \ {"flops"} \subseteq measured

(* The probe that is waited for is enabled and not measured yet, and only   *)
(* enabled probes are measured.                                             *)
InFlight ==
  /\ st \in Probes => st \in cfg \ measured
  /\ measured \subseteq cfg
  /\ st = "IDLE" => measured = {}

(* The reference product is asked for when M3 starts, after the other       *)
(* probes, and a failed one ends the session.                               *)
Reference ==
  /\ st \in {"IDLE", "lat", "bw"} => ref = "none"
  /\ ref = "none" => stash = "none"
  /\ ref # "none" => "flops" \in cfg /\ cfg \ {"flops"} \subseteq measured
  /\ st = "flops" => ref \in {"pending", "ready"}

(* What on_done_ was told stays true: a session that failed with M3 still   *)
(* to be verified lacks a probe in its profile, and a product that was      *)
(* compared is not compared again.                                          *)
Reported ==
  fired = 1 =>
    /\ st \in Terminal
    /\ ok => profile = cfg /\ ref # "pending" /\ ("flops" \in cfg => verified)
    /\ ~ok => \/ \E k \in cfg : k \notin profile
              \/ "flops" \in cfg /\ ~verified /\ ref # "pending"

SessionInv ==
  /\ SessionTypeOK /\ TimerGuardsSession /\ ProbesOrdered
  /\ InFlight /\ Reference /\ Reported

LEMMA OrderedProbes ==
  ASSUME cfg \subseteq Probes, measured \subseteq Probes
  PROVE  MeasuredInOrder <=> ProbesOrdered
<1>1. Rank["lat"] = 1 /\ Rank["bw"] = 2 /\ Rank["flops"] = 3
  BY Zenon DEF Rank, Probes
<1>2. \A j, k \in Probes :
        Rank[j] < Rank[k] <=> (j = "lat" /\ k # "lat") \/ (j = "bw" /\ k = "flops")
  BY <1>1 DEF Probes
<1>3. MeasuredInOrder <=>
        \A k \in measured \cup (Probes \cap {st}) : \A j \in cfg :
          (j = "lat" /\ k # "lat") \/ (j = "bw" /\ k = "flops") => j \in measured
  BY <1>2, Zenon DEF MeasuredInOrder
<1> QED
  BY <1>3, Zenon DEF ProbesOrdered, Probes

LEMMA SessionStarts == SessionInit => SessionInv
<1> SUFFICES ASSUME SessionInit PROVE SessionInv
  BY Zenon
<1> USE DEF SessionInit, Probes, Terminal
<1>1. SessionTypeOK /\ cfg \subseteq Probes
  <2>1. cfg \in SUBSET Probes
    BY ConfigsAssumption, Zenon
  <2>2. async \in BOOLEAN
    BY RefModesAssumption, Zenon
  <2>3. probe \in Nat /\ fired \in 0..1
    OBVIOUS
  <2>4. sent \subseteq [kind : Probes, id : Nat] /\ measured \subseteq Probes
        /\ profile \subseteq Probes
    BY Zenon
  <2>5. armed \in BOOLEAN /\ verified \in BOOLEAN /\ ok \in BOOLEAN
        /\ held \in BOOLEAN /\ eligible \in BOOLEAN
    BY Zenon
  <2> QED
    BY <2>1, <2>2, <2>3, <2>4, <2>5, Zenon DEF SessionTypeOK
<1>2. TimerGuardsSession /\ InFlight /\ Reference /\ Reported
  BY DEF TimerGuardsSession, InFlight, Reference, Reported
<1>3. ProbesOrdered
  BY <1>1, Zenon DEF ProbesOrdered
<1> QED
  BY <1>1, <1>2, <1>3, Zenon DEF SessionInv

(* StartProbe on an enabled probe k, of a session that just took in what    *)
(* came before k: it waits for k with its timer set, or its send failed.    *)
LEMMA StartProbeStep ==
  ASSUME SessionTypeOK, st \notin Terminal, NEW k \in Probes, StartProbe(k)
  PROVE  /\ probe' = probe + 1
         /\ ref' = (IF k # "flops" THEN ref ELSE IF async THEN "pending" ELSE "ready")
         /\ \/ /\ st' = k /\ armed' = TRUE /\ held' = TRUE /\ UNCHANGED <<fired, ok, profile>>
               /\ sent' = sent \cup {[kind |-> k, id |-> probe + 1]}
            \/ /\ st' = "FAILED" /\ armed' = FALSE /\ held' = async /\ sent' = sent
               /\ fired' = fired + 1 /\ ok' = FALSE /\ profile' = measured'
  BY Zenon DEF StartProbe, Finish, OnDone

LEMMA StartProbeInv ==
  ASSUME SessionInv, fired = 0, NEW k \in cfg, StartProbe(k),
         st \notin Terminal, stash = "none", ref = "none",
         measured' \subseteq cfg \ {k}, k = "bw" => "lat" \notin cfg \ measured',
         k = "flops" => cfg \ {"flops"} = measured', k = "lat" => measured' = {},
         k = "bw" => measured' \subseteq {"lat"},
         UNCHANGED <<cfg, async, stash, verified>>, eligible' \in BOOLEAN
  PROVE  SessionInv'
<1> USE DEF Probes, Terminal
<1>1. SessionTypeOK /\ k \in Probes
  BY Zenon DEF SessionInv, SessionTypeOK
<1>2. /\ probe' = probe + 1
      /\ ref' = (IF k # "flops" THEN ref ELSE IF async THEN "pending" ELSE "ready")
      /\ \/ /\ st' = k /\ armed' = TRUE /\ held' = TRUE /\ UNCHANGED <<fired, ok, profile>>
            /\ sent' = sent \cup {[kind |-> k, id |-> probe + 1]}
         \/ /\ st' = "FAILED" /\ armed' = FALSE /\ held' = async /\ sent' = sent
            /\ fired' = fired + 1 /\ ok' = FALSE /\ profile' = measured'
  BY <1>1, StartProbeStep, Zenon
<1>3. SessionTypeOK'
  <2>1. /\ async' \in BOOLEAN /\ armed' \in BOOLEAN /\ verified' \in BOOLEAN
        /\ ok' \in BOOLEAN /\ held' \in BOOLEAN /\ eligible' \in BOOLEAN
    BY <1>1, <1>2, Zenon DEF SessionTypeOK
  <2>2. /\ probe' \in Nat /\ fired' \in 0..1
        /\ sent' \subseteq [kind : Probes, id : Nat]
    BY <1>1, <1>2 DEF SessionTypeOK
  <2>3. /\ cfg' \in SUBSET Probes /\ st' \in {"IDLE"} \cup Probes \cup Terminal
        /\ ref' \in {"none", "pending", "ready", "failed"}
        /\ stash' \in {"none", "right", "wrong"}
        /\ measured' \subseteq Probes /\ profile' \subseteq Probes
    BY <1>1, <1>2, Zenon DEF SessionTypeOK
  <2> QED
    BY <2>1, <2>2, <2>3, Zenon DEF SessionTypeOK
<1>4. TimerGuardsSession' /\ InFlight' /\ Reference'
  BY <1>1, <1>2, Zenon DEF SessionTypeOK, TimerGuardsSession, InFlight, Reference
<1>5. ProbesOrdered'
  BY <1>1, <1>2, Zenon DEF SessionTypeOK, ProbesOrdered
<1>6. Reported'
  BY <1>1, <1>2 DEF SessionTypeOK, Reported
<1> QED
  BY <1>3, <1>4, <1>5, <1>6, Zenon DEF SessionInv

(* A probe that failed or timed out ends the session: it is not in the      *)
(* profile that is reported.                                                *)
LEMMA FailInv ==
  ASSUME SessionInv, st \in Probes, Finish(FALSE),
         UNCHANGED <<cfg, async, probe, sent, stash, measured, verified, eligible>>,
         ref' = ref \/ (ref = "pending" /\ ref' = "failed")
  PROVE  SessionInv'
<1> USE DEF Probes, Terminal
<1>1. /\ SessionTypeOK /\ TimerGuardsSession /\ ProbesOrdered /\ InFlight /\ Reference /\ Reported
      /\ st \notin Terminal /\ fired = 0
  BY DEF SessionInv, Reported, SessionTypeOK
<1>2. /\ st' = "FAILED" /\ armed' = FALSE /\ fired' = 1 /\ ok' = FALSE
      /\ profile' = measured /\ held' = async
  BY <1>1 DEF Finish, OnDone
<1>3. SessionTypeOK'
  <2>1. /\ async' \in BOOLEAN /\ armed' \in BOOLEAN /\ verified' \in BOOLEAN
        /\ ok' \in BOOLEAN /\ held' \in BOOLEAN /\ eligible' \in BOOLEAN
    BY <1>1, <1>2, Zenon DEF SessionTypeOK
  <2>2. /\ probe' \in Nat /\ fired' \in 0..1
        /\ sent' \subseteq [kind : Probes, id : Nat]
    BY <1>1, <1>2 DEF SessionTypeOK
  <2>3. /\ cfg' \in SUBSET Probes /\ st' \in {"IDLE"} \cup Probes \cup Terminal
        /\ ref' \in {"none", "pending", "ready", "failed"}
        /\ stash' \in {"none", "right", "wrong"}
        /\ measured' \subseteq Probes /\ profile' \subseteq Probes
    BY <1>1, <1>2, Zenon DEF SessionTypeOK
  <2> QED
    BY <2>1, <2>2, <2>3, Zenon DEF SessionTypeOK
<1>4. TimerGuardsSession' /\ InFlight' /\ Reference' /\ ProbesOrdered'
  BY <1>1, <1>2, Zenon DEF SessionTypeOK, TimerGuardsSession, InFlight, Reference, ProbesOrdered
<1>5. Reported'
  BY <1>1, <1>2, Zenon DEF SessionTypeOK, Reported, InFlight
<1> QED
  BY <1>3, <1>4, <1>5, Zenon DEF SessionInv

(* The product of M3 is compared once, with the other probes measured.      *)
LEMMA VerifyInv ==
  ASSUME SessionInv, st = "flops", NEW right \in BOOLEAN, Verify(right),
         ref' = "ready", stash' \in {stash, "none"},
         UNCHANGED <<cfg, async, probe, sent, eligible>>
  PROVE  SessionInv'
<1> USE DEF Probes, Terminal
<1>1. /\ SessionTypeOK /\ TimerGuardsSession /\ ProbesOrdered /\ InFlight /\ Reference /\ Reported
      /\ st \notin Terminal /\ fired = 0
  BY DEF SessionInv, Reported, SessionTypeOK
<1>2. /\ st' \in Terminal /\ armed' = FALSE /\ fired' = 1 /\ ok' = right
      /\ measured' = measured \cup {"flops"} /\ verified' = right
      /\ profile' = measured' /\ held' = async
  BY <1>1 DEF Verify, Finish, OnDone
<1>3. measured' = cfg
  BY <1>1, <1>2, Zenon DEF ProbesOrdered, InFlight, SessionTypeOK
<1>4. SessionTypeOK'
  <2>1. /\ async' \in BOOLEAN /\ armed' \in BOOLEAN /\ verified' \in BOOLEAN
        /\ ok' \in BOOLEAN /\ held' \in BOOLEAN /\ eligible' \in BOOLEAN
    BY <1>1, <1>2, <1>3, Zenon DEF SessionTypeOK
  <2>2. /\ probe' \in Nat /\ fired' \in 0..1
        /\ sent' \subseteq [kind : Probes, id : Nat]
    BY <1>1, <1>2, <1>3 DEF SessionTypeOK
  <2>3. /\ cfg' \in SUBSET Probes /\ st' \in {"IDLE"} \cup Probes \cup Terminal
        /\ ref' \in {"none", "pending", "ready", "failed"}
        /\ stash' \in {"none", "right", "wrong"}
        /\ measured' \subseteq Probes /\ profile' \subseteq Probes
    BY <1>1, <1>2, <1>3, Zenon DEF SessionTypeOK
  <2> QED
    BY <2>1, <2>2, <2>3, Zenon DEF SessionTypeOK
<1>5. TimerGuardsSession' /\ InFlight' /\ Reference' /\ ProbesOrdered'
  BY <1>1, <1>2, <1>3, Zenon DEF SessionTypeOK, TimerGuardsSession, InFlight, Reference, ProbesOrdered
<1>6. Reported'
  BY <1>1, <1>2, <1>3, Zenon DEF SessionTypeOK, Reported, InFlight
<1> QED
  BY <1>4, <1>5, <1>6, Zenon DEF SessionInv

LEMMA SessionRegister == SessionInv /\ HandleRegisterResponse => SessionInv'
<1> SUFFICES ASSUME SessionInv, HandleRegisterResponse PROVE SessionInv'
  BY Zenon
<1> USE DEF Probes, Terminal
<1>1. /\ SessionTypeOK /\ TimerGuardsSession /\ ProbesOrdered /\ InFlight /\ Reference /\ Reported
      /\ st = "IDLE" /\ fired = 0 /\ measured = {} /\ ref = "none" /\ stash = "none"
      /\ armed = FALSE
  BY DEF SessionInv, HandleRegisterResponse, TimerGuardsSession, Reported, InFlight,
         Reference, SessionTypeOK
<1>2. CASE cfg # {}
  <2>1. PICK k \in cfg : /\ StartProbe(k)
                         /\ k = "bw" => "lat" \notin cfg
                         /\ k = "flops" => cfg = {"flops"}
    BY <1>1, <1>2, Zenon DEF HandleRegisterResponse, SessionTypeOK
  <2>2. /\ measured' = {} /\ eligible' \in BOOLEAN
        /\ UNCHANGED <<cfg, async, stash, verified>>
    BY <1>1, Zenon DEF HandleRegisterResponse
  <2>3. /\ measured' \subseteq cfg \ {k}
        /\ k = "bw" => "lat" \notin cfg \ measured'
        /\ k = "flops" => cfg \ {"flops"} = measured'
        /\ k = "lat" => measured' = {}
        /\ k = "bw" => measured' \subseteq {"lat"}
    BY <2>1, <2>2, Zenon
  <2> QED
    BY <1>1, <2>1, <2>2, <2>3, StartProbeInv, Zenon
<1>3. CASE cfg = {}
  <2>1. /\ st' = "DONE" /\ fired' = 1 /\ ok' = TRUE /\ profile' = {} /\ held' = async
        /\ eligible' = TRUE
        /\ UNCHANGED <<cfg, async, probe, armed, sent, ref, stash, measured, verified>>
    BY <1>1, <1>3 DEF HandleRegisterResponse, OnDone
  <2>2. SessionTypeOK'
    <3>1. fired' \in 0..1
      BY <2>1
    <3> QED
      BY <1>1, <2>1, <3>1, Zenon DEF SessionTypeOK
  <2>3. /\ TimerGuardsSession' /\ ProbesOrdered' /\ InFlight' /\ Reference' /\ Reported'
    BY <1>1, <1>3, <2>1, Zenon DEF TimerGuardsSession, ProbesOrdered, InFlight, Reference, Reported
  <2> QED
    BY <2>2, <2>3, Zenon DEF SessionInv
<1> QED
  BY <1>2, <1>3, Zenon

LEMMA SessionEcho ==
  ASSUME SessionInv, NEW m \in sent, OnProbeEchoResponse(m)
  PROVE  SessionInv'
<1> USE DEF Probes, Terminal
<1>1. /\ SessionTypeOK /\ TimerGuardsSession /\ ProbesOrdered /\ InFlight /\ Reference /\ Reported
      /\ st = m.kind /\ st \in {"lat", "bw"} /\ st \in cfg \ measured
      /\ fired = 0 /\ ref = "none" /\ stash = "none"
      /\ measured' = measured \cup {st}
      /\ UNCHANGED <<cfg, async, stash, verified, eligible>>
  BY DEF SessionInv, OnProbeEchoResponse, Accepts, Reported, InFlight, Reference, SessionTypeOK
<1>2. /\ st = "lat" => measured = {}
      /\ st = "bw" => measured = cfg \cap {"lat"}
  <2>1. /\ measured \subseteq {"lat", "bw", "flops"} /\ measured \subseteq cfg
        /\ st \in cfg /\ st \notin measured /\ st # "flops"
    BY <1>1, Zenon DEF InFlight, SessionTypeOK
  <2>2. "flops" \notin measured
    BY <1>1, <2>1, Zenon DEF ProbesOrdered
  <2>3. st = "lat" => "bw" \notin measured
    BY <1>1, <2>1, Zenon DEF ProbesOrdered
  <2>4. st = "bw" /\ "lat" \in cfg => "lat" \in measured
    BY <1>1, Zenon DEF ProbesOrdered
  <2> QED
    BY <2>1, <2>2, <2>3, <2>4, Zenon
<1>3. CASE st = "lat" /\ "bw" \in cfg
  <2>1. StartProbe("bw")
    BY <1>1, <1>3, Zenon DEF OnProbeEchoResponse
  <2> QED
    BY <1>1, <1>2, <1>3, <2>1, StartProbeInv, Zenon DEF SessionTypeOK
<1>4. CASE ~(st = "lat" /\ "bw" \in cfg) /\ "flops" \in cfg
  <2>1. StartProbe("flops")
    BY <1>1, <1>4, Zenon DEF OnProbeEchoResponse
  <2>2. cfg \ {"flops"} = measured'
    BY <1>1, <1>2, <1>4, Zenon DEF SessionTypeOK
  <2> QED
    BY <1>1, <1>4, <2>1, <2>2, StartProbeInv, Zenon DEF SessionTypeOK
<1>5. CASE ~(st = "lat" /\ "bw" \in cfg) /\ "flops" \notin cfg
  <2>1. /\ st' = "DONE" /\ armed' = FALSE
        /\ UNCHANGED <<probe, sent, ref, fired, ok, profile, held>>
    BY <1>1, <1>5, Zenon DEF OnProbeEchoResponse, outcome
  <2>2. SessionTypeOK'
    BY <1>1, <2>1, Zenon DEF SessionTypeOK
  <2>3. /\ TimerGuardsSession' /\ ProbesOrdered' /\ InFlight' /\ Reference' /\ Reported'
    BY <1>1, <1>2, <1>5, <2>1, Zenon DEF TimerGuardsSession, ProbesOrdered, InFlight, Reference,
                                  Reported, SessionTypeOK
  <2> QED
    BY <2>2, <2>3, Zenon DEF SessionInv
<1> QED
  BY <1>3, <1>4, <1>5, Zenon

LEMMA SessionFlops ==
  ASSUME SessionInv, NEW m \in sent, OnProbeFlopsResponse(m)
  PROVE  SessionInv'
<1> USE DEF Probes, Terminal
<1>1. /\ SessionTypeOK /\ TimerGuardsSession /\ ProbesOrdered /\ InFlight /\ Reference /\ Reported
      /\ st = "flops" /\ held /\ fired = 0 /\ ref \in {"pending", "ready"}
      /\ UNCHANGED <<cfg, async, probe, sent, ref, eligible>>
  BY DEF SessionInv, OnProbeFlopsResponse, Accepts, Reported, Reference, SessionTypeOK
<1>2. CASE UNCHANGED <<stash, measured, verified>> /\ Finish(FALSE)
  BY <1>1, <1>2, FailInv, Zenon
<1>3. ASSUME NEW right \in BOOLEAN, ref = "ready", Verify(right), UNCHANGED stash
      PROVE  SessionInv'
  BY <1>1, <1>3, VerifyInv, Zenon
<1>4. ASSUME NEW right \in BOOLEAN, ref = "pending",
             stash' = IF right THEN "right" ELSE "wrong", armed' = FALSE,
             UNCHANGED <<st, measured, verified, outcome>>
      PROVE  SessionInv'
  <2>1. UNCHANGED <<fired, ok, profile, held>>
    BY <1>4, Zenon DEF outcome
  <2>2. stash' \in {"right", "wrong"}
    BY <1>4, Zenon
  <2>3. SessionTypeOK'
    BY <1>1, <1>4, <2>1, <2>2, Zenon DEF SessionTypeOK
  <2>4. TimerGuardsSession' /\ ProbesOrdered' /\ InFlight' /\ Reference' /\ Reported'
    BY <1>1, <1>4, <2>1, <2>2, Zenon DEF TimerGuardsSession, ProbesOrdered, InFlight, Reference,
                                  Reported
  <2> QED
    BY <2>3, <2>4, Zenon DEF SessionInv
<1> QED
  BY <1>1, <1>2, <1>3, <1>4, Zenon DEF OnProbeFlopsResponse

(* A reference product may come in after the session failed, on an answer   *)
(* that was set aside: the comparison then changes nothing that was told.   *)
LEMMA SessionReference ==
  ASSUME SessionInv, ReferenceDone \/ ReferenceFailed
  PROVE  SessionInv'
<1> USE DEF Probes, Terminal
<1>1. /\ SessionTypeOK /\ TimerGuardsSession /\ ProbesOrdered /\ InFlight /\ Reference /\ Reported
      /\ ref = "pending" /\ st \in {"flops", "DONE", "FAILED"}
      /\ "flops" \in cfg /\ cfg \ {"flops"} \subseteq measured
      /\ UNCHANGED <<cfg, async, probe, sent, eligible>>
  BY Zenon DEF SessionInv, ReferenceDone, ReferenceFailed, Reference, SessionTypeOK
<1>2. CASE ReferenceDone /\ stash # "none" /\ st = "flops"
  <2>1. (stash = "right") \in BOOLEAN /\ Verify(stash = "right")
        /\ ref' = "ready" /\ stash' = "none"
    BY <1>2, Zenon DEF ReferenceDone
  <2> QED
    BY <1>1, <1>2, <2>1, VerifyInv, Zenon
<1>3. CASE ReferenceDone /\ stash # "none" /\ st # "flops"
  <2>1. /\ measured' = cfg /\ verified' = (stash = "right")
        /\ ref' = "ready" /\ stash' = "none"
        /\ UNCHANGED <<st, armed, fired, ok, profile, held>>
    <3>1. /\ Verify(stash = "right") /\ ref' = "ready" /\ stash' = "none"
          /\ st \in Terminal
      BY <1>1, <1>3, Zenon DEF ReferenceDone
    <3>2. /\ measured' = measured \cup {"flops"} /\ verified' = (stash = "right")
          /\ UNCHANGED <<st, armed, fired, ok, profile, held>>
      BY <3>1, Zenon DEF Verify, Finish, outcome
    <3>3. measured \cup {"flops"} = cfg
      BY <1>1, Zenon DEF InFlight, SessionTypeOK
    <3> QED
      BY <3>1, <3>2, <3>3, Zenon
  <2>2. verified' \in BOOLEAN
    BY <2>1, Zenon
  <2>3. SessionTypeOK'
    BY <1>1, <2>1, <2>2, Zenon DEF SessionTypeOK
  <2>4. TimerGuardsSession' /\ ProbesOrdered' /\ InFlight' /\ Reference' /\ Reported'
    BY <1>1, <1>3, <2>1, Zenon DEF TimerGuardsSession, ProbesOrdered, InFlight, Reference, Reported,
                            SessionTypeOK
  <2> QED
    BY <2>3, <2>4, Zenon DEF SessionInv
<1>4. CASE ReferenceDone /\ stash = "none"
  <2>1. /\ ref' = "ready" /\ stash' = "none"
        /\ UNCHANGED <<st, armed, measured, verified, fired, ok, profile, held>>
    BY <1>4, Zenon DEF ReferenceDone, outcome
  <2>2. SessionTypeOK'
    BY <1>1, <2>1, Zenon DEF SessionTypeOK
  <2>3. TimerGuardsSession' /\ ProbesOrdered' /\ InFlight' /\ Reference' /\ Reported'
    BY <1>1, <1>4, <2>1, Zenon DEF TimerGuardsSession, ProbesOrdered, InFlight, Reference, Reported
  <2> QED
    BY <2>2, <2>3, Zenon DEF SessionInv
<1>5. CASE ReferenceFailed /\ st = "flops"
  BY <1>1, <1>5, FailInv, Zenon DEF ReferenceFailed
<1>6. CASE ReferenceFailed /\ st # "flops"
  <2>1. /\ ref' = "failed"
        /\ UNCHANGED <<st, armed, stash, measured, verified, fired, ok, profile, held>>
    BY <1>6, Zenon DEF ReferenceFailed, outcome
  <2>2. SessionTypeOK'
    BY <1>1, <2>1, Zenon DEF SessionTypeOK
  <2>3. TimerGuardsSession' /\ ProbesOrdered' /\ InFlight' /\ Reference' /\ Reported'
    BY <1>1, <1>6, <2>1, Zenon DEF TimerGuardsSession, ProbesOrdered, InFlight, Reference, Reported
  <2> QED
    BY <2>2, <2>3, Zenon DEF SessionInv
<1> QED
  BY <1>2, <1>3, <1>4, <1>5, <1>6, Zenon

LEMMA SessionSteps == SessionInv /\ [SessionNext]_sessionVars => SessionInv'
<1> SUFFICES ASSUME SessionInv, [SessionNext]_sessionVars PROVE SessionInv'
  BY Zenon
<1>1. CASE OnTimeout
  <2>1. st \in Probes
    BY <1>1, Zenon DEF OnTimeout, SessionInv, TimerGuardsSession
  <2> QED
    BY <1>1, <2>1, FailInv, Zenon DEF OnTimeout
<1>2. ASSUME UNCHANGED <<cfg, async, st, probe, sent, ref, stash, measured, verified,
                         fired, ok, profile>>,
             held' \in BOOLEAN, armed' \in BOOLEAN, eligible' \in BOOLEAN,
             TimerGuardsSession'
      PROVE  SessionInv'
  <2>1. SessionTypeOK'
    BY <1>2, Zenon DEF SessionInv, SessionTypeOK
  <2>2. ProbesOrdered' /\ InFlight' /\ Reference' /\ Reported'
    BY <1>2 DEF SessionInv, ProbesOrdered, InFlight, Reference, Reported
  <2> QED
    BY <1>2, <2>1, <2>2, Zenon DEF SessionInv
<1>3. CASE ConnectionClosed
  <2>1. held' = FALSE /\ armed' = FALSE /\ eligible' = FALSE
    BY <1>3, Zenon DEF ConnectionClosed
  <2>2. TimerGuardsSession'
    BY <2>1, Zenon DEF TimerGuardsSession
  <2> QED
    BY <1>2, <1>3, <2>1, <2>2, Zenon DEF ConnectionClosed
<1>4. CASE UNCHANGED sessionVars
  <2>1. UNCHANGED <<cfg, async, st, probe, armed, sent, ref, stash, measured, verified,
                    fired, ok, profile, held, eligible>>
    BY <1>4, Zenon DEF sessionVars, session, outcome
  <2>2. TimerGuardsSession'
    BY <2>1, Zenon DEF SessionInv, TimerGuardsSession
  <2>3. held' \in BOOLEAN /\ armed' \in BOOLEAN /\ eligible' \in BOOLEAN
    BY <2>1, Zenon DEF SessionInv, SessionTypeOK
  <2> QED
    BY <1>2, <2>1, <2>2, <2>3, Zenon
<1> QED
  BY <1>1, <1>3, <1>4, SessionRegister, SessionEcho, SessionFlops, SessionReference, Zenon DEF SessionNext

LEMMA SessionInvariant == SessionSpec => []SessionInv
  BY SessionStarts, SessionSteps, PTL DEF SessionSpec

(* The type invariant: on_done_ is called at most once in a session's life. *)
THEOREM SessionTypeCorrect == SessionSpec => []SessionTypeOK
  BY SessionInvariant, PTL DEF SessionInv

(* The timer, whose callback holds a bare pointer, runs only on a session   *)
(* that exists, and a session that waits is never left without a timer or   *)
(* a reference product to come.                                             *)
THEOREM TimerIsSafe == SessionSpec => []TimerGuardsSession
  BY SessionInvariant, PTL DEF SessionInv

(* on_done_ reports ok exactly for a complete and verified profile, and     *)
(* probes are measured in order, whatever late, repeated or wrong answers   *)
(* a device sends.                                                          *)
THEOREM ReportsAreEarned == SessionSpec => []ProfileIsEarned
<1>1. SessionInv => ProfileIsEarned
  <2> SUFFICES ASSUME SessionInv PROVE OkMeansMeasured /\ MeasuredInOrder
    BY Zenon DEF ProfileIsEarned
  <2>1. MeasuredInOrder
    BY OrderedProbes, Zenon DEF SessionInv, SessionTypeOK
  <2>2. OkMeansMeasured
    BY Zenon DEF SessionInv, Reported, OkMeansMeasured, SessionTypeOK
  <2> QED
    BY <2>1, <2>2, Zenon
<1> QED
  BY <1>1, SessionInvariant, PTL

(***************************************************************************)
(* The timer queue.                                                        *)
(***************************************************************************)
(* The loop's functors: an add is posted when its timer is created and a    *)
(* cancel after it, so no add is behind a cancel of its timer.              *)
Posted(i, kind, s) == i \in 1..Len(posted) /\ posted[i] = <<kind, s>>

PostedInv ==
  \A s \in Timers, i \in Nat :
    /\ Posted(i, "add", s) => s \in created /\ s \notin dead
    /\ Posted(i, "cancel", s) => s \in asked
    /\ \A j \in Nat : Posted(i, "cancel", s) /\ Posted(j, "add", s) => j < i

(* Between batches there is nothing to call; a dead timer is not in the     *)
(* queue, and in the batch being called its cancel is remembered.           *)
BatchInv ==
  /\ ~calling => expired = {} /\ rest = <<>> /\ running = None
  /\ timers \cap dead = {}
  /\ expired \cap dead \subseteq canceling

QuietInv == TypeOK /\ PostedInv /\ BatchInv

(***************************************************************************)
(* The loop's functors.                                                    *)
(***************************************************************************)
LEMMA PostedAppend ==
  ASSUME TypeOK, NEW kind \in {"add", "cancel"}, NEW t \in Timers,
         posted' = Append(posted, <<kind, t>>)
  PROVE  /\ posted' \in Seq({"add", "cancel"} \X Timers) /\ Len(posted) \in Nat
         /\ \A i \in Nat, k \in {"add", "cancel"}, s \in Timers :
              Posted(i, k, s)' <=> \/ Posted(i, k, s)
                                   \/ i = Len(posted) + 1 /\ k = kind /\ s = t
<1>1. posted \in Seq({"add", "cancel"} \X Timers) /\ Len(posted) \in Nat
  BY DEF TypeOK
<1>2. <<kind, t>> \in {"add", "cancel"} \X Timers
  BY Zenon
<1>3. /\ Len(posted') = Len(posted) + 1 /\ posted'[Len(posted) + 1] = <<kind, t>>
      /\ \A i \in 1..Len(posted) : posted'[i] = posted[i]
  BY <1>1, <1>2
<1>4. posted' \in Seq({"add", "cancel"} \X Timers)
  BY <1>1, <1>2
<1> QED
  BY <1>1, <1>3, <1>4 DEF Posted

LEMMA PostedTail ==
  ASSUME TypeOK, posted # <<>>, posted' = Tail(posted)
  PROVE  /\ posted' \in Seq({"add", "cancel"} \X Timers)
         /\ \E k \in {"add", "cancel"}, s \in Timers :
              Head(posted) = <<k, s>> /\ Posted(1, k, s)
         /\ \A i \in Nat, k \in {"add", "cancel"}, s \in Timers :
              Posted(i, k, s)' <=> i # 0 /\ Posted(i + 1, k, s)
<1>1. posted \in Seq({"add", "cancel"} \X Timers) /\ Len(posted) \in Nat /\ Len(posted) > 0
  BY DEF TypeOK
<1>2. Head(posted) = posted[1] /\ posted[1] \in {"add", "cancel"} \X Timers
  BY <1>1
<1>3. /\ Len(posted') = Len(posted) - 1
      /\ \A i \in 1..Len(posted') : posted'[i] = posted[i + 1]
  BY <1>1
<1>4. posted' \in Seq({"add", "cancel"} \X Timers)
  BY <1>1
<1>5. \E k \in {"add", "cancel"}, s \in Timers : Head(posted) = <<k, s>> /\ Posted(1, k, s)
  BY <1>1, <1>2 DEF Posted
<1>6. \A i \in Nat, k \in {"add", "cancel"}, s \in Timers :
        Posted(i, k, s)' <=> i # 0 /\ Posted(i + 1, k, s)
  BY <1>1, <1>3 DEF Posted
<1> QED
  BY <1>4, <1>5, <1>6, Zenon

(* A step that posts nothing, and takes no timer whose add is posted.       *)
LEMMA PostedFrame ==
  ASSUME PostedInv, UNCHANGED posted, created \subseteq created', asked \subseteq asked',
         \A s \in dead' \ dead, i \in Nat : ~Posted(i, "add", s)
  PROVE  PostedInv'
<1>1. \A s \in Timers, i \in Nat : /\ Posted(i, "add", s)' <=> Posted(i, "add", s)
                                   /\ Posted(i, "cancel", s)' <=> Posted(i, "cancel", s)
  BY Zenon DEF Posted
<1> QED
  BY <1>1, Zenon DEF PostedInv

LEMMA PostedNext ==
  ASSUME TypeOK, PostedInv, [Next]_vars
  PROVE  PostedInv'
<1> USE DEF clientVars, batchVars
<1>1. ASSUME NEW s \in Timers, NEW d \in 0..MaxDelay, AddTimer(s, d) PROVE PostedInv'
  <2>1. /\ Len(posted) \in Nat
        /\ \A i \in Nat, k \in {"add", "cancel"}, u \in Timers :
             Posted(i, k, u)' <=> Posted(i, k, u) \/ (i = Len(posted) + 1 /\ k = "add" /\ u = s)
    BY <1>1, PostedAppend, Zenon DEF AddTimer
  <2>2. s \notin created /\ s \notin asked /\ s \notin dead /\ created' = created \cup {s}
        /\ UNCHANGED <<asked, dead>>
    BY <1>1, Zenon DEF AddTimer, TypeOK
  <2> QED
    BY <2>1, <2>2 DEF PostedInv
<1>2. ASSUME NEW s \in Timers, Cancel(s) PROVE PostedInv'
  <2>1. /\ Len(posted) \in Nat
        /\ \A i \in Nat, k \in {"add", "cancel"}, u \in Timers :
             Posted(i, k, u)' <=> Posted(i, k, u) \/ (i = Len(posted) + 1 /\ k = "cancel" /\ u = s)
    BY <1>2, PostedAppend, Zenon DEF Cancel
  <2>2. asked' = asked \cup {s} /\ UNCHANGED <<created, dead>>
    BY <1>2, Zenon DEF Cancel
  <2>3. \A j \in Nat : Posted(j, "add", s) => j < Len(posted) + 1
    BY <2>1 DEF Posted
  <2> QED
    BY <2>1, <2>2, <2>3 DEF PostedInv
<1>3. CASE RunPosted
  <2>1. PICK k \in {"add", "cancel"}, s \in Timers : Head(posted) = <<k, s>> /\ Posted(1, k, s)
    BY <1>3, PostedTail, Zenon DEF RunPosted
  <2>2. \A i \in Nat, h \in {"add", "cancel"}, u \in Timers :
          Posted(i, h, u)' <=> i # 0 /\ Posted(i + 1, h, u)
    BY <1>3, PostedTail, Zenon DEF RunPosted
  <2>3. UNCHANGED <<created, asked>> /\ (dead' = dead \/ (k = "cancel" /\ dead' = dead \cup {s}))
    BY <1>3, <2>1 DEF RunPosted
  <2>4. k = "cancel" => \A j \in Nat : ~(j # 0 /\ Posted(j + 1, "add", s))
    BY <2>1 DEF PostedInv
  <2>5. \A u \in Timers, i \in Nat : /\ Posted(i, "add", u)' => u \in created' /\ u \notin dead'
                                     /\ Posted(i, "cancel", u)' => u \in asked'
    BY <2>2, <2>3, <2>4 DEF PostedInv
  <2>6. \A u \in Timers, i, j \in Nat : Posted(i, "cancel", u)' /\ Posted(j, "add", u)' => j < i
    BY <2>2 DEF PostedInv
  <2> QED
    BY <2>5, <2>6, Zenon DEF PostedInv
<1>4. ASSUME NEW s \in Timers, CancelFromLoop(s) PROVE PostedInv'
  <2>1. UNCHANGED <<posted, created>> /\ asked \subseteq asked'
    BY <1>4, Zenon DEF CancelFromLoop
  <2>2. \A u \in dead' \ dead, i \in Nat : ~Posted(i, "add", u)
    BY <1>4, Zenon DEF CancelFromLoop, AddPosted, Posted
  <2> QED
    BY <2>1, <2>2, PostedFrame, Zenon
<1>5. CASE \/ \E s \in Timers, d \in 0..MaxDelay : AddTimerFromLoop(s, d)
           \/ \E s \in Timers : AddTimerReturn(s)
  BY <1>5, PostedFrame, Zenon DEF AddTimerFromLoop, AddTimerReturn
<1>6. CASE TimerfdReadCb \/ RunExpired \/ CallbackReturn \/ Reset \/ Tick \/ UNCHANGED vars
  BY <1>6, PostedFrame, Zenon DEF TimerfdReadCb, RunExpired, CallbackReturn, Reset, Tick, vars
<1> QED
  BY <1>1, <1>2, <1>3, <1>4, <1>5, <1>6, Zenon DEF Next, Loop

(***************************************************************************)
(* The queue, the batch and the types.                                     *)
(***************************************************************************)
LEMMA QuietInit == Init => QuietInv
<1> SUFFICES ASSUME Init PROVE QuietInv
  BY Zenon
<1>1. calling \in BOOLEAN
  BY Zenon DEF Init
<1>2. /\ posted \in Seq({"add", "cancel"} \X Timers) /\ Len(posted) = 0
      /\ left \in [Timers -> Nat] /\ rest \in Seq(expired) /\ fd \in Nat \cup {Off}
      /\ elapsed \in 0..Interval
  BY TimerAssumption DEF Init
<1>3. TypeOK
  BY <1>1, <1>2, Zenon DEF Init, TypeOK
<1>4. PostedInv /\ BatchInv
  BY <1>2 DEF Init, PostedInv, Posted, BatchInv
<1> QED
  BY <1>3, <1>4, Zenon DEF QuietInv

LEMMA BatchNext ==
  ASSUME TypeOK, PostedInv, BatchInv, [Next]_vars
  PROVE  BatchInv'
<1> USE DEF clientVars, batchVars, BatchInv
<1>1. ASSUME NEW s \in Timers, NEW d \in 0..MaxDelay, AddTimer(s, d) PROVE BatchInv'
  BY <1>1, Zenon DEF AddTimer
<1>2. ASSUME NEW s \in Timers, NEW d \in 0..MaxDelay, AddTimerFromLoop(s, d) PROVE BatchInv'
  <2>1. s \notin dead /\ timers' = timers \cup {s} /\ UNCHANGED <<batchVars, canceling, dead>>
    BY <1>2, Zenon DEF AddTimerFromLoop, AddTimerInLoop, Insert, TypeOK
  <2> QED
    BY <2>1, Zenon
<1>3. ASSUME NEW s \in Timers, AddTimerReturn(s) \/ Cancel(s) PROVE BatchInv'
  BY <1>3, Zenon DEF AddTimerReturn, Cancel
<1>4. ASSUME NEW s \in Timers, CancelFromLoop(s) PROVE BatchInv'
  BY <1>4, Zenon DEF CancelFromLoop, CancelInLoop, TypeOK
<1>5. CASE RunPosted
  <2>1. PICK k \in {"add", "cancel"}, s \in Timers : Head(posted) = <<k, s>> /\ Posted(1, k, s)
    BY <1>5, PostedTail, Zenon DEF RunPosted
  <2>2. CASE k = "add"
    <3>1. s \notin dead
      BY <2>1, <2>2, Zenon DEF PostedInv
    <3>2. timers' = timers \cup {s} /\ UNCHANGED <<batchVars, canceling, dead>>
      BY <1>5, <2>1, <2>2 DEF RunPosted, AddTimerInLoop, Insert
    <3> QED
      BY <3>1, <3>2, Zenon
  <2>3. CASE k = "cancel"
    <3>1. timers' = timers \ {s} /\ dead' = dead \cup {s} /\ UNCHANGED batchVars /\ ~calling
      BY <1>5, <2>1, <2>3 DEF RunPosted, CancelInLoop
    <3> QED
      BY <3>1, Zenon
  <2> QED
    BY <2>2, <2>3, Zenon
<1>6. CASE TimerfdReadCb
  BY <1>6, Zenon DEF TimerfdReadCb
<1>7. CASE RunExpired \/ CallbackReturn \/ Tick
  BY <1>7, Zenon DEF RunExpired, CallbackReturn, Tick
<1>8. CASE Reset
  BY <1>8, Zenon DEF Reset
<1>9. CASE UNCHANGED vars
  BY <1>9, Zenon DEF vars
<1> QED
  BY <1>1, <1>2, <1>3, <1>4, <1>5, <1>6, <1>7, <1>8, <1>9, Zenon DEF Next, Loop

LEMMA ArmedType ==
  ASSUME TypeOK, NEW l \in [Timers -> Nat], NEW s \in Timers, AddTimerInLoop(s, l)
  PROVE  fd' \in Nat \cup {Off} /\ timers' = timers \cup {s}
  BY DEF TypeOK, AddTimerInLoop, Insert, ResetTimerfd

(* Reset arms the fd for a time that no timer of the queue expires before.  *)
LEMMA ArmedAtReset ==
  ASSUME NEW S \in SUBSET Timers, NEW l \in [Timers -> Nat], ResetToEarliest(S, l)
  PROVE  /\ fd' \in Nat
         /\ \A s \in S : fd' \in 0..(IF l[s] = 0 THEN 1 ELSE l[s])
<1>1. PICK e \in S : (\A u \in S : l[e] <= l[u]) /\ ResetTimerfd(l[e])
  BY Zenon DEF ResetToEarliest
<1>2. fd' = (IF l[e] = 0 THEN 1 ELSE l[e]) /\ l[e] \in Nat
  BY <1>1, Zenon DEF ResetTimerfd
<1>3. ASSUME NEW s \in S PROVE l[s] \in Nat /\ l[e] <= l[s]
  BY <1>1, Zenon
<1> QED
  BY <1>2, <1>3

LEMMA OrdersType ==
  ASSUME NEW S, NEW q \in Orders(S)
  PROVE  q \in Seq(S)
<1>1. PICK n \in 0..Cardinality(S) : q \in [1..n -> S]
  BY Zenon DEF Orders
<1>2. n \in Nat
  OBVIOUS
<1> QED
  BY <1>1, <1>2

LEMMA TypeNext ==
  ASSUME TypeOK, PostedInv, BatchInv, [Next]_vars
  PROVE  TypeOK'
<1> USE TimerAssumption DEF clientVars, batchVars
<1>1. ASSUME NEW s \in Timers, NEW d \in 0..MaxDelay, AddTimer(s, d) PROVE TypeOK'
  <2>1. posted' \in Seq({"add", "cancel"} \X Timers)
    BY <1>1, PostedAppend, Zenon DEF AddTimer
  <2>2. left' \in [Timers -> Nat]
    BY <1>1 DEF AddTimer, TypeOK
  <2> QED
    BY <1>1, <2>1, <2>2, Zenon DEF AddTimer, TypeOK
<1>2. ASSUME NEW s \in Timers, NEW d \in 0..MaxDelay, AddTimerFromLoop(s, d) PROVE TypeOK'
  <2>1. left' \in [Timers -> Nat] /\ AddTimerInLoop(s, left')
    BY <1>2 DEF AddTimerFromLoop, TypeOK
  <2>2. fd' \in Nat \cup {Off} /\ timers' = timers \cup {s}
    BY <2>1, ArmedType, Zenon
  <2>3. s \notin expired
    BY <1>2, Zenon DEF AddTimerFromLoop, TypeOK
  <2>4. timers' \subseteq created' /\ expired' \subseteq created' /\ expired' \cap timers' = {}
    BY <1>2, <2>2, <2>3, Zenon DEF AddTimerFromLoop, TypeOK
  <2> QED
    BY <1>2, <2>1, <2>2, <2>4, Zenon DEF AddTimerFromLoop, TypeOK
<1>3. ASSUME NEW s \in Timers, AddTimerReturn(s) PROVE TypeOK'
  BY <1>3, Zenon DEF AddTimerReturn, TypeOK
<1>4. ASSUME NEW s \in Timers, Cancel(s) PROVE TypeOK'
  <2>1. posted' \in Seq({"add", "cancel"} \X Timers)
    BY <1>4, PostedAppend, Zenon DEF Cancel
  <2> QED
    BY <1>4, <2>1, Zenon DEF Cancel, TypeOK
<1>5. ASSUME NEW s \in Timers, CancelFromLoop(s) PROVE TypeOK'
  <2>1. /\ timers' \subseteq timers /\ canceling' \subseteq Timers
        /\ asked' = asked \cup {s} /\ s \in created /\ dead' \subseteq dead \cup {s}
    BY <1>5, Zenon DEF CancelFromLoop, CancelInLoop, TypeOK
  <2> QED
    BY <1>5, <2>1, Zenon DEF CancelFromLoop, TypeOK
<1>6. CASE RunPosted
  <2>1. posted' \in Seq({"add", "cancel"} \X Timers)
    BY <1>6, PostedTail, Zenon DEF RunPosted
  <2>2. PICK k \in {"add", "cancel"}, s \in Timers : Head(posted) = <<k, s>> /\ Posted(1, k, s)
    BY <1>6, PostedTail, Zenon DEF RunPosted
  <2>3. expired = {}
    BY <1>6, Zenon DEF RunPosted, BatchInv
  <2>4. CASE k = "add"
    <3>1. AddTimerInLoop(s, left) /\ UNCHANGED <<canceling, dead>>
      BY <1>6, <2>2, <2>4 DEF RunPosted
    <3>2. fd' \in Nat \cup {Off} /\ timers' = timers \cup {s}
      BY <3>1, ArmedType, Zenon DEF TypeOK
    <3>3. s \in created
      BY <2>2, <2>4, Zenon DEF PostedInv
    <3> QED
      BY <1>6, <2>1, <2>3, <3>1, <3>2, <3>3, Zenon DEF RunPosted, TypeOK
  <2>5. CASE k = "cancel"
    <3>1. timers' = timers \ {s} /\ canceling' \subseteq Timers /\ dead' = dead \cup {s}
          /\ UNCHANGED fd
      BY <1>6, <2>2, <2>5 DEF RunPosted, CancelInLoop, TypeOK
    <3>2. s \in asked
      BY <2>2, <2>5, Zenon DEF PostedInv
    <3> QED
      BY <1>6, <2>1, <3>1, <3>2, Zenon DEF RunPosted, TypeOK
  <2> QED
    BY <2>4, <2>5, Zenon
<1>7. CASE TimerfdReadCb
  <2>1. expired' \subseteq timers /\ timers' = timers \ expired'
    BY <1>7, Zenon DEF TimerfdReadCb
  <2>3. rest' \in Seq(expired')
    BY <1>7, OrdersType, Zenon DEF TimerfdReadCb
  <2>4. elapsed' \in 0..Interval /\ fd' \in Nat \cup {Off}
    BY <1>7 DEF TimerfdReadCb
  <2> QED
    BY <1>7, <2>1, <2>3, <2>4, Zenon DEF TimerfdReadCb, TypeOK
<1>8. CASE RunExpired
  <2>1. rest' \in Seq(expired) /\ Head(rest) \in expired
    BY <1>8 DEF RunExpired, TypeOK
  <2>2. running' \in Timers \cup {None}
    BY <1>8, <2>1, Zenon DEF RunExpired, TypeOK
  <2> QED
    BY <1>8, <2>1, <2>2, Zenon DEF RunExpired, TypeOK
<1>9. CASE CallbackReturn
  BY <1>9, Zenon DEF CallbackReturn, TypeOK
<1>10. CASE Reset
  <2> DEFINE again == (expired \cap Repeating) \ canceling
  <2>1. left' \in [Timers -> Nat]
    BY <1>10 DEF Reset, TypeOK
  <2>2. timers' = timers \cup again /\ timers' \subseteq created
    BY <1>10, Zenon DEF Reset, TypeOK
  <2>3. UNCHANGED fd \/ ResetToEarliest(timers', left')
    BY <1>10, Zenon DEF Reset
  <2>5. timers' \subseteq Timers
    BY <2>2, Zenon DEF TypeOK
  <2>6. fd' \in Nat \cup {Off}
    BY <2>1, <2>3, <2>5, ArmedAtReset, Zenon DEF TypeOK
  <2>4. rest' \in Seq(expired') /\ elapsed' \in 0..Interval
    BY <1>10 DEF Reset
  <2> QED
    BY <1>10, <2>1, <2>2, <2>4, <2>6, Zenon DEF Reset, TypeOK
<1>11. CASE Tick
  <2>1. left' \in [Timers -> Nat] /\ fd' \in Nat \cup {Off} /\ elapsed' \in 0..Interval
    BY <1>11 DEF Tick, TypeOK, Off
  <2> QED
    BY <1>11, <2>1, Zenon DEF Tick, TypeOK
<1>12. CASE UNCHANGED vars
  BY <1>12, Zenon DEF vars, TypeOK
<1> QED
  BY <1>1, <1>2, <1>3, <1>4, <1>5, <1>6, <1>7, <1>8, <1>9, <1>10, <1>11, <1>12, Zenon DEF Next, Loop

LEMMA QuietInvariant == Spec => []QuietInv
<1>1. QuietInv /\ [Next]_vars => QuietInv'
  BY PostedNext, BatchNext, TypeNext, Zenon DEF QuietInv
<1> QED
  BY QuietInit, <1>1, PTL DEF Spec

(* The timer queue keeps its types, and a timer is never both in timers_    *)
(* and in the batch TimerfdReadCb calls, which Insert asserts.              *)
THEOREM TypeCorrect == Spec => []TypeOK
  BY QuietInvariant, PTL DEF QuietInv

(***************************************************************************)
(* A timer that was cancelled.                                             *)
(***************************************************************************)
LEMMA QuietStep ==
  ASSUME QuietInv, [Next]_vars
  PROVE  running' \notin {running, None} => running' \notin dead
<1> USE DEF clientVars, batchVars
<1> SUFFICES ASSUME running' \notin {running, None} PROVE running' \notin dead
  BY Zenon
<1>1. CASE RunExpired
  <2>1. running' = Head(rest) /\ Head(rest) \notin canceling /\ rest # <<>>
    BY <1>1, Zenon DEF RunExpired
  <2>2. Head(rest) \in expired
    BY <2>1 DEF QuietInv, TypeOK
  <2> QED
    BY <2>1, <2>2, Zenon DEF QuietInv, BatchInv
<1>2. CASE ~RunExpired
  <2>1. \/ \E s \in Timers, d \in 0..MaxDelay : AddTimer(s, d) \/ AddTimerFromLoop(s, d)
        \/ \E s \in Timers : AddTimerReturn(s) \/ Cancel(s) \/ CancelFromLoop(s)
        \/ RunPosted \/ TimerfdReadCb \/ CallbackReturn \/ Reset \/ Tick \/ UNCHANGED vars
    BY <1>2, Zenon DEF Next, Loop
  <2>2. running' \in {running, None}
    BY <2>1, Zenon DEF AddTimer, AddTimerFromLoop, AddTimerReturn, Cancel, CancelFromLoop,
         RunPosted, TimerfdReadCb, CallbackReturn, Reset, Tick, vars
  <2> QED
    BY <2>2, Zenon
<1> QED
  BY <1>1, <1>2, Zenon

(* A timer whose cancel was run after its insertion is not called again     *)
(* (CancelInLoop, TimerfdReadCb, Reset), neither later in the batch being   *)
(* called nor by a restart, whatever timers run and in whatever order the   *)
(* functors were posted.                                                    *)
THEOREM CancelledIsQuiet == Spec => CancelledStaysQuiet
<1>1. QuietInv /\ [Next]_vars => [running' \notin {running, None} => running' \notin dead]_vars
  BY QuietStep, Zenon
<1> QED
  BY <1>1, QuietInvariant, PTL DEF Spec, CancelledStaysQuiet

(***************************************************************************)
(* The timerfd.                                                            *)
(***************************************************************************)
(* An fd armed for the queue is armed for it with one more timer.           *)
LEMMA ArmedAtInsert ==
  ASSUME NEW s \in Timers, NEW l \in [Timers -> Nat], timers \subseteq Timers,
         \A u \in timers : fd \in 0..(IF l[u] = 0 THEN 1 ELSE l[u]),
         AddTimerInLoop(s, l)
  PROVE  \A u \in timers' : fd' \in 0..(IF l[u] = 0 THEN 1 ELSE l[u])
<1>1. timers' = timers \cup {s} /\ l[s] \in Nat /\ \A u \in timers : l[u] \in Nat
  BY Zenon DEF AddTimerInLoop, Insert
<1>2. CASE ResetTimerfd(l[s]) /\ \A u \in timers : l[s] < l[u] \/ l[s] = 0
  <2>1. fd' = IF l[s] = 0 THEN 1 ELSE l[s]
    BY <1>2, Zenon DEF ResetTimerfd
  <2> QED
    BY <1>1, <1>2, <2>1
<1>3. CASE UNCHANGED fd /\ \E u \in timers : l[s] >= l[u]
  BY <1>1, <1>3
<1> QED
  BY <1>2, <1>3, Zenon DEF AddTimerInLoop, Insert

LEMMA ArmedNext ==
  ASSUME QuietInv, ArmedForEarliest, [Next]_vars
  PROVE  ArmedForEarliest'
<1> USE DEF clientVars, batchVars
<1>0. /\ timers \subseteq created /\ timers \subseteq Timers /\ left \in [Timers -> Nat]
      /\ fd \in Nat \cup {Off}
  BY Zenon DEF QuietInv, TypeOK
<1>1. ASSUME NEW s \in Timers, NEW d \in 0..MaxDelay, AddTimer(s, d) PROVE ArmedForEarliest'
  <2>1. \A u \in timers : left'[u] = left[u]
    BY <1>0, <1>1, Zenon DEF AddTimer
  <2> QED
    BY <1>1, <2>1, Zenon DEF AddTimer, ArmedForEarliest
<1>2. ASSUME NEW s \in Timers, NEW d \in 0..MaxDelay, AddTimerFromLoop(s, d)
      PROVE  ArmedForEarliest'
  <2> SUFFICES ASSUME ~calling'
               PROVE  \A u \in timers' : fd' \in 0..(IF left'[u] = 0 THEN 1 ELSE left'[u])
    BY Zenon DEF ArmedForEarliest
  <2>1. ~calling /\ AddTimerInLoop(s, left')
    BY <1>2, Zenon DEF AddTimerFromLoop
  <2>2. left' \in [Timers -> Nat] /\ \A u \in timers : left'[u] = left[u]
    BY <1>0, <1>2, TimerAssumption DEF AddTimerFromLoop
  <2>3. \A u \in timers : fd \in 0..(IF left'[u] = 0 THEN 1 ELSE left'[u])
    BY <2>1, <2>2, Zenon DEF ArmedForEarliest
  <2> QED
    BY <1>0, <2>1, <2>2, <2>3, ArmedAtInsert, Zenon
<1>3. ASSUME NEW s \in Timers, AddTimerReturn(s) \/ Cancel(s) PROVE ArmedForEarliest'
  BY <1>3, Zenon DEF AddTimerReturn, Cancel, ArmedForEarliest
<1>4. ASSUME NEW s \in Timers, CancelFromLoop(s) PROVE ArmedForEarliest'
  BY <1>4, Zenon DEF CancelFromLoop, CancelInLoop, ArmedForEarliest
<1>5. CASE RunPosted
  <2>1. PICK k \in {"add", "cancel"}, s \in Timers : Head(posted) = <<k, s>>
    BY <1>5, PostedTail, Zenon DEF RunPosted, QuietInv
  <2>2. ~calling /\ UNCHANGED left /\ \A u \in timers : fd \in 0..(IF left[u] = 0 THEN 1 ELSE left[u])
    BY <1>5, Zenon DEF RunPosted, ArmedForEarliest
  <2>3. CASE k = "add"
    <3>1. AddTimerInLoop(s, left)
      BY <1>5, <2>1, <2>3 DEF RunPosted
    <3>2. \A u \in timers' : fd' \in 0..(IF left[u] = 0 THEN 1 ELSE left[u])
      BY <1>0, <2>2, <3>1, ArmedAtInsert, Zenon
    <3> QED
      BY <2>2, <3>2, Zenon DEF ArmedForEarliest
  <2>4. CASE k = "cancel"
    BY <1>5, <2>1, <2>2, <2>4 DEF RunPosted, CancelInLoop, ArmedForEarliest
  <2> QED
    BY <2>3, <2>4, Zenon
<1>6. CASE TimerfdReadCb
  BY <1>6, Zenon DEF TimerfdReadCb, ArmedForEarliest
<1>7. CASE RunExpired \/ CallbackReturn
  BY <1>7, Zenon DEF RunExpired, CallbackReturn, ArmedForEarliest
<1>8. CASE Reset
  <2>1. timers' = {} \/ ResetToEarliest(timers', left')
    BY <1>8, Zenon DEF Reset
  <2>2. timers' \subseteq Timers /\ left' \in [Timers -> Nat]
    BY TypeNext, Zenon DEF QuietInv, TypeOK
  <2> QED
    BY <2>1, <2>2, ArmedAtReset, Zenon DEF ArmedForEarliest
<1>9. CASE Tick
  <2> SUFFICES ASSUME ~calling', NEW u \in timers'
               PROVE  fd' \in 0..(IF left'[u] = 0 THEN 1 ELSE left'[u])
    BY Zenon DEF ArmedForEarliest
  <2>1. u \in timers /\ u \in Timers /\ fd \in 0..(IF left[u] = 0 THEN 1 ELSE left[u])
    BY <1>0, <1>9, Zenon DEF Tick, ArmedForEarliest
  <2>2. /\ left[u] \in Nat /\ left'[u] = IF left[u] = 0 THEN 0 ELSE left[u] - 1
        /\ fd' = IF fd > 0 THEN fd - 1 ELSE fd
    BY <1>0, <1>9, <2>1, Zenon DEF Tick
  <2> QED
    BY <2>1, <2>2
<1>10. CASE UNCHANGED vars
  BY <1>10, Zenon DEF vars, ArmedForEarliest
<1> QED
  BY <1>1, <1>2, <1>3, <1>4, <1>5, <1>6, <1>7, <1>8, <1>9, <1>10, Zenon DEF Next, Loop

(* Whenever no batch is being called, the timerfd goes off no later than    *)
(* the earliest timer of the queue or one unit from now (ResetTimerfd,      *)
(* Insert, Reset), so no sequence of adds, cancels and batches leaves a     *)
(* queued timer without a wakeup: the safety half of TimersKeepTime.        *)
THEOREM ArmedInTime == Spec => []ArmedForEarliest
<1>1. Init => ArmedForEarliest
  BY Zenon DEF Init, ArmedForEarliest
<1>2. QuietInv /\ ArmedForEarliest /\ [Next]_vars => ArmedForEarliest'
  BY ArmedNext, Zenon
<1> QED
  BY <1>1, <1>2, QuietInvariant, PTL DEF Spec
==============================================================================
