--------------------------- MODULE MetricsCollector ---------------------------
(***************************************************************************)
(* CoordinatorMetricsCollector: the training process samples its metrics   *)
(* on a daemon thread, and once more itself in start() and in stop().      *)
(*                                                                         *)
(* A sample is abstracted to the phase counts it publishes.  Reading the   *)
(* counters and flushing the file may raise.  The output is a buffered     *)
(* text file: what a failed flush has not written stays in the buffer and  *)
(* goes out with a later flush, or is lost when the file is closed.        *)
(***************************************************************************)
EXTENDS Naturals, Sequences

CONSTANTS
  Phases,      \* names given to track_phase
  MaxRecords   \* bound on how often the thread samples

ASSUME RecordsAssumption == MaxRecords \in Nat

VARIABLES
  counts,      \* PhaseRecorder._counts
  output,      \* _output: "none" or "open"
  buf,         \* records written to the file object and not flushed
  file,        \* records in the file
  stop_event,  \* _stop_event
  failure,     \* _failure is set
  at,          \* where the process ("main") and the thread are in a sample
  snap         \* the snapshot each has built its sample from

Samplers == {"main", "thread"}
collector == <<output, buf, file, stop_event, failure, at, snap>>
metrics == <<counts, collector>>

NoCounts == [p \in Phases |-> 0]
Sample(c) == [record_type |-> "sample", counts |-> c]
Terminal == [record_type |-> "terminal_error", counts |-> NoCounts]

(* A fresh PhaseRecorder and collector; the file is left as it was.         *)
InitMetrics ==
  /\ counts = NoCounts
  /\ output = "none" /\ buf = <<>> /\ stop_event = FALSE /\ failure = FALSE
  /\ at = [w \in Samplers |-> "idle"]
  /\ snap = [w \in Samplers |-> NoCounts]

ResetMetrics ==
  /\ counts' = NoCounts
  /\ output' = "none" /\ buf' = <<>> /\ stop_event' = FALSE /\ failure' = FALSE
  /\ at' = [w \in Samplers |-> "idle"]
  /\ snap' = [w \in Samplers |-> NoCounts]

Goes(w, l) == at' = [at EXCEPT ![w] = l]

(* PhaseRecorder.record, under its lock.                                    *)
Record(p) == counts' = [counts EXCEPT ![p] = @ + 1]

(***************************************************************************)
(* write() and flush(): everything reaches the file, or flush raises after *)
(* some of the buffered records did.                                       *)
(***************************************************************************)
Flushed(b) == file' = file \o b /\ buf' = <<>>
FlushRaises(b) ==
  \E k \in 0..Len(b) : file' = file \o SubSeq(b, 1, k) /\ buf' = SubSeq(b, k + 1, Len(b))

Open ==
  /\ output = "none" /\ at["main"] = "idle"
  /\ output' = "open" /\ file' = <<>> /\ buf' = <<>>
  /\ Goes("main", "read")
  /\ UNCHANGED <<counts, stop_event, failure, snap>>

(***************************************************************************)
(* _sample_once, for the process and for the thread.                       *)
(***************************************************************************)
Read(w) ==
  /\ at[w] = "read"
  /\ Goes(w, "snapshot") \/ Goes(w, "raised")
  /\ UNCHANGED <<counts, output, buf, file, stop_event, failure, snap>>

Snapshot(w) ==
  /\ at[w] = "snapshot"
  /\ snap' = [snap EXCEPT ![w] = counts]
  /\ Goes(w, "write")
  /\ UNCHANGED <<counts, output, buf, file, stop_event, failure>>

Sampled(w) == IF w = "thread" THEN "wait" ELSE "sampled"

Write(w) ==
  /\ at[w] = "write"
  /\ \/ output = "none" /\ Goes(w, Sampled(w)) /\ UNCHANGED <<file, buf>>
     \/ output = "open" /\ Flushed(Append(buf, Sample(snap[w]))) /\ Goes(w, Sampled(w))
     \/ output = "open" /\ FlushRaises(Append(buf, Sample(snap[w]))) /\ Goes(w, "raised")
  /\ UNCHANGED <<counts, output, stop_event, failure, snap>>

(* _record_failure: only the first one leaves a record.                     *)
RecordFailure(w) ==
  /\ at[w] = "raised"
  /\ \/ failure /\ UNCHANGED <<failure, file, buf>>
     \/ /\ ~failure /\ failure' = TRUE
        /\ \/ output = "none" /\ UNCHANGED <<file, buf>>
           \/ output = "open" /\ Flushed(Append(buf, Terminal))
           \/ output = "open" /\ FlushRaises(Append(buf, Terminal))
  /\ Goes(w, "failed")
  /\ UNCHANGED <<counts, output, stop_event, snap>>

(***************************************************************************)
(* The thread: _run.                                                       *)
(***************************************************************************)
(* The interval has passed; bounded for model checking.                     *)
Due == Len(file) + Len(buf) < MaxRecords

(* Mutant: the daemon records the failure and goes on sampling.             *)
RunAfterFailure ==
  /\ \/ at["thread"] = "wait" /\ ~stop_event /\ Due /\ Goes("thread", "read")
     \/ at["thread"] = "wait" /\ stop_event /\ Goes("thread", "exited")
     \/ at["thread"] = "failed" /\ Goes("thread", "wait")
  /\ UNCHANGED <<counts, output, buf, file, stop_event, failure, snap>>

Run ==
  /\ \/ /\ at["thread"] = "wait" /\ ~stop_event /\ Due
        /\ Goes("thread", "read") /\ UNCHANGED stop_event
     \/ /\ at["thread"] = "wait" /\ stop_event
        /\ Goes("thread", "exited") /\ UNCHANGED stop_event
     \/ /\ at["thread"] = "failed"
        /\ stop_event' = TRUE /\ Goes("thread", "exited")
  /\ UNCHANGED <<counts, output, buf, file, failure, snap>>

(***************************************************************************)
(* The process: the rest of start() and stop().                            *)
(***************************************************************************)
StartThread ==
  /\ at["main"] = "sampled" /\ at["thread"] = "idle"
  /\ at' = [at EXCEPT !["main"] = "idle", !["thread"] = "wait"]
  /\ UNCHANGED <<counts, output, buf, file, stop_event, failure, snap>>

SetStopEvent ==
  /\ output = "open" /\ at["main"] = "idle"
  /\ stop_event' = TRUE /\ Goes("main", "join")
  /\ UNCHANGED <<counts, output, buf, file, failure, snap>>

(* Mutant: stop() goes on without waiting for the thread.                   *)
JoinSkipped ==
  /\ at["main"] = "join"
  /\ Goes("main", IF failure THEN "failed" ELSE "read")
  /\ UNCHANGED <<counts, output, buf, file, stop_event, failure, snap>>

Join ==
  /\ at["main"] = "join"
  /\ at["thread"] \in {"idle", "exited"}
  /\ Goes("main", IF failure THEN "failed" ELSE "read")
  /\ UNCHANGED <<counts, output, buf, file, stop_event, failure, snap>>

(* _close_output: a flush and a close, neither of which raises to the       *)
(* caller; what they do not write is gone.                                  *)
CloseOutput ==
  /\ output' = "none" /\ buf' = <<>>
  /\ \E k \in 0..Len(buf) : file' = file \o SubSeq(buf, 1, k)
  /\ Goes("main", "idle")
  /\ UNCHANGED <<counts, stop_event, failure, snap>>

Sampling == \E w \in Samplers : Read(w) \/ Snapshot(w) \/ Write(w) \/ RecordFailure(w)
===============================================================================
