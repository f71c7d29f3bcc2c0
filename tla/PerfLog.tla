-------------------------------- MODULE PerfLog --------------------------------
(***************************************************************************)
(* analyze_perf: bytes, average and peak throughput from the rows of a     *)
(* throughput log.  Times are in ms, the duration given to a packet        *)
(* without one; a rate is bytes per ms, RateScale times.                   *)
(***************************************************************************)
EXTENDS Integers, FiniteSets, FiniteSetsExt, SequencesExt

CONSTANTS
  PerfDevices, PacketBytes,
  MaxPerfTime,  \* bound on times
  MaxPackets

VARIABLES
  packets,    \* rows of the log: sequence of [dev, dir, bytes, start, end, ts]
  perf        \* [done |-> FALSE], or what analyze_perf_log returns

perfVars == <<packets, perf>>

RateScale == 6
Directions == {"upload", "download"}

PerfInit == packets = <<>> /\ perf = [done |-> FALSE]

(* A row is stamped after its packet's epoch and appended later, without a  *)
(* lock: the stamps are in no order.  The server's log has sends only, a    *)
(* device's none.                                                           *)
LogPacket ==
  \E d \in PerfDevices, dir \in Directions \cup {"send"}, b \in PacketBytes, ts \in 0..MaxPerfTime :
    \E e \in 0..ts : \E s \in 0..e :
      /\ ~perf.done /\ Len(packets) < MaxPackets
      /\ \A i \in 1..Len(packets) : (packets[i].dir = "send") <=> (dir = "send")
      /\ packets' = Append(packets, [dev |-> d, dir |-> dir, bytes |-> b, start |-> s, end |-> e, ts |-> ts])
      /\ UNCHANGED perf

(***************************************************************************)
(* analyze_perf_log: the lists of a device.  rows stands for timestamps    *)
(* and epochs, which every row extends; the others have the bytes of one   *)
(* direction.                                                              *)
(***************************************************************************)
InDirection(rows, dir) == SelectSeq(rows, LAMBDA r : r.dir = dir)

Stats(rows) ==
  [d \in PerfDevices |->
     LET mine == SelectSeq(rows, LAMBDA r : r.dev = d)
     IN [rows |-> mine, upload |-> InDirection(mine, "upload"), download |-> InDirection(mine, "download")]]

(* The warm-up filter takes element i of a direction's list for row i:      *)
(* there may be no such element.                                            *)
WarmupFails(st, from) ==
  \E i \in 1..Len(st.rows), dir \in Directions :
    st.rows[i].ts >= from /\ st[dir] # <<>> /\ i > Len(st[dir])

Elements(st, is) ==
  [list \in DOMAIN st |-> IF st[list] = <<>> THEN <<>> ELSE [k \in 1..Len(is) |-> st[list][is[k]]]]

(* Mutant: a row at the end of the warm-up is dropped.                      *)
KeptAfter(st, from) == Elements(st, SelectSeq([i \in 1..Len(st.rows) |-> i], LAMBDA i : st.rows[i].ts > from))

Kept(st, from) == Elements(st, SelectSeq([i \in 1..Len(st.rows) |-> i], LAMBDA i : st.rows[i].ts >= from))

(***************************************************************************)
(* calculate_peak_throughput                                               *)
(***************************************************************************)
PacketRate(bytes, row) == (bytes * RateScale) \div Max({1, row.end - row.start})

(* Packet i of a direction takes its epoch from row i of the device.        *)
SweepEvents(stats, dir) ==
  UNION {LET row == stats[d].rows[i]
             event == [at |-> row.start, opens |-> 1, dev |-> d, i |-> i, rate |-> PacketRate(stats[d][dir][i].bytes, row)]
         IN {event, [event EXCEPT !.at = row.end, !.opens = 0]}
         : <<d, i>> \in {p \in PerfDevices \X (1..MaxPackets) : p[2] <= Len(stats[p[1]][dir])}}

(* Mutant: starts before ends at the same time.                             *)
StartsFirst(a, b) ==
  \/ a.at < b.at
  \/ a.at = b.at /\ (a.opens > b.opens \/ (a.opens = b.opens /\ (a.dev < b.dev \/ (a.dev = b.dev /\ a.i < b.i))))

Before(a, b) ==
  \/ a.at < b.at
  \/ a.at = b.at /\ (a.opens < b.opens \/ (a.opens = b.opens /\ (a.dev < b.dev \/ (a.dev = b.dev /\ a.i < b.i))))

(* One packet per device is active: a start replaces the device's packet    *)
(* and an end removes it, whichever it is.                                  *)
Sweep(s, e) ==
  LET active == [s.active EXCEPT ![e.dev] = IF e.opens = 1 THEN e.rate ELSE 0]
  IN [active |-> active, peak |-> Max({s.peak, MapThenSumSet(LAMBDA d : active[d], PerfDevices)})]

PeakThroughput(stats, dir) ==
  FoldLeft(Sweep, [active |-> [d \in PerfDevices |-> 0], peak |-> 0],
           SetToSortSeq(SweepEvents(stats, dir), Before)).peak

Bytes(rows) == MapThenSumSet(LAMBDA i : rows[i].bytes, 1..Len(rows))

(* An exception on the way ends the analysis without a result, as does a    *)
(* measurement window of no length.                                         *)
AnalyzePerf ==
  /\ packets # <<>> /\ ~perf.done
  /\ \E devs \in SUBSET PerfDevices \ {{}}, dirs \in {{"upload"}, {"download"}, Directions \cup {"send"}}, warmup \in 0..1 :
       LET rows == SelectSeq(packets, LAMBDA r : r.dev \in devs /\ r.dir \in dirs)
           stamps == {rows[i].ts : i \in 1..Len(rows)}
           from == Min(stamps) + warmup
           all == Stats(rows)
           used == IF warmup > 0 THEN [d \in PerfDevices |-> Kept(all[d], from)] ELSE all
           total == [dir \in Directions |-> MapThenSumSet(LAMBDA d : Bytes(used[d][dir]), PerfDevices)]
           fails == \/ rows = <<>>
                    \/ warmup > 0 /\ \E d \in PerfDevices : WarmupFails(all[d], from)
                    \/ total["upload"] + total["download"] > 0 /\ Max(stamps) = from
       IN perf' = IF fails THEN [done |-> TRUE, ok |-> FALSE]
                  ELSE [done |-> TRUE, ok |-> TRUE, devs |-> devs, dirs |-> dirs, warmup |-> warmup,
                        bytes |-> total, peak |-> [dir \in Directions |-> PeakThroughput(used, dir)]]
  /\ UNCHANGED packets

PerfNext == LogPacket \/ AnalyzePerf

-------------------------------------------------------------------------------
Selected == SelectSeq(packets, LAMBDA r : r.dev \in perf.devs /\ r.dir \in perf.dirs)
Counted == SelectSeq(Selected, LAMBDA r : r.ts >= perf.warmup + Min({Selected[i].ts : i \in 1..Len(Selected)}))

(* The selected rows of every device are of one direction.                  *)
OneWay == \A i, j \in 1..Len(Selected) : Selected[i].dev = Selected[j].dev => Selected[i].dir = Selected[j].dir

(* The selected rows of every device have their stamps in order.            *)
StampsInOrder ==
  \A i, j \in 1..Len(Selected) : i < j /\ Selected[i].dev = Selected[j].dev => Selected[i].ts <= Selected[j].ts

(* The totals are the bytes of the rows the filters select: none is lost at *)
(* the edge of the warm-up and none counted for another direction, though   *)
(* the lists of a device are filtered by row number.  The exception is a    *)
(* warm-up, on rows out of order, of a device with both directions: a       *)
(* packet of the wrong row may be counted.                                  *)
TotalsAreExact ==
  perf.done /\ perf.ok /\ (perf.warmup = 0 \/ OneWay \/ StampsInOrder) =>
    \A dir \in Directions : perf.bytes[dir] = Bytes(InDirection(Counted, dir))

(* For devices that log in one direction, the peak of a direction is at     *)
(* least the rate of each of its packets.  When every packet takes time it  *)
(* is at most the greatest sum of the rates of packets under way at one     *)
(* time, and is that sum when the packets of a device do not overlap.  The  *)
(* docstring's sum is not what the code computes in the other cases: of     *)
(* overlapping packets of a device one counts, a packet without duration    *)
(* counts until its device's next event, and the packets of a device with   *)
(* both directions take each other's epochs.                                *)
PeakIsConcurrent ==
  perf.done /\ perf.ok /\ OneWay =>
    \A dir \in Directions :
      LET sent == InDirection(Counted, dir)
          rate(i) == PacketRate(sent[i].bytes, sent[i])
          at(t) == {i \in 1..Len(sent) : sent[i].start <= t /\ t < sent[i].end}
          most == Max({0} \cup {MapThenSumSet(rate, at(t)) : t \in 0..MaxPerfTime})
          apart == \A i, j \in 1..Len(sent) :
                     i # j /\ sent[i].dev = sent[j].dev
                       => sent[i].end <= sent[j].start \/ sent[j].end <= sent[i].start
      IN /\ \A i \in 1..Len(sent) : perf.peak[dir] >= rate(i)
         /\ (\A i \in 1..Len(sent) : sent[i].start < sent[i].end) =>
              perf.peak[dir] <= most /\ (apart => perf.peak[dir] = most)

(* The performance log's totals are the selected bytes and its peak is bounded *)
(* by the concurrent rates, exactly where devices send one packet at a time    *)
(* (analyze_perf).                                                             *)
PerfIsExact ==
  TotalsAreExact /\ PeakIsConcurrent
===============================================================================
