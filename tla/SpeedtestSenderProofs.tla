----------------------- MODULE SpeedtestSenderProofs -----------------------
(***************************************************************************)
(* Proofs about the send loop of sender.cc, for every value of the flags  *)
(* and of the model's bounds that SenderAssumption allows: the printed    *)
(* window is never empty in time or in bytes, and the trim loop drops only *)
(* samples that are out of the window.                                     *)
(***************************************************************************)
EXTENDS SpeedtestSender, SequenceTheorems, WellFoundedInduction, TLAPS

(* The history of one connection: its samples are taken at or before now, *)
(* each after at least one write and no later than the current total, and *)
(* strictly increasing in both time and bytes.                             *)
HistoryOrdered(h) ==
    \A i, j \in 1 .. Len(h) : i < j => /\ h[i].t < h[j].t
                                       /\ h[i].bytes < h[j].bytes

(* Every sample of h was taken at or before t, after at least one write, *)
(* and counts at most total bytes.                                         *)
HistoryBounded(h, t, total) ==
    \A i \in 1 .. Len(h) : /\ h[i].t <= t
                           /\ 1 <= h[i].bytes
                           /\ h[i].bytes <= total

(* The inductive invariant.  The byte counter never outgrows one buffer   *)
(* per tick, which with SenderAssumption keeps it below SizeModulus, so   *)
(* the size_t addition at line 59 never wraps.                             *)
SInv ==
    /\ TypeOK
    /\ total_bytes_sent <= now * BufferSize
    /\ HistoryBounded(history, now, total_bytes_sent)
    /\ HistoryOrdered(history)
    /\ ReportWellFormed

-----------------------------------------------------------------------------
(* Where the pop_front loop of lines 66-68 stops on h. *)
Stops(h, t_cutoff, size_cutoff, k) ==
    \/ Len(h) - k <= 2
    \/ ~(h[k + 1].t <= t_cutoff \/ h[k + 1].bytes <= size_cutoff)

(* The first place the loop stops, which Trim cuts the history at. *)
Cut(h, t_cutoff, size_cutoff) ==
    CHOOSE k \in 0 .. Len(h) :
        /\ Stops(h, t_cutoff, size_cutoff, k)
        /\ \A j \in 0 .. k - 1 : ~Stops(h, t_cutoff, size_cutoff, j)

LEMMA TrimIsCut ==
    ASSUME NEW h, NEW tc, NEW sc
    PROVE  Trim(h, tc, sc) = SubSeq(h, Cut(h, tc, sc) + 1, Len(h))
  BY DEF Trim, Cut, Stops

(* The loop stops, at the latest with two samples left, and every sample  *)
(* it popped was older than t_cutoff or at or below size_cutoff.  The     *)
(* least stopping place exists because < is well-founded on Nat.          *)
LEMMA CutBounds ==
    ASSUME NEW h \in Seq(Sample), Len(h) >= 2, NEW tc, NEW sc
    PROVE  LET k == Cut(h, tc, sc)
           IN  /\ k \in 0 .. Len(h) - 2
               /\ \A j \in 0 .. k - 1 : h[j + 1].t <= tc \/ h[j + 1].bytes <= sc
<1> DEFINE T == {k \in 0 .. Len(h) : Stops(h, tc, sc, k)}
           R == OpToRel(<, Nat)
           Least(k) == /\ Stops(h, tc, sc, k)
                       /\ \A j \in 0 .. k - 1 : ~Stops(h, tc, sc, j)
<1>1. Len(h) - 2 \in T
  BY DEF Stops
<1>2. T \subseteq Nat /\ T # {}
  BY <1>1
<1>3. PICK x \in T : \A y \in T : ~(<<y, x>> \in R)
  BY <1>2, WFMin, NatLessThanWellFounded, Zenon
<1>4. Least(x)
  <2>1. ASSUME NEW j \in 0 .. x - 1, Stops(h, tc, sc, j) PROVE FALSE
    <3>1. j \in T /\ <<j, x>> \in R
      <4>1. j \in 0 .. Len(h) /\ j \in Nat /\ x \in Nat /\ j < x
        OBVIOUS
      <4> QED
        BY <2>1, <4>1, Zenon DEF OpToRel
    <3> QED
      BY <1>3, <3>1, Zenon
  <2> QED
    BY <2>1
<1>5. Least(Cut(h, tc, sc)) /\ Cut(h, tc, sc) \in 0 .. Len(h)
  BY <1>4 DEF Cut
<1>6. Cut(h, tc, sc) <= Len(h) - 2
  <2>1. Len(h) - 2 \in 0 .. Cut(h, tc, sc) - 1 => Stops(h, tc, sc, Len(h) - 2)
    BY DEF Stops
  <2> QED
    BY <1>5, <2>1
<1> QED
  BY <1>5, <1>6 DEF Stops

-----------------------------------------------------------------------------
(* SenderAssumption, one constant at a time. *)
LEMMA Consts ==
    /\ BufferSize \in Nat /\ BufferSize >= 1
    /\ WindowSizeBytes \in Nat /\ WindowSize \in Nat /\ OutputFrequency \in Nat
    /\ MaxWriteTime \in Nat /\ MaxTime \in Nat
    /\ SizeModulus \in Nat /\ SizeModulus >= 1
    /\ MaxTime * BufferSize < SizeModulus
<1>1. /\ BufferSize \in Nat \ {0} /\ WindowSizeBytes \in Nat \ {0}
      /\ WindowSize \in Nat \ {0} /\ OutputFrequency \in Nat \ {0}
      /\ MaxWriteTime \in Nat \ {0} /\ MaxTime \in Nat \ {0}
      /\ SizeModulus \in Nat \ {0}
  BY SenderAssumption, Zenon
<1>2. MaxTime * BufferSize < SizeModulus
  BY SenderAssumption, Zenon
<1> QED
  BY <1>1, <1>2

(* A sample later and larger than every one of an ordered history keeps it *)
(* ordered when appended (history.emplace_back, line 61).                  *)
LEMMA AppendOrdered ==
    ASSUME NEW h \in Seq(Sample), NEW e \in Sample, HistoryOrdered(h),
           \A i \in 1 .. Len(h) : h[i].t < e.t /\ h[i].bytes < e.bytes
    PROVE  /\ Append(h, e) \in Seq(Sample)
           /\ Len(Append(h, e)) = Len(h) + 1
           /\ HistoryOrdered(Append(h, e))
<1>1. /\ Append(h, e) \in Seq(Sample)
      /\ Len(Append(h, e)) = Len(h) + 1
      /\ \A i \in 1 .. Len(h) : Append(h, e)[i] = h[i]
      /\ Append(h, e)[Len(h) + 1] = e
  BY AppendProperties
<1> QED
  BY <1>1 DEF HistoryOrdered

(* What the trim leaves of an ordered history of two or more samples: the *)
(* samples after the cut, in order, the first before the last.            *)
LEMMA SuffixOrdered ==
    ASSUME NEW h \in Seq(Sample), HistoryOrdered(h), NEW k \in 0 .. Len(h) - 2
    PROVE  LET tr == SubSeq(h, k + 1, Len(h))
           IN  /\ tr \in Seq(Sample)
               /\ Len(tr) = Len(h) - k
               /\ \A i \in 1 .. Len(tr) : tr[i] = h[k + i]
               /\ HistoryOrdered(tr)
               /\ tr[1].t < tr[Len(tr)].t
               /\ tr[1].bytes < tr[Len(tr)].bytes
<1> DEFINE tr == SubSeq(h, k + 1, Len(h))
<1>1. \A i \in k + 1 .. Len(h) : h[i] \in Sample
  BY LenProperties
<1>2. /\ tr \in Seq(Sample)
      /\ Len(tr) = Len(h) - k
      /\ \A i \in 1 .. Len(h) - k : tr[i] = h[k + i]
  BY <1>1, SubSeqProperties
<1>3. HistoryOrdered(tr)
  BY <1>2 DEF HistoryOrdered
<1>4. /\ 1 \in 1 .. Len(tr) /\ Len(tr) \in 1 .. Len(tr) /\ 1 < Len(tr)
  BY <1>2
<1>5. tr[1].t < tr[Len(tr)].t /\ tr[1].bytes < tr[Len(tr)].bytes
  BY <1>3, <1>4 DEF HistoryOrdered
<1> QED
  BY <1>2, <1>3, <1>5

-----------------------------------------------------------------------------
LEMMA InitSInv == Init => SInv
<1> SUFFICES ASSUME Init PROVE SInv
  OBVIOUS
<1>1. <<>> \in Seq(Sample) /\ Len(<<>>) = 0
  OBVIOUS
<1>2. TypeOK
  <2>1. now \in 0 .. MaxTime /\ total_bytes_sent \in 0 .. SizeModulus - 1
    BY Consts DEF Init
  <2>2. connected \in BOOLEAN
    BY Zenon DEF Init
  <2>5. t_next_output \in Nat /\ t_last_successful_receive \in Nat
    BY DEF Init
  <2>3. history \in Seq(Sample)
    BY <1>1 DEF Init
  <2>4. shown \in {<<>>} \cup (Sample \X Sample)
    BY DEF Init
  <2> QED
    BY <2>1, <2>2, <2>3, <2>4, <2>5 DEF TypeOK
<1>3. total_bytes_sent <= now * BufferSize
  BY Consts DEF Init
<1>4. /\ HistoryBounded(history, now, total_bytes_sent)
      /\ HistoryOrdered(history)
  BY <1>1 DEF Init, HistoryBounded, HistoryOrdered
<1> QED
  BY <1>2, <1>3, <1>4 DEF Init, SInv, ReportWellFormed

LEMMA ConnectStep ==
    ASSUME SInv, Connect PROVE SInv'
<1>1. TypeOK'
  BY Consts DEF SInv, TypeOK, Connect
<1>2. (total_bytes_sent <= now * BufferSize)'
  BY Consts DEF SInv, TypeOK, Connect
<1>3. HistoryBounded(history, now, total_bytes_sent)'
  BY DEF Connect, HistoryBounded
<1>4. HistoryOrdered(history)' /\ ReportWellFormed'
  BY DEF SInv, Connect, HistoryOrdered, ReportWellFormed
<1> QED
  BY <1>1, <1>2, <1>3, <1>4 DEF SInv

LEMMA StallStep ==
    ASSUME SInv, Stall PROVE SInv'
<1>1. TypeOK'
  BY Consts DEF SInv, TypeOK, Stall
<1>2. (total_bytes_sent <= now * BufferSize)'
  <2>0. now \in Nat /\ BufferSize \in Nat /\ total_bytes_sent \in Nat
    BY Consts DEF SInv, TypeOK
  <2>1. now * BufferSize <= (now + 1) * BufferSize
    <3>1. (now + 1) * BufferSize = now * BufferSize + BufferSize
      BY <2>0
    <3> QED
      BY <2>0, <3>1
  <2>2. now' = now + 1 /\ total_bytes_sent' = total_bytes_sent
    BY DEF Stall
  <2>3. total_bytes_sent <= now * BufferSize
    BY DEF SInv
  <2>4. total_bytes_sent <= (now + 1) * BufferSize
    BY <2>0, <2>1, <2>3
  <2> QED
    BY <2>2, <2>4
<1>3. HistoryBounded(history, now, total_bytes_sent)'
  <2>1. \A i \in 1 .. Len(history) : history[i].t \in Nat
    <3>1. history \in Seq(Sample)
      BY DEF SInv, TypeOK
    <3>2. history \in [1 .. Len(history) -> Sample]
      BY <3>1, LenProperties
    <3> QED
      BY <3>2 DEF Sample
  <2>2. now' = now + 1 /\ UNCHANGED <<history, total_bytes_sent>>
    BY DEF Stall
  <2>3. now \in Nat /\ HistoryBounded(history, now, total_bytes_sent)
    BY DEF SInv, TypeOK
  <2> QED
    BY <2>1, <2>2, <2>3 DEF HistoryBounded
<1>4. HistoryOrdered(history)' /\ ReportWellFormed'
  BY DEF SInv, Stall, HistoryOrdered, ReportWellFormed
<1> QED
  BY <1>1, <1>2, <1>3, <1>4 DEF SInv

LEMMA QuietStep ==
    ASSUME SInv, WriteFails \/ ConnectFails PROVE SInv'
  BY DEF SInv, TypeOK, WriteFails, ConnectFails, vars, HistoryBounded,
         HistoryOrdered, ReportWellFormed

(* The sample a write appends is later and larger than every kept one:   *)
(* Now() moved on, and the counter, below now * BufferSize, did not wrap. *)
LEMMA WriteGrows ==
    ASSUME SInv, NEW d \in 1 .. MaxWriteTime, WriteTakes(d)
    PROVE  LET total == (total_bytes_sent + BufferSize) % SizeModulus
               grown == Append(history, [t |-> now + d, bytes |-> total])
           IN  /\ total = total_bytes_sent + BufferSize
               /\ total_bytes_sent + BufferSize <= (now + d) * BufferSize
               /\ grown \in Seq(Sample)
               /\ Len(grown) = Len(history) + 1
               /\ HistoryOrdered(grown)
               /\ HistoryBounded(grown, now + d, total)
<1> DEFINE t_now == now + d
           total == (total_bytes_sent + BufferSize) % SizeModulus
           e == [t |-> t_now, bytes |-> total]
           grown == Append(history, e)
<1>0. /\ now \in 0 .. MaxTime /\ total_bytes_sent \in Nat
      /\ history \in Seq(Sample) /\ t_next_output \in Nat
      /\ total_bytes_sent <= now * BufferSize
      /\ HistoryBounded(history, now, total_bytes_sent)
      /\ HistoryOrdered(history)
      /\ ReportWellFormed
  BY DEF SInv, TypeOK
<1>1. t_now <= MaxTime
  BY DEF WriteTakes
<1>2. total = total_bytes_sent + BufferSize /\ total_bytes_sent + BufferSize <= t_now * BufferSize
  <2>1. t_now * BufferSize = now * BufferSize + d * BufferSize
    BY <1>0, Consts
  <2>2. d * BufferSize >= BufferSize
    BY Consts
  <2>3. t_now * BufferSize <= MaxTime * BufferSize
    BY <1>0, <1>1, Consts
  <2>4. total_bytes_sent + BufferSize < SizeModulus
    BY <1>0, <2>1, <2>2, <2>3, Consts
  <2> QED
    BY <1>0, <2>1, <2>2, <2>4, Consts
<1>10. \A i \in 1 .. Len(history) : history[i].t \in Nat /\ history[i].bytes \in Nat
  <2>1. history \in [1 .. Len(history) -> Sample]
    BY <1>0, LenProperties
  <2> QED
    BY <2>1 DEF Sample
<1>3. /\ e \in Sample
      /\ \A i \in 1 .. Len(history) : history[i].t < e.t /\ history[i].bytes < e.bytes
  <2>1. e \in Sample
    BY <1>0, <1>2, Consts DEF Sample
  <2>2. ASSUME NEW i \in 1 .. Len(history)
        PROVE  history[i].t < e.t /\ history[i].bytes < e.bytes
    <3>1. history[i].t <= now /\ history[i].bytes <= total_bytes_sent
      BY <1>0 DEF HistoryBounded
    <3> QED
      BY <1>0, <1>2, <1>10, <3>1, Consts
  <2> QED
    BY <2>1, <2>2
<1>4. /\ grown \in Seq(Sample)
      /\ Len(grown) = Len(history) + 1
      /\ HistoryOrdered(grown)
      /\ \A i \in 1 .. Len(history) : grown[i] = history[i]
      /\ grown[Len(history) + 1] = e
  BY <1>0, <1>3, AppendOrdered, AppendProperties
<1>5. HistoryBounded(grown, t_now, total)
  <2> SUFFICES ASSUME NEW i \in 1 .. Len(grown)
               PROVE  grown[i].t <= t_now /\ 1 <= grown[i].bytes /\ grown[i].bytes <= total
    BY DEF HistoryBounded
  <2>1. CASE i <= Len(history)
    <3>1. grown[i] = history[i]
      BY <1>4, <2>1
    <3>2. history[i].t <= now /\ 1 <= history[i].bytes /\ history[i].bytes <= total_bytes_sent
      BY <1>0, <1>4, <2>1 DEF HistoryBounded
    <3>3. history[i].t \in Nat /\ history[i].bytes \in Nat
      BY <1>4, <1>10, <2>1
    <3>4. now \in Nat /\ total_bytes_sent \in Nat /\ BufferSize \in Nat /\ d \in Nat
      BY <1>0, Consts
    <3> QED
      BY <1>2, <3>1, <3>2, <3>3, <3>4
  <2>2. CASE i = Len(history) + 1
    <3>1. grown[i] = e
      BY <1>4, <2>2
    <3> QED
      BY <1>0, <1>2, <3>1, Consts
  <2> QED
    BY <1>0, <1>4, <2>1, <2>2
<1> QED
  BY <1>2, <1>4, <1>5

(* One pass of the inner loop.  The new sample is later and larger than   *)
(* every kept one, because Now() moved on and the counter did not wrap;   *)
(* the trim keeps an ordered suffix of two or more samples, whose ends    *)
(* are then printed.                                                       *)
LEMMA WriteStep ==
    ASSUME SInv, NEW d \in 1 .. MaxWriteTime, WriteTakes(d) PROVE SInv'
<1> DEFINE t_now == now + d
           total == (total_bytes_sent + BufferSize) % SizeModulus
           e == [t |-> t_now, bytes |-> total]
           grown == Append(history, e)
           trimmed == Trim(grown, t_now - WindowSize, SizeCutoff(total))
           output == t_now >= t_next_output
           report == output /\ Len(grown) >= 2
<1>0. /\ now \in 0 .. MaxTime /\ total_bytes_sent \in Nat
      /\ history \in Seq(Sample) /\ t_next_output \in Nat
      /\ total_bytes_sent <= now * BufferSize
      /\ HistoryBounded(history, now, total_bytes_sent)
      /\ HistoryOrdered(history)
      /\ ReportWellFormed
  BY DEF SInv, TypeOK
<1>1. /\ t_now <= MaxTime
      /\ now' = t_now
      /\ total_bytes_sent' = total
      /\ t_last_successful_receive' = t_now
      /\ history' = IF report THEN trimmed ELSE grown
      /\ shown' = IF report THEN <<Head(trimmed), trimmed[Len(trimmed)]>> ELSE shown
      /\ t_next_output' = IF output THEN t_now + OutputFrequency ELSE t_next_output
      /\ connected' = connected
  BY DEF WriteTakes
<1>2. /\ total = total_bytes_sent + BufferSize
      /\ total_bytes_sent + BufferSize <= t_now * BufferSize
      /\ grown \in Seq(Sample)
      /\ HistoryOrdered(grown)
      /\ HistoryBounded(grown, t_now, total)
  BY WriteGrows
<1>6. /\ total_bytes_sent' \in 0 .. SizeModulus - 1
      /\ now' \in 0 .. MaxTime
      /\ (total_bytes_sent <= now * BufferSize)'
      /\ t_next_output' \in Nat /\ t_last_successful_receive' \in Nat
  BY <1>0, <1>1, <1>2, Consts
<1>7. connected' \in BOOLEAN
  BY <1>1, Zenon DEF WriteTakes
<1>8. CASE report
  <2>1. Cut(grown, t_now - WindowSize, SizeCutoff(total)) \in 0 .. Len(grown) - 2
    BY <1>2, <1>8, CutBounds
  <2> DEFINE k == Cut(grown, t_now - WindowSize, SizeCutoff(total))
  <2>2. trimmed = SubSeq(grown, k + 1, Len(grown))
    BY TrimIsCut
  <2>3. /\ trimmed \in Seq(Sample)
        /\ Len(trimmed) = Len(grown) - k
        /\ \A i \in 1 .. Len(trimmed) : trimmed[i] = grown[k + i]
        /\ HistoryOrdered(trimmed)
        /\ trimmed[1].t < trimmed[Len(trimmed)].t
        /\ trimmed[1].bytes < trimmed[Len(trimmed)].bytes
    <3>1. /\ grown \in Seq(Sample) /\ HistoryOrdered(grown)
          /\ k \in 0 .. Len(grown) - 2
      BY <1>2, <2>1
    <3> QED
      BY <3>1, <2>2, SuffixOrdered
  <2>4. HistoryBounded(trimmed, t_now, total)
    <3> SUFFICES ASSUME NEW i \in 1 .. Len(trimmed)
                 PROVE  trimmed[i].t <= t_now /\ 1 <= trimmed[i].bytes /\ trimmed[i].bytes <= total
      BY DEF HistoryBounded
    <3>0. Len(grown) \in Nat /\ k \in 0 .. Len(grown) - 2 /\ Len(trimmed) = Len(grown) - k
      BY <1>2, <2>1, <2>3
    <3>1. k + i \in 1 .. Len(grown) /\ trimmed[i] = grown[k + i]
      BY <3>0, <2>3
    <3> QED
      BY <1>2, <3>1 DEF HistoryBounded
  <2>5. history' = trimmed
        /\ shown' = <<trimmed[1], trimmed[Len(trimmed)]>>
    BY <1>1, <1>8, <2>3
  <2>6. trimmed[1] \in Sample /\ trimmed[Len(trimmed)] \in Sample
    BY <2>1, <2>3, LenProperties
  <2>7. TypeOK'
    BY <1>6, <1>7, <2>3, <2>5, <2>6 DEF TypeOK
  <2>8. ReportWellFormed'
    BY <2>3, <2>5 DEF ReportWellFormed
  <2> QED
    BY <1>1, <1>6, <2>3, <2>4, <2>5, <2>7, <2>8 DEF SInv
<1>9. CASE ~report
  <2>1. history' = grown /\ shown' = shown
    BY <1>1, <1>9
  <2>2. TypeOK'
    BY <1>2, <1>6, <1>7, <2>1 DEF SInv, TypeOK
  <2>3. ReportWellFormed'
    BY <1>0, <2>1 DEF ReportWellFormed
  <2> QED
    BY <1>1, <1>2, <1>2, <1>6, <2>1, <2>2, <2>3 DEF SInv
<1> QED
  BY <1>8, <1>9

(* Every step of the sender loop, and a stutter, keeps SInv.              *)
LEMMA NextStep == SInv /\ [Next]_vars => SInv'
<1> SUFFICES ASSUME SInv, [Next]_vars PROVE SInv'
  OBVIOUS
<1>1. CASE Connect
  BY <1>1, ConnectStep
<1>2. CASE Write
  BY <1>2, WriteStep DEF Write
<1>3. CASE Stall
  BY <1>3, StallStep
<1>4. CASE WriteFails \/ ConnectFails
  BY <1>4, QuietStep
<1>5. CASE UNCHANGED vars
  BY <1>5 DEF SInv, TypeOK, vars, HistoryBounded, HistoryOrdered, ReportWellFormed
<1> QED
  BY <1>1, <1>2, <1>3, <1>4, <1>5 DEF Next

(* The sender's state stays within SInv in every run: the byte counter    *)
(* never wraps below MaxTime, and the history is a strictly increasing    *)
(* sequence of samples bounded by the clock and the counter.              *)
THEOREM SenderInvariant == Spec => []SInv
  BY InitSInv, NextStep, PTL DEF Spec

(* Every throughput line sender.cc 68-69 prints divides a positive byte   *)
(* count by a positive time span, for every choice of the constants that  *)
(* SenderAssumption allows.                                               *)
THEOREM ReportWellFormedInvariant == Spec => []ReportWellFormed
<1>1. SInv => ReportWellFormed
  BY DEF SInv
<1> QED
  BY SenderInvariant, <1>1, PTL

(* A write that prints pops from the front of the history only samples    *)
(* the loop condition of sender.cc 65-67 finds out of the window; as the  *)
(* size cutoff is 0 when fewer than window_size_bytes were sent and every *)
(* sample counts at least one buffer, each dropped sample is out of the   *)
(* window by the true-integer measure of TrimKeepsWindow.                 *)
LEMMA WriteDropsOutOfWindow ==
    ASSUME SInv, NEW d \in 1 .. MaxWriteTime, WriteTakes(d)
    PROVE  \A i \in 1 .. Len(Dropped) :
               \/ Dropped[i].t <= now' - WindowSize
               \/ Dropped[i].bytes <= total_bytes_sent' - WindowSizeBytes
<1> DEFINE t_now == now + d
           total == (total_bytes_sent + BufferSize) % SizeModulus
           grown == Append(history, [t |-> t_now, bytes |-> total])
           trimmed == Trim(grown, t_now - WindowSize, SizeCutoff(total))
           report == t_now >= t_next_output /\ Len(grown) >= 2
<1>1. /\ now' = t_now
      /\ total_bytes_sent' = total
      /\ history' = IF report THEN trimmed ELSE grown
  BY DEF WriteTakes
<1>2. /\ total = total_bytes_sent + BufferSize
      /\ total_bytes_sent \in Nat
      /\ grown \in Seq(Sample)
      /\ HistoryBounded(grown, t_now, total)
  <2>1. total_bytes_sent \in Nat
    BY DEF SInv, TypeOK
  <2> QED
    BY <2>1, WriteGrows
<1>3. Dropped = SubSeq(grown, 1, Len(grown) - Len(history'))
  BY <1>1 DEF Dropped
<1>4. \A i \in 1 .. Len(grown) : grown[i] \in Sample
  BY <1>2, LenProperties
<1>5. CASE ~report
  <2>1. Len(grown) - Len(history') = 0
    BY <1>1, <1>5
  <2>2. Len(Dropped) = 0
    BY <1>2, <1>3, <1>4, <2>1, SubSeqProperties
  <2> QED
    BY <2>2
<1>6. CASE report
  <2> DEFINE k == Cut(grown, t_now - WindowSize, SizeCutoff(total))
  <2>1. /\ k \in 0 .. Len(grown) - 2
        /\ \A j \in 0 .. k - 1 :
               \/ grown[j + 1].t <= t_now - WindowSize
               \/ grown[j + 1].bytes <= SizeCutoff(total)
    BY <1>2, <1>6, CutBounds
  <2>2. history' = SubSeq(grown, k + 1, Len(grown))
    BY <1>1, <1>6, TrimIsCut
  <2>3. Len(history') = Len(grown) - k
    BY <1>2, <1>4, <2>1, <2>2, SubSeqProperties
  <2>4. /\ Len(Dropped) = k
        /\ \A i \in 1 .. k : Dropped[i] = grown[i]
    BY <1>2, <1>3, <1>4, <2>1, <2>3, SubSeqProperties
  <2> SUFFICES ASSUME NEW i \in 1 .. k
               PROVE  \/ grown[i].t <= t_now - WindowSize
                      \/ grown[i].bytes <= total - WindowSizeBytes
    BY <1>1, <2>4
  <2>5. \/ grown[i].t <= t_now - WindowSize
        \/ grown[i].bytes <= SizeCutoff(total)
    <3>1. i - 1 \in 0 .. k - 1
      BY <2>1
    <3> QED
      BY <2>1, <3>1
  <2>6. i \in 1 .. Len(grown) /\ 1 <= grown[i].bytes /\ grown[i].bytes \in Nat
    <3>1. i \in 1 .. Len(grown)
      BY <1>2, <2>1
    <3> QED
      BY <1>2, <1>4, <3>1 DEF HistoryBounded, Sample
  <2>7. total \in Nat /\ WindowSizeBytes \in Nat
    BY <1>2, Consts
  <2> QED
    BY <2>5, <2>6, <2>7 DEF SizeCutoff
<1> QED
  BY <1>5, <1>6

(* Only a write moves t_last_successful_receive while connected; Connect  *)
(* moves it too, but starts from a closed connection.                      *)
LEMMA WindowStep ==
    SInv /\ [Next]_vars =>
        [connected /\ t_last_successful_receive' # t_last_successful_receive =>
             \A i \in 1 .. Len(Dropped) :
                 \/ Dropped[i].t <= now' - WindowSize
                 \/ Dropped[i].bytes <= total_bytes_sent' - WindowSizeBytes]_vars
<1> SUFFICES ASSUME SInv, [Next]_vars
             PROVE  [connected /\ t_last_successful_receive' # t_last_successful_receive =>
                         \A i \in 1 .. Len(Dropped) :
                             \/ Dropped[i].t <= now' - WindowSize
                             \/ Dropped[i].bytes <= total_bytes_sent' - WindowSizeBytes]_vars
  OBVIOUS
<1>1. CASE Write
  BY <1>1, WriteDropsOutOfWindow DEF Write
<1>2. CASE Connect \/ ConnectFails
  BY <1>2, Zenon DEF Connect, ConnectFails
<1>3. CASE Stall \/ WriteFails \/ UNCHANGED vars
  BY <1>3 DEF Stall, WriteFails, vars
<1> QED
  BY <1>1, <1>2, <1>3 DEF Next

(* The trim of sender.cc 65-67 never pops a sample that is still inside   *)
(* both the time window and the byte window, whatever the constants.      *)
THEOREM TrimKeepsWindowHolds == Spec => TrimKeepsWindow
  BY SenderInvariant, WindowStep, PTL DEF TrimKeepsWindow, Spec

=============================================================================
