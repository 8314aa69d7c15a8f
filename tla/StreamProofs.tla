---------------------------- MODULE StreamProofs ----------------------------
(***************************************************************************)
(* Theorems about MeasuredStream, for every number of frames, sampling,    *)
(* number of timestamp registers and of duplicates, and set of faults that *)
(* StreamAssumption allows.                                                *)
(***************************************************************************)
EXTENDS MeasuredStream, FiniteSetTheorems, TLAPS

-----------------------------------------------------------------------------
(* Sequences and small sets.                                               *)

Reports == [seq : Seqs, hw : BOOLEAN]

\* The elements of a longer sequence.
LEMMA ElementsAppend ==
  ASSUME NEW S, NEW s \in Seq(S), NEW e \in S
  PROVE  Elements(Append(s, e)) = Elements(s) \cup {e}
<1>1. /\ Len(Append(s, e)) = Len(s) + 1 /\ DOMAIN Append(s, e) = 1 .. Len(s) + 1
      /\ \A i \in 1 .. Len(s) : Append(s, e)[i] = s[i]
      /\ Append(s, e)[Len(s) + 1] = e
  OBVIOUS
<1>2. DOMAIN s = 1 .. Len(s) /\ Len(s) \in Nat
  OBVIOUS
<1> QED
  BY <1>1, <1>2 DEF Elements

LEMMA ElementsEmpty == Elements(<<>>) = {}
BY DEF Elements

LEMMA ElementsIn ==
  ASSUME NEW S, NEW s \in Seq(S)
  PROVE  Elements(s) \subseteq S /\ (Elements(s) = {} => s = <<>>)
<1>1. DOMAIN s = 1 .. Len(s) /\ Len(s) \in Nat /\ \A i \in DOMAIN s : s[i] \in S
  OBVIOUS
<1>2. ASSUME Elements(s) = {} PROVE s = <<>>
  <2>1. 1 \notin DOMAIN s
    BY <1>2 DEF Elements
  <2>2. Len(s) = 0
    BY <1>1, <2>1
  <2> QED  BY <2>2
<1> QED
  BY <1>1, <1>2 DEF Elements

\* Frames are finitely many.
LEMMA FramesFinite ==
  ASSUME NEW S, S \subseteq Seqs
  PROVE  IsFiniteSet(S) /\ Cardinality(S) \in Nat
<1>1. IsFiniteSet(Seqs)
  BY FS_Interval, StreamAssumption DEF Seqs
<1> QED
  BY <1>1, FS_Subset, FS_CardinalityType

LEMMA FramesOrdered ==
  ASSUME NEW S, NEW T, S \subseteq T, T \subseteq Seqs
  PROVE  Cardinality(S) <= Cardinality(T)
BY FramesFinite, FS_Subset

LEMMA FramesAdd ==
  ASSUME NEW S, S \subseteq Seqs, NEW s
  PROVE  Cardinality(S \cup {s}) = IF s \in S THEN Cardinality(S) ELSE Cardinality(S) + 1
BY FramesFinite, FS_AddElement

LEMMA FramesRemove ==
  ASSUME NEW S, S \subseteq Seqs, NEW s
  PROVE  Cardinality(S \ {s}) = IF s \in S THEN Cardinality(S) - 1 ELSE Cardinality(S)
BY FramesFinite, FS_RemoveElement

LEMMA NoFrames == Cardinality({}) = 0
BY FS_EmptySet
-----------------------------------------------------------------------------
(* Types, and what belongs to frames that were tried.                      *)

\* The first frame that was not yet tried.
Untried == IF tx = "drain" THEN seq + 1 ELSE seq

\* Types, without the bounds that need the counting below.
StateType ==
  /\ tx \in {"send", "drain", "collect", "done"} /\ tsEvery \in TsEverys
  /\ seq \in 0 .. Count /\ (tx = "drain" => seq < Count)
  /\ stopFlag \in BOOLEAN
  /\ sent \in 0 .. Untried /\ tsRequested \in 0 .. Untried
  /\ records \subseteq Seqs /\ pending \subseteq Seqs /\ ptpHolds \in BOOLEAN
  /\ errQueue \in Seq(Reports)
  /\ stamped \subseteq Seqs /\ wire \subseteq Seqs
  /\ copies \in 0 .. MaxCopies /\ lost \subseteq Seqs
  /\ rxRunning \in BOOLEAN /\ filter \in {"ptp", "all"}
  /\ rows \in Seq(Seqs) /\ noHw \in Nat
  /\ disturbed \in BOOLEAN

\* Reports of a frame's hardware timestamp tell of a timestamp the NIC took,
\* and it takes them only of frames that were asked for.
StampInv ==
  /\ records \subseteq stamped
  /\ \A r \in Elements(errQueue) : r.hw => r.seq \in stamped
  /\ \A s \in pending \cup stamped : Sampled(s)

\* Frames under way, received at least once, or lost for good.
Gone == wire \cup Elements(rows) \cup lost

\* Frames are counted as they leave; while the listener was not disturbed none
\* of them disappears otherwise than by being lost.
CountInv ==
  /\ \A s \in Gone : s < Untried
  /\ lost \cap (wire \cup Elements(rows)) = {}
  /\ Cardinality(Gone) <= sent
  /\ ~disturbed => Cardinality(Gone) = sent

\* With a sampling of one in N, frames that left and are sampled were counted.
SampleInv ==
  tsEvery # 1 => Cardinality({s \in Gone : Sampled(s)}) <= tsRequested

\* What arrives was sent or copied.
ArrivedInv == Len(rows) + noHw + Cardinality(wire) <= sent + copies

\* Until it was disturbed the listener has its filter, and outlives the stream.
ListenInv ==
  ~disturbed =>
    /\ filter = "all"
    /\ ~rxRunning => tx \in {"collect", "done"} /\ wire = {}

StreamInv == StateType /\ StampInv /\ CountInv /\ SampleInv /\ ArrivedInv /\ ListenInv

LEMMA StreamInit == Init => StreamInv
<1> SUFFICES ASSUME Init PROVE StreamInv
  OBVIOUS
<1>1. Gone = {} /\ Elements(rows) = {} /\ Elements(errQueue) = {}
  BY ElementsEmpty DEF Init, Gone
<1>2. {s \in Gone : Sampled(s)} = {}
  BY <1>1
<1>3. StateType
  <2>1. Untried = 0 /\ 0 \in 0 .. Count /\ 0 \in 0 .. MaxCopies /\ 0 \in 0 .. 0
    BY StreamAssumption DEF Init, Untried
  <2>2. <<>> \in Seq(Reports) /\ <<>> \in Seq(Seqs)
    OBVIOUS
  <2> QED  BY <2>1, <2>2 DEF Init, StateType
<1>4. StampInv
  BY <1>1 DEF Init, StampInv
<1>5. CountInv /\ SampleInv /\ ArrivedInv /\ ListenInv
  BY <1>1, <1>2, NoFrames DEF Init, CountInv, SampleInv, ArrivedInv, ListenInv
<1> QED
  BY <1>3, <1>4, <1>5 DEF StreamInv

\* A frame that has not been tried yet is nowhere.
LEMMA GoneType ==
  ASSUME StateType
  PROVE  Gone \subseteq Seqs /\ Elements(rows) \subseteq Seqs
BY ElementsIn DEF StateType, Gone

LEMMA SendStep ==
  ASSUME StreamInv, SendFrame
  PROVE  StreamInv'
<1> USE DEF StreamInv
<1>1. /\ tx = "send" /\ tx' = "drain" /\ seq < Count /\ seq' = seq /\ seq \in Seqs
      /\ Untried = seq /\ Untried' = seq + 1 /\ seq \in Nat
  BY StreamAssumption DEF SendFrame, LoopGoesOn, StateType, Untried, Seqs
<1>2. seq \notin Gone /\ seq \notin wire
  BY <1>1, GoneType DEF CountInv, Gone, Seqs
<1>3. /\ UNCHANGED <<tsEvery, stopFlag, records, ptpHolds, stamped, copies, lost, rxVars>>
      /\ rows' = rows /\ lost' = lost /\ filter' = filter /\ rxRunning' = rxRunning
      /\ noHw' = noHw /\ disturbed' = disturbed
      /\ tsRequested' = IF tsEvery > 1 /\ Sampled(seq) THEN tsRequested + 1 ELSE tsRequested
  BY DEF SendFrame, rxVars
<1>4. \A s : Sampled(s)' <=> Sampled(s)
  BY <1>3 DEF Sampled
<1>5. CASE sent' = sent /\ wire' = wire /\ pending' = pending /\ errQueue' = errQueue
  <2>1. Gone' = Gone
    BY <1>3, <1>5 DEF Gone
  <2>2. StateType'
    BY <1>1, <1>3, <1>5 DEF StateType, rxVars
  <2>3. StampInv'
    BY <1>3, <1>4, <1>5 DEF StampInv
  <2>4. CountInv'
    BY <1>1, <1>3, <1>5, <2>1, GoneType DEF CountInv, Seqs
  <2>5. SampleInv'
    <3>1. {s \in Gone : Sampled(s)}' = {s \in Gone : Sampled(s)}
      BY <1>4, <2>1
    <3>2. {s \in Gone : Sampled(s)} \subseteq Seqs /\ tsRequested \in Nat
      BY <1>1, GoneType DEF StateType
    <3> QED  BY <1>3, <3>1, <3>2, FramesFinite DEF SampleInv
  <2>6. ArrivedInv' /\ ListenInv'
    BY <1>1, <1>3, <1>5 DEF ArrivedInv, ListenInv
  <2> QED  BY <2>2, <2>3, <2>4, <2>5, <2>6
<1>6. CASE Transmit(seq) /\ sent' = sent + 1
  <2>1. wire' = wire \cup {seq} /\ Gone' = Gone \cup {seq}
    BY <1>3, <1>6 DEF Transmit, Gone
  <2>2. \/ pending' = pending \cup {seq} /\ Sampled(seq) /\ errQueue' = errQueue
        \/ pending' = pending /\ errQueue' = errQueue
        \/ pending' = pending /\ errQueue' = Append(errQueue, [seq |-> seq, hw |-> FALSE])
    BY <1>6 DEF Transmit
  <2>3. [seq |-> seq, hw |-> FALSE] \in Reports
    BY <1>1 DEF Reports
  <2>4. StateType'
    <3>1. sent' \in 0 .. Untried' /\ tsRequested' \in 0 .. Untried'
      BY <1>1, <1>3, <1>6 DEF StateType
    <3>2. wire' \subseteq Seqs /\ pending' \subseteq Seqs
      BY <1>1, <2>1, <2>2 DEF StateType
    <3>3. errQueue' \in Seq(Reports)
      BY <2>2, <2>3 DEF StateType
    <3>4. seq' \in 0 .. Count /\ (tx' = "drain" => seq' < Count)
      BY <1>1 DEF StateType
    <3> QED  BY <1>1, <1>3, <3>1, <3>2, <3>3, <3>4 DEF StateType
  <2>5. StampInv'
    <3>1. Elements(errQueue') \subseteq Elements(errQueue) \cup {[seq |-> seq, hw |-> FALSE]}
      BY <2>2, <2>3, ElementsAppend DEF StateType
    <3>2. Elements(errQueue)' = Elements(errQueue')
      BY DEF Elements
    <3> QED  BY <1>3, <1>4, <2>2, <3>1, <3>2 DEF StampInv
  <2>6. Cardinality(Gone') = Cardinality(Gone) + 1 /\ Cardinality(wire') = Cardinality(wire) + 1
    BY <1>2, <2>1, FramesAdd, GoneType DEF StateType
  <2>7. CountInv'
    <3>1. lost \subseteq Gone /\ Cardinality(Gone) \in Nat
      BY GoneType, FramesFinite DEF Gone
    <3> QED  BY <1>1, <1>2, <1>3, <1>6, <2>1, <2>6, <3>1, GoneType DEF CountInv, Seqs, StateType
  <2>8. SampleInv'
    <3> DEFINE T == {s \in Gone : Sampled(s)}
    <3>1. T \subseteq Seqs /\ {s \in Gone : Sampled(s)}' = {s \in Gone \cup {seq} : Sampled(s)}
      BY <1>4, <2>1, GoneType
    <3>2. CASE Sampled(seq)
      <4>1. {s \in Gone : Sampled(s)}' = T \cup {seq} /\ seq \notin T
        BY <1>2, <3>1, <3>2
      <4>2. Cardinality(T \cup {seq}) = Cardinality(T) + 1
        BY <3>1, <4>1, FramesAdd
      <4>3. tsEvery # 1 => tsEvery > 1
        BY StreamAssumption DEF StateType
      <4>4. Cardinality(T) \in Nat /\ tsRequested \in Nat
        BY <1>1, <3>1, FramesFinite DEF StateType
      <4>5. SampleInv <=> (tsEvery # 1 => Cardinality(T) <= tsRequested)
        BY DEF SampleInv
      <4>6. SampleInv' <=> (tsEvery' # 1 => Cardinality(T \cup {seq}) <= tsRequested')
        BY <4>1 DEF SampleInv
      <4> QED  BY <1>3, <3>2, <4>2, <4>3, <4>4, <4>5, <4>6
    <3>3. CASE ~Sampled(seq)
      <4>1. {s \in Gone : Sampled(s)}' = T
        BY <3>1, <3>3
      <4> QED  BY <1>3, <3>3, <4>1 DEF SampleInv
    <3> QED  BY <3>2, <3>3
  <2>9. ArrivedInv'
    BY <1>3, <1>6, <2>6, FramesFinite DEF ArrivedInv, StateType
  <2>10. ListenInv'
    BY <1>1, <1>3 DEF ListenInv
  <2> QED  BY <2>4, <2>5, <2>7, <2>8, <2>9, <2>10
<1> QED
  BY <1>5, <1>6 DEF SendFrame

\* Steps that touch no frame on its way count none.
LEMMA CountsStay ==
  ASSUME StreamInv, UNCHANGED <<tsEvery, sent, tsRequested, netVars, rows, noHw>>,
         Untried' = Untried, disturbed => disturbed'
  PROVE  CountInv' /\ SampleInv' /\ ArrivedInv'
<1> USE DEF StreamInv
<1>1. /\ tsEvery' = tsEvery /\ sent' = sent /\ tsRequested' = tsRequested /\ wire' = wire
      /\ copies' = copies /\ lost' = lost /\ rows' = rows /\ noHw' = noHw
  BY DEF netVars
<1>2. Gone' = Gone
  BY <1>1 DEF Gone
<1>3. {s \in Gone : Sampled(s)}' = {s \in Gone : Sampled(s)}
  BY <1>1, <1>2 DEF Sampled
<1>4. CountInv'
  BY <1>1, <1>2 DEF CountInv
<1> QED
  BY <1>1, <1>3, <1>4 DEF SampleInv, ArrivedInv

\* Reading the error queue.
LEMMA DrainStep ==
  ASSUME StreamInv, DrainErrQueue, UNCHANGED <<tsEvery, pending, stamped>>
  PROVE  StampInv' /\ records' \subseteq Seqs /\ errQueue' \in Seq(Reports)
<1> USE DEF StreamInv
<1>1. records' = records \cup {r.seq : r \in {e \in Elements(errQueue) : e.hw}} /\ errQueue' = <<>>
  BY DEF DrainErrQueue
<1>2. records' \subseteq stamped
  BY <1>1 DEF StampInv
<1>3. Elements(errQueue)' = {}
  BY <1>1, ElementsEmpty DEF Elements
<1>4. \A s : Sampled(s)' <=> Sampled(s)
  BY DEF Sampled
<1> QED
  BY <1>1, <1>2, <1>3, <1>4 DEF StampInv, StateType

LEMMA TxOtherStep ==
  ASSUME StreamInv, DrainAfterSend \/ LoopEnds \/ CollectMore \/ Report \/ Stop
  PROVE  StreamInv'
<1> USE DEF StreamInv
<1>1. /\ UNCHANGED <<tsEvery, sent, tsRequested, netVars, rows, noHw>>
      /\ UNCHANGED <<rxVars, pending, stamped, ptpHolds>>
  BY DEF DrainAfterSend, LoopEnds, CollectMore, Report, Stop, nicVars, rxVars, netVars
<1>2. /\ Untried' = Untried /\ seq' \in 0 .. Count /\ (tx' = "drain" => seq' < Count)
      /\ tx' \in {"send", "drain", "collect", "done"} /\ stopFlag' \in BOOLEAN
      /\ tx \in {"collect", "done"} => tx' \in {"collect", "done"}
  <2>1. CASE DrainAfterSend
    BY <2>1, StreamAssumption DEF DrainAfterSend, Untried, StateType
  <2>2. CASE LoopEnds \/ CollectMore \/ Report
    BY <2>2 DEF LoopEnds, CollectMore, Report, Untried, StateType
  <2>3. CASE Stop
    BY <2>3 DEF Stop, Untried, StateType
  <2> QED  BY <2>1, <2>2, <2>3
<1>3. disturbed' = disturbed /\ rxRunning' = rxRunning /\ filter' = filter
  BY <1>1 DEF rxVars
<1>4. CountInv' /\ SampleInv' /\ ArrivedInv'
  BY <1>1, <1>2, <1>3, CountsStay
<1>5. StampInv' /\ records' \subseteq Seqs /\ errQueue' \in Seq(Reports)
  <2>1. CASE DrainErrQueue
    BY <1>1, <2>1, DrainStep
  <2>2. CASE records' = records /\ errQueue' = errQueue
    <3>1. \A s : Sampled(s)' <=> Sampled(s)
      BY <1>1 DEF Sampled
    <3>2. Elements(errQueue)' = Elements(errQueue)
      BY <2>2 DEF Elements
    <3> QED  BY <1>1, <2>2, <3>1, <3>2 DEF StampInv, StateType
  <2> QED  BY <2>1, <2>2 DEF DrainAfterSend, LoopEnds, CollectMore, Report, Stop, nicVars
<1>6. StateType'
  BY <1>1, <1>2, <1>5 DEF StateType, rxVars, netVars
<1>7. ListenInv'
  BY <1>1, <1>2, <1>3 DEF ListenInv, netVars
<1> QED
  BY <1>4, <1>5, <1>6, <1>7

LEMMA NicOtherStep ==
  ASSUME StreamInv, (\E s \in pending : Stamp(s)) \/ PtpTakesRegister \/ PtpFreesRegister
  PROVE  StreamInv'
<1> USE DEF StreamInv
<1>1. UNCHANGED <<txVars, netVars, rxVars>>
  BY DEF Stamp, PtpTakesRegister, PtpFreesRegister
<1>2. CountInv' /\ SampleInv' /\ ArrivedInv'
  BY <1>1, CountsStay DEF txVars, rxVars, Untried
<1>3. ListenInv'
  BY <1>1 DEF ListenInv, txVars, netVars, rxVars
<1>4. \A s : Sampled(s)' <=> Sampled(s)
  BY <1>1 DEF Sampled, txVars
<1>5. CASE \E s \in pending : Stamp(s)
  <2>1. PICK s \in pending : Stamp(s)
    BY <1>5
  <2>2. /\ pending' = pending \ {s} /\ stamped' = stamped \cup {s} /\ ptpHolds' = ptpHolds
        /\ errQueue' = Append(errQueue, [seq |-> s, hw |-> TRUE])
    BY <2>1 DEF Stamp
  <2>3. s \in Seqs /\ [seq |-> s, hw |-> TRUE] \in Reports
    BY DEF StateType, Reports
  <2>4. Elements(errQueue)' = Elements(errQueue) \cup {[seq |-> s, hw |-> TRUE]}
    <3>1. Elements(Append(errQueue, [seq |-> s, hw |-> TRUE]))
            = Elements(errQueue) \cup {[seq |-> s, hw |-> TRUE]}
      BY <2>3, ElementsAppend DEF StateType
    <3> QED  BY <2>2, <3>1 DEF Elements
  <2>5. StampInv'
    <3>1. records' = records /\ s \in stamped' /\ stamped \subseteq stamped'
          /\ pending' \cup stamped' = pending \cup stamped
      BY <1>1, <2>2 DEF txVars
    <3>2. [seq |-> s, hw |-> TRUE].seq = s
      OBVIOUS
    <3>3. \A r \in Elements(errQueue)' : r.hw => r.seq \in stamped'
      BY <2>4, <3>1, <3>2 DEF StampInv
    <3> QED  BY <1>4, <3>1, <3>3 DEF StampInv
  <2>6. errQueue' \in Seq(Reports)
    BY <2>2, <2>3 DEF StateType
  <2>7. StateType'
    BY <1>1, <2>2, <2>3, <2>6 DEF StateType, Untried, txVars, netVars, rxVars
  <2> QED  BY <1>2, <1>3, <2>5, <2>7
<1>6. CASE PtpTakesRegister \/ PtpFreesRegister
  <2>1. UNCHANGED <<pending, errQueue, stamped>> /\ ptpHolds' \in BOOLEAN
    BY <1>6 DEF PtpTakesRegister, PtpFreesRegister
  <2>2. StampInv'
    BY <1>1, <1>4, <2>1 DEF StampInv, Elements, txVars
  <2>3. StateType'
    BY <1>1, <2>1 DEF StateType, Untried, txVars, netVars, rxVars
  <2> QED  BY <1>2, <1>3, <2>2, <2>3
<1> QED
  BY <1>5, <1>6

\* A frame under way is received or lost: it stays counted unless the listener
\* was disturbed.
LEMMA NetOtherStep ==
  ASSUME StreamInv, NEW s \in wire, Arrive(s) \/ Lose(s)
  PROVE  StreamInv'
<1> USE DEF StreamInv
<1>1. UNCHANGED <<txVars, nicVars, rxRunning, filter, disturbed>> /\ s \in Seqs
  BY DEF Arrive, Lose, StateType, rxVars
<1>2. Untried' = Untried /\ tsEvery' = tsEvery /\ sent' = sent /\ tsRequested' = tsRequested
  BY <1>1 DEF txVars, Untried
<1>3. \A t : Sampled(t)' <=> Sampled(t)
  BY <1>2 DEF Sampled
<1>4. StampInv'
  BY <1>1, <1>3 DEF StampInv, Elements, txVars, nicVars
<1>5. /\ wire' \subseteq wire /\ wire \ {s} \subseteq wire'
      /\ Cardinality(wire) \in Nat /\ Cardinality(wire \ {s}) = Cardinality(wire) - 1
  BY FramesFinite, FramesRemove DEF Arrive, Lose, StateType
<1>6. \/ rows' = rows /\ noHw' = noHw
      \/ rows' = Append(rows, s) /\ noHw' = noHw /\ rxRunning /\ filter = "all" /\ lost' = lost
      \/ rows' = rows /\ noHw' = noHw + 1 /\ filter # "all" /\ lost' = lost
  <2>1. CASE Arrive(s)
    BY <2>1 DEF Arrive, Receive
  <2>2. CASE Lose(s)
    BY <2>2 DEF Lose, rxVars
  <2> QED  BY <2>1, <2>2
<1>7. Elements(rows)' = Elements(rows) \/ (Elements(rows)' = Elements(rows) \cup {s}
         /\ rows' = Append(rows, s) /\ lost' = lost)
  <2>1. CASE rows' = rows
    BY <2>1 DEF Elements
  <2>2. CASE rows' = Append(rows, s) /\ lost' = lost
    BY <1>1, <2>2, ElementsAppend DEF Elements, StateType
  <2> QED  BY <1>6, <2>1, <2>2
<1>8. lost' = lost \/ (lost' = lost \cup {s} /\ wire' = wire \ {s} /\ rows' = rows)
  BY DEF Arrive, Lose, rxVars
<1>9. StateType'
  <2>1. rows' \in Seq(Seqs) /\ noHw' \in Nat
    <3>1. rows \in Seq(Seqs) /\ Append(rows, s) \in Seq(Seqs) /\ noHw \in Nat
      BY <1>1 DEF StateType
    <3> QED  BY <1>6, <3>1
  <2>2. copies' \in 0 .. MaxCopies
    BY StreamAssumption DEF Arrive, Lose, StateType
  <2>3. lost' \subseteq Seqs
    BY <1>1, <1>8 DEF StateType
  <2> QED  BY <1>1, <1>2, <1>5, <2>1, <2>2, <2>3 DEF StateType, txVars, nicVars
<1>10. Gone' \subseteq Gone
  BY <1>5, <1>7, <1>8 DEF Gone
<1>11. ~disturbed => Gone' = Gone
  <2> SUFFICES ASSUME ~disturbed PROVE s \in Gone'
    BY <1>5, <1>7, <1>8, <1>10 DEF Gone
  <2>1. rxRunning /\ filter = "all"
    BY DEF ListenInv
  <2>2. CASE Arrive(s)
    BY <1>1, <2>1, <2>2, ElementsAppend DEF Arrive, Receive, Gone, Elements, StateType
  <2>3. CASE Lose(s)
    BY <2>3 DEF Lose, Gone, Elements, rxVars
  <2> QED  BY <2>2, <2>3
<1>12. CountInv'
  <2>1. lost' \cap (wire' \cup Elements(rows)') = {}
    <3>1. CASE lost' = lost
      BY <1>5, <1>7, <3>1 DEF CountInv
    <3>2. CASE lost' = lost \cup {s} /\ lost' # lost
      <4>1. Lose(s) /\ s \notin Elements(rows) /\ wire' = wire \ {s} /\ rows' = rows
        BY <1>8, <3>2 DEF Lose, Arrive
      <4>2. Elements(rows)' = Elements(rows)
        BY <4>1 DEF Elements
      <4> QED  BY <3>2, <4>1, <4>2 DEF CountInv
    <3> QED  BY <1>8, <3>1, <3>2
  <2>2. Cardinality(Gone') <= Cardinality(Gone)
    BY <1>10, GoneType, FramesOrdered
  <2>3. Cardinality(Gone) \in Nat /\ Cardinality(Gone') \in Nat /\ sent \in Nat
    <3>1. sent \in Nat
      BY StreamAssumption DEF StateType, Untried
    <3> QED  BY <1>10, <3>1, GoneType, FramesFinite
  <2>4. Cardinality(Gone') <= sent'
    BY <1>2, <2>2, <2>3 DEF CountInv
  <2>5. disturbed' = disturbed
    BY <1>1
  <2> QED  BY <1>2, <1>10, <1>11, <2>1, <2>4, <2>5 DEF CountInv
<1>13. SampleInv'
  <2> DEFINE T == {t \in Gone : Sampled(t)}  U == {t \in Gone' : Sampled(t)}
  <2>1. {t \in Gone : Sampled(t)}' = U /\ U \subseteq T /\ T \subseteq Seqs
    BY <1>3, <1>10, GoneType
  <2>2. /\ Cardinality(U) <= Cardinality(T)
        /\ Cardinality(U) \in Nat /\ Cardinality(T) \in Nat
    BY <2>1, FramesOrdered, FramesFinite
  <2>3. SampleInv <=> (tsEvery # 1 => Cardinality(T) <= tsRequested)
    BY DEF SampleInv
  <2>4. SampleInv' <=> (tsEvery' # 1 => Cardinality(U) <= tsRequested')
    BY <2>1 DEF SampleInv
  <2>5. tsRequested \in Nat
    BY StreamAssumption DEF StateType, Untried
  <2> QED  BY <1>2, <2>2, <2>3, <2>4, <2>5
<1>14. ArrivedInv'
  <2>1. Len(rows') + noHw' <= Len(rows) + noHw + 1 /\ Len(rows) \in Nat
    BY <1>1, <1>6 DEF StateType
  <2>2. \/ wire' = wire /\ copies' = copies + 1
        \/ wire' = wire \ {s} /\ copies' = copies
    BY DEF Arrive, Lose
  <2>3. sent \in Nat /\ copies \in Nat /\ Len(rows') \in Nat /\ noHw' \in Nat
    BY <1>9, StreamAssumption DEF StateType, Untried
  <2>4. CASE wire' = wire /\ copies' = copies + 1
    BY <1>2, <1>5, <2>1, <2>3, <2>4 DEF ArrivedInv, StateType
  <2>5. CASE wire' = wire \ {s} /\ copies' = copies /\ Arrive(s)
    BY <1>2, <1>5, <2>1, <2>3, <2>5 DEF ArrivedInv, StateType
  <2>6. CASE Lose(s)
    BY <1>2, <1>5, <2>3, <2>6 DEF ArrivedInv, Lose, StateType, rxVars
  <2> QED  BY <2>2, <2>4, <2>5, <2>6
<1>15. ListenInv'
  BY <1>1, <1>5 DEF ListenInv, txVars
<1> QED
  BY <1>4, <1>9, <1>12, <1>13, <1>14, <1>15

LEMMA ListenerStep ==
  ASSUME StreamInv, Narrow \/ RxEnds
  PROVE  StreamInv'
<1> USE DEF StreamInv
<1>1. UNCHANGED <<txVars, nicVars, netVars, rows, noHw>>
  BY DEF Narrow, RxEnds
<1>2. /\ rxRunning' \in BOOLEAN /\ filter' \in {"ptp", "all"} /\ disturbed' \in BOOLEAN
      /\ disturbed => disturbed'
  BY DEF Narrow, RxEnds, StateType
<1>3. CountInv' /\ SampleInv' /\ ArrivedInv'
  BY <1>1, <1>2, CountsStay DEF txVars, Untried
<1>4. StampInv'
  BY <1>1 DEF StampInv, Elements, Sampled, txVars, nicVars
<1>5. StateType'
  BY <1>1, <1>2 DEF StateType, Untried, txVars, nicVars, netVars
<1>6. ListenInv'
  BY <1>1 DEF ListenInv, Narrow, RxEnds, txVars, netVars
<1> QED
  BY <1>3, <1>4, <1>5, <1>6

\* The inductive invariant holds in every reachable state.
LEMMA StreamInvariant == Spec => []StreamInv
<1>1. StreamInv /\ [Next]_vars => StreamInv'
  <2> SUFFICES ASSUME StreamInv, [Next]_vars PROVE StreamInv'
    OBVIOUS
  <2>1. CASE UNCHANGED vars
    <3>1. UNCHANGED <<txVars, nicVars, netVars, rxVars>>
      BY <2>1 DEF vars
    <3>2. CountInv' /\ SampleInv' /\ ArrivedInv'
      BY <3>1, CountsStay DEF txVars, rxVars, Untried
    <3>3. StampInv' /\ StateType' /\ ListenInv'
      BY <3>1 DEF StreamInv, StampInv, StateType, ListenInv, Elements, Sampled, Untried,
                  txVars, nicVars, netVars, rxVars
    <3> QED  BY <3>2, <3>3 DEF StreamInv
  <2> QED
    BY <2>1, SendStep, TxOtherStep, NicOtherStep, NetOtherStep, ListenerStep
    DEF Next, TxStep, NicStep, NetStep
<1> QED
  BY <1>1, StreamInit, PTL DEF Spec

-----------------------------------------------------------------------------
(* The properties.                                                         *)

LEMMA CountsBounded ==
  ASSUME StreamInv
  PROVE  /\ sent \in Nat /\ tsRequested \in Nat /\ sent <= Count /\ tsRequested <= Count
         /\ Cardinality(Gone) \in Nat /\ Cardinality(Elements(rows)) \in Nat
         /\ Cardinality(records) \in Nat
         /\ Cardinality(Elements(rows)) <= Cardinality(Gone)
         /\ Cardinality(Gone) <= sent
<1> USE DEF StreamInv
<1>1. Untried \in 0 .. Count /\ Untried \in Nat
  BY StreamAssumption DEF StateType, Untried
<1>2. Gone \subseteq Seqs /\ Elements(rows) \subseteq Gone /\ records \subseteq Seqs
  BY GoneType DEF Gone, StateType
<1>3. Elements(rows) \subseteq Seqs
  BY <1>2
<1> QED
  BY <1>1, <1>2, <1>3, FramesFinite, FramesOrdered, StreamAssumption DEF CountInv, StateType

\* Where a row was written, a frame was counted.
LEMMA NoRowsCounted ==
  ASSUME StreamInv, Elements(rows) # {}
  PROVE  Cardinality(Elements(rows)) > 0
<1>1. PICK s \in Elements(rows) : TRUE
  OBVIOUS
<1>2. {s} \subseteq Elements(rows) /\ Elements(rows) \subseteq Seqs
  BY GoneType DEF StreamInv
<1>3. Cardinality({s}) <= Cardinality(Elements(rows))
  BY <1>2, FramesOrdered
<1>4. Cardinality({s}) = 1
  BY FS_Singleton
<1> QED
  BY <1>3, <1>4, CountsBounded

\* Types of the state, and bounds of every counter: what tsn_tx reports never
\* exceeds -n, and what tsn_rx counts never exceeds what the network carried.
THEOREM TypeCorrect == Spec => []TypeOK
<1>1. StreamInv => TypeOK
  <2> SUFFICES ASSUME StreamInv PROVE TypeOK
    OBVIOUS
  <2>1. noHw <= Count + MaxCopies
    <3>1. Cardinality(wire) \in Nat /\ Len(rows) \in Nat /\ noHw \in Nat /\ copies \in Nat
          /\ copies <= MaxCopies
      BY FramesFinite, StreamAssumption DEF StreamInv, StateType
    <3> QED  BY <3>1, CountsBounded, StreamAssumption DEF StreamInv, ArrivedInv
  <2> QED
    BY <2>1, CountsBounded, StreamAssumption DEF StreamInv, StateType, TypeOK, Reports
<1> QED
  BY <1>1, StreamInvariant, PTL

\* Every row of tx.csv is a timestamp that the NIC took of a frame -N selects,
\* in whatever order reports come and however long ptp4l holds its register.
THEOREM TimestampsAreHardware == Spec => []RecordsAreHardware
<1>1. StreamInv => RecordsAreHardware
  BY DEF StreamInv, StampInv, RecordsAreHardware
<1> QED
  BY <1>1, StreamInvariant, PTL

\* The loss of summary.csv is never negative (summarise).
THEOREM LossIsNatural == Spec => []LossNotNegative
<1>1. StreamInv => LossNotNegative
  <2> SUFFICES ASSUME StreamInv, Usable PROVE RxN <= SentN
    BY DEF LossNotNegative
  <2>1. rows \in Seq(Seqs) /\ Elements(rows) # {}
    BY ElementsEmpty, ElementsIn DEF StreamInv, StateType, Usable
  <2> QED
    BY CountsBounded, <2>1, NoRowsCounted DEF RxN, SentN
<1> QED
  BY <1>1, StreamInvariant, PTL

\* The loss of summary.csv is what the network lost, no frame more or less,
\* while the listener's filter and time limit held (load_case and summarise).
THEOREM LossIsExact == Spec => []LossExact
<1>1. StreamInv => LossExact
  <2> SUFFICES ASSUME StreamInv, Ended, Usable, ~disturbed
               PROVE  LossReported = Cardinality(lost)
    BY DEF LossExact
  <2>1. wire = {} /\ Gone = Elements(rows) \cup lost /\ lost \cap Elements(rows) = {}
    BY DEF StreamInv, ListenInv, CountInv, Ended, Gone
  <2>2. IsFiniteSet(Elements(rows)) /\ IsFiniteSet(lost)
    BY FramesFinite, GoneType DEF StreamInv, StateType
  <2>3. Cardinality(Gone) = Cardinality(Elements(rows)) + Cardinality(lost)
    <3>1. Cardinality(Elements(rows) \cup lost) = Cardinality(Elements(rows))
            + Cardinality(lost) - Cardinality(Elements(rows) \cap lost)
      BY <2>2, FS_Union
    <3>2. Elements(rows) \cap lost = {}
      BY <2>1
    <3>3. Cardinality(Elements(rows)) \in Nat /\ Cardinality(lost) \in Nat
      BY <2>2, FS_CardinalityType
    <3>4. Cardinality(Elements(rows) \cap lost) = 0
      BY <3>2, NoFrames
    <3> QED  BY <2>1, <3>1, <3>3, <3>4
  <2>4. Elements(rows) # {}
    BY ElementsIn DEF StreamInv, StateType, Usable
  <2>5. Cardinality(Gone) = sent /\ Cardinality(lost) \in Nat
    BY <2>2, FS_CardinalityType DEF StreamInv, CountInv
  <2> QED
    BY <2>3, <2>4, <2>5, CountsBounded, NoRowsCounted DEF LossReported, RxN, SentN
<1> QED
  BY <1>1, StreamInvariant, PTL

\* A point without the mark DEGRADED has timestamps for nine tenths of the
\* selected frames that arrived, for every -N.
THEOREM SampleSuffices == Spec => []SampleIsLarge
<1>1. StreamInv => SampleIsLarge
  <2> SUFFICES ASSUME StreamInv, ~Degraded
               PROVE  10 * TxN >= 9 * Cardinality({s \in Elements(rows) : Sampled(s)})
    BY DEF SampleIsLarge
  <2> DEFINE A == {s \in Elements(rows) : Sampled(s)}
             T == {s \in Gone : Sampled(s)}
  <2>1. A \subseteq T /\ T \subseteq Gone /\ Gone \subseteq Seqs /\ T \subseteq Seqs
    BY GoneType DEF StreamInv, Gone
  <2>2. /\ Cardinality(A) <= Cardinality(T) /\ Cardinality(T) <= Cardinality(Gone)
        /\ Cardinality(A) \in Nat /\ Cardinality(T) \in Nat
    BY <2>1, FramesOrdered, FramesFinite
  <2>3. Cardinality(T) <= ExpectTs /\ ExpectTs \in Nat
    BY <2>2, CountsBounded DEF ExpectTs, StreamInv, SampleInv
  <2>4. Cardinality(A) <= sent
    BY <2>2, CountsBounded
  <2> QED
    BY <2>2, <2>3, <2>4, CountsBounded DEF Degraded, TxN
<1> QED
  BY <1>1, StreamInvariant, PTL
=============================================================================
