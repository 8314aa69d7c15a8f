--------------------------- MODULE MeasuredStream ---------------------------
(***************************************************************************)
(* One measured stream, from tsn_tx on PC1 through the switches to tsn_rx  *)
(* on PC2, and what the offline analysis makes of the two CSV files.       *)
(*                                                                         *)
(* tsn_tx sends Count numbered frames and collects their hardware          *)
(* transmit timestamps from the socket's error queue, where they arrive    *)
(* late, in any order, or - when all timestamp registers of the NIC are    *)
(* taken, by its own frames or by ptp4l - not at all.  tsn_rx writes a row *)
(* for each frame whose reception the NIC timestamped.  analyze_plot.py    *)
(* joins the rows by sequence number and computes the loss.                *)
(***************************************************************************)
EXTENDS Naturals, Sequences, FiniteSets

CONSTANTS
  Count,       \* frames to send (-n)
  TsEverys,    \* values of -N: a timestamp is asked for every N-th frame
  Registers,   \* transmit timestamp registers of the NIC
  MaxCopies,   \* bound: how many frames the network duplicates
  Faults       \* which of AllFaults may happen

AllFaults ==
  {"senderr",   \* send() fails for a frame
   "loss",      \* the network loses a frame
   "narrow",    \* ptp4l on PC2 restarts and narrows the receive filter
   "early",     \* tsn_rx ends before the last frame has arrived
   "stop"}      \* SIGINT or SIGTERM to tsn_tx

ASSUME StreamAssumption ==
  /\ Count \in Nat \ {0}
  /\ TsEverys \subseteq Nat \ {0}
  /\ Registers \in Nat \ {0}
  /\ MaxCopies \in Nat
  /\ Faults \subseteq AllFaults

Seqs == 0 .. Count - 1

VARIABLES
  \* tsn_tx
  tx,           \* "send", "drain", "collect" or "done"
  tsEvery,      \* -N
  seq,          \* sequence number of the next frame
  stopFlag,
  sent, tsRequested,    \* counters of the report
  records,      \* frames with a record of a hardware timestamp (have_hw)
  \* transmit side of PC1's NIC and the socket's error queue
  pending,      \* frames that hold a timestamp register
  ptpHolds,     \* ptp4l holds a timestamp register
  errQueue,     \* sequence of [seq, hw]: timestamp reports not yet read
  stamped,      \* history: frames the NIC timestamped
  \* network
  wire,         \* frames under way, in no order
  copies,       \* frames duplicated so far
  lost,         \* history: frames of which no copy arrived
  \* tsn_rx on PC2
  rxRunning, filter,
  rows,         \* the sequence numbers of rx.csv, in order of arrival
  noHw,         \* without_hw_timestamp
  disturbed     \* history: the filter was narrowed, or tsn_rx ended early

txVars  == <<tx, tsEvery, seq, stopFlag, sent, tsRequested, records>>
nicVars == <<pending, ptpHolds, errQueue, stamped>>
netVars == <<wire, copies, lost>>
rxVars  == <<rxRunning, filter, rows, noHw, disturbed>>
vars    == <<txVars, nicVars, netVars, rxVars>>

Elements(s) == {s[i] : i \in DOMAIN s}

Init ==
  /\ tx = "send" /\ tsEvery \in TsEverys /\ seq = 0 /\ stopFlag = FALSE
  /\ sent = 0 /\ tsRequested = 0 /\ records = {}
  /\ pending = {} /\ ptpHolds = FALSE /\ errQueue = <<>> /\ stamped = {}
  /\ wire = {} /\ copies = 0 /\ lost = {}
  /\ rxRunning = TRUE /\ filter = "all" /\ rows = <<>> /\ noHw = 0
  /\ disturbed = FALSE

-----------------------------------------------------------------------------
(* tsn_tx.                                                                 *)

Sampled(s) == s % tsEvery = 0
FreeRegister == Cardinality(pending) + (IF ptpHolds THEN 1 ELSE 0) < Registers

\* The NIC takes a frame to send.  Without a free register it is sent without
\* a hardware timestamp; then, only when every frame is asked for, the kernel
\* reports its software timestamp instead.
Transmit(s) ==
  /\ wire' = wire \cup {s}
  /\ IF Sampled(s) /\ FreeRegister
       THEN pending' = pending \cup {s} /\ UNCHANGED errQueue
       ELSE /\ errQueue' = IF tsEvery = 1
                             THEN Append(errQueue, [seq |-> s, hw |-> FALSE])
                             ELSE errQueue
            /\ UNCHANGED pending

\* Mutant: the pacing loop runs once too often.
OnceMore == seq <= Count /\ ~stopFlag

\* Condition of the pacing loop.
LoopGoesOn == seq < Count /\ ~stopFlag

\* One frame of the pacing loop.
SendFrame ==
  /\ tx = "send" /\ LoopGoesOn
  /\ tsRequested' = IF tsEvery > 1 /\ Sampled(seq) THEN tsRequested + 1 ELSE tsRequested
  /\ \/ Transmit(seq) /\ sent' = sent + 1
     \/ /\ "senderr" \in Faults
        /\ UNCHANGED <<sent, wire, pending, errQueue>>
  /\ tx' = "drain"
  /\ UNCHANGED <<tsEvery, seq, stopFlag, records, ptpHolds, stamped, copies, lost, rxVars>>

\* Mutant: a report without a hardware timestamp makes a record, too.
ReadAnyReport ==
  /\ records' = records \cup {r.seq : r \in Elements(errQueue)}
  /\ errQueue' = <<>>

\* drain_errqueue: read until EAGAIN.  Reports without a hardware timestamp
\* are skipped; the first one of a frame makes its record.
DrainErrQueue ==
  /\ records' = records \cup {r.seq : r \in {e \in Elements(errQueue) : e.hw}}
  /\ errQueue' = <<>>

DrainAfterSend ==
  /\ tx = "drain"
  /\ DrainErrQueue
  /\ seq' = seq + 1
  /\ tx' = "send"
  /\ UNCHANGED <<tsEvery, stopFlag, sent, tsRequested, pending, ptpHolds, stamped,
                 netVars, rxVars>>

LoopEnds ==
  /\ tx = "send" /\ ~LoopGoesOn
  /\ tx' = "collect"
  /\ UNCHANGED <<tsEvery, seq, stopFlag, sent, tsRequested, records, nicVars,
                 netVars, rxVars>>

ExpectTs == IF tsEvery = 1 THEN sent ELSE tsRequested

\* Trailing timestamps: poll and drain until all expected ones have come.
CollectMore ==
  /\ tx = "collect" /\ Cardinality(records) < ExpectTs /\ errQueue # <<>>
  /\ DrainErrQueue
  /\ UNCHANGED <<tx, tsEvery, seq, stopFlag, sent, tsRequested, pending, ptpHolds,
                 stamped, netVars, rxVars>>

\* Mutant: no deadline, tsn_tx waits for every timestamp it asked for.
ReportWhenAll ==
  /\ tx = "collect" /\ Cardinality(records) >= ExpectTs
  /\ DrainErrQueue
  /\ tx' = "done"
  /\ UNCHANGED <<tsEvery, seq, stopFlag, sent, tsRequested, pending, ptpHolds, stamped,
                 netVars, rxVars>>

\* All have come, or the deadline (-w) has passed, which it may at any time:
\* a last drain, then tx.csv and the report.
Report ==
  /\ tx = "collect"
  /\ DrainErrQueue
  /\ tx' = "done"
  /\ UNCHANGED <<tsEvery, seq, stopFlag, sent, tsRequested, pending, ptpHolds, stamped,
                 netVars, rxVars>>

Stop ==
  /\ "stop" \in Faults /\ tx # "done" /\ ~stopFlag
  /\ stopFlag' = TRUE
  /\ UNCHANGED <<tx, tsEvery, seq, sent, tsRequested, records, nicVars, netVars, rxVars>>

-----------------------------------------------------------------------------
(* The NIC of PC1, shared with ptp4l.                                      *)

\* A frame's timestamp is ready: its register is free again.
Stamp(s) ==
  /\ s \in pending
  /\ pending' = pending \ {s}
  /\ errQueue' = Append(errQueue, [seq |-> s, hw |-> TRUE])
  /\ stamped' = stamped \cup {s}
  /\ UNCHANGED <<txVars, ptpHolds, netVars, rxVars>>

PtpTakesRegister ==
  /\ tx # "done" /\ ~ptpHolds /\ FreeRegister
  /\ ptpHolds' = TRUE
  /\ UNCHANGED <<txVars, pending, errQueue, stamped, netVars, rxVars>>

PtpFreesRegister ==
  /\ ptpHolds
  /\ ptpHolds' = FALSE
  /\ UNCHANGED <<txVars, pending, errQueue, stamped, netVars, rxVars>>

-----------------------------------------------------------------------------
(* The network and tsn_rx.                                                 *)

\* tsn_rx receives a frame: a row when it carries a hardware timestamp.
Receive(s) ==
  IF rxRunning
    THEN IF filter = "all" THEN rows' = Append(rows, s) /\ UNCHANGED noHw
                           ELSE noHw' = noHw + 1 /\ UNCHANGED rows
    ELSE UNCHANGED <<rows, noHw>>

\* A frame arrives; the network may keep a copy of it under way.
Arrive(s) ==
  /\ s \in wire
  /\ Receive(s)
  /\ \/ wire' = wire \ {s} /\ UNCHANGED copies
     \/ /\ copies < MaxCopies
        /\ copies' = copies + 1 /\ UNCHANGED wire
  /\ UNCHANGED <<txVars, nicVars, lost, rxRunning, filter, disturbed>>

\* A frame is lost; unless an earlier copy of it has arrived, for good.
Lose(s) ==
  /\ "loss" \in Faults /\ s \in wire
  /\ wire' = wire \ {s}
  /\ lost' = IF s \in Elements(rows) THEN lost ELSE lost \cup {s}
  /\ UNCHANGED <<txVars, nicVars, copies, rxVars>>

Narrow ==
  /\ "narrow" \in Faults /\ filter = "all" /\ rxRunning
  /\ filter' = "ptp" /\ disturbed' = TRUE
  /\ UNCHANGED <<txVars, nicVars, netVars, rxRunning, rows, noHw>>

\* tsn_rx reaches its time limit, which is longer than the stream and its
\* way through the network unless "early".
RxEnds ==
  /\ rxRunning
  /\ \/ tx \in {"collect", "done"} /\ wire = {} /\ UNCHANGED disturbed
     \/ "early" \in Faults /\ disturbed' = TRUE
  /\ rxRunning' = FALSE
  /\ UNCHANGED <<txVars, nicVars, netVars, filter, rows, noHw>>

-----------------------------------------------------------------------------
TxStep == SendFrame \/ DrainAfterSend \/ LoopEnds \/ CollectMore \/ Report
NicStep == (\E s \in pending : Stamp(s)) \/ PtpFreesRegister
NetStep == \E s \in wire : Arrive(s) \/ Lose(s)

Next == TxStep \/ NicStep \/ NetStep \/ RxEnds \/ Stop \/ PtpTakesRegister \/ Narrow

\* tsn_tx and tsn_rx run, and their deadlines pass; frames do not stay under
\* way for ever.
Fairness == WF_vars(TxStep) /\ WF_vars(NetStep) /\ WF_vars(RxEnds)

Spec == Init /\ [][Next]_vars
FairSpec == Spec /\ Fairness

-----------------------------------------------------------------------------
(* run_measurement.sh and analyze_plot.py, when both programs have ended.  *)

Ended == tx = "done" /\ ~rxRunning

\* Mutant: the yield is measured against ts_requested also when -N is 1.
DegradedOfRequested ==
  sent > 0 /\ tsRequested > 0 /\ 10 * Cardinality(records) < 9 * tsRequested

\* DEGRADED: the timestamp yield is below 90 %.
Degraded == sent > 0 /\ ExpectTs > 0 /\ 10 * Cardinality(records) < 9 * ExpectTs

\* load_case skips a point with an empty tx.csv or rx.csv.
Usable == records # {} /\ rows # <<>>

\* load_case: tx_n, rx_n (duplicates dropped) and sent_n.
TxN == Cardinality(records)

\* Mutant: rows are counted without dropping duplicates.
RxRows == Len(rows)

RxN == Cardinality(Elements(rows))

\* Mutant: the timestamps recovered stand for the frames sent.
SentByTimestamps == TxN

SentN == IF sent > 0 THEN sent ELSE TxN

\* summarise: frames lost, of SentN.  fig_loss: of TxN, and never negative.
LossReported == SentN - RxN
LossShown == IF RxN >= TxN THEN 0 ELSE TxN - RxN

-----------------------------------------------------------------------------
(* Properties.                                                             *)

TypeOK ==
  /\ tx \in {"send", "drain", "collect", "done"} /\ tsEvery \in TsEverys
  /\ seq \in 0 .. Count /\ stopFlag \in BOOLEAN
  /\ sent \in 0 .. Count /\ tsRequested \in 0 .. Count
  /\ records \subseteq Seqs /\ pending \subseteq Seqs /\ ptpHolds \in BOOLEAN
  /\ errQueue \in Seq([seq : Seqs, hw : BOOLEAN])
  /\ stamped \subseteq Seqs /\ wire \subseteq Seqs
  /\ copies \in 0 .. MaxCopies /\ lost \subseteq Seqs
  /\ rxRunning \in BOOLEAN /\ filter \in {"ptp", "all"}
  /\ rows \in Seq(Seqs) /\ noHw \in 0 .. Count + MaxCopies
  /\ disturbed \in BOOLEAN

\* Every row of tx.csv is a timestamp the NIC took, of a frame that -N asked
\* for, however late and in whatever order the reports came.
RecordsAreHardware ==
  /\ records \subseteq stamped
  /\ \A s \in records : Sampled(s)

\* A frame is never counted as received that was not counted as sent: the loss
\* in summary.csv is not negative, whatever the timestamp yield.
LossNotNegative == Ended /\ Usable => RxN <= SentN

\* The loss in summary.csv is exactly the frames the network lost, also with
\* duplicates, reordering, failed sends, sampling and an early Ctrl-C, as long
\* as the listener's filter and its time limit held.
LossExact == Ended /\ Usable /\ ~disturbed => LossReported = Cardinality(lost)

\* A point that is not marked DEGRADED has timestamps for nine tenths of the
\* frames on the wire that -N selects.
SampleIsLarge ==
  Ended /\ ~Degraded =>
    10 * TxN >= 9 * Cardinality({s \in Elements(rows) : Sampled(s)})

\* tsn_tx always ends, even when timestamps it asked for never come.
TxEnds == <>(tx = "done")

\* The figure "Frame loss of the measured stream" shows a loss whenever
\* summary.csv reports one.
FigureShowsLoss == Ended /\ Usable /\ LossReported > 0 => LossShown > 0
=============================================================================
