--------------------------- MODULE CampaignProofs ---------------------------
(***************************************************************************)
(* Theorems about Campaign, for every sweep, number of repetitions, number *)
(* of runs and set of faults that ParamsAssumption allows.                 *)
(***************************************************************************)
EXTENDS Campaign, TLAPS

-----------------------------------------------------------------------------
(* The sweep order.                                                        *)

\* The sizes of the sweep are positive.
LEMMA Sizes == Len(QosModes) \in Nat \ {0} /\ Len(Loads) \in Nat \ {0} /\ Reps \in Nat \ {0}
BY ParamsAssumption

\* A point is a triple of indices.
LEMMA LabelParts ==
  \A l \in Labels :
    /\ l = <<l[1], l[2], l[3]>>
    /\ l[1] \in 1 .. Reps /\ l[2] \in 1 .. Len(QosModes) /\ l[3] \in 1 .. Len(Loads)
BY DEF Labels

\* The sweep starts at a point and the point after a point is a point.
LEMMA LabelsClosed ==
  /\ First \in Labels
  /\ \A l \in Labels : NextLabel(l) \in Labels
<1>1. First \in Labels
  BY Sizes DEF Labels, First
<1>2. ASSUME NEW l \in Labels PROVE NextLabel(l) \in Labels
  <2>1. /\ l[1] \in 1 .. Reps
        /\ l[2] \in 1 .. Len(QosModes)
        /\ l[3] \in 1 .. Len(Loads)
    BY LabelParts
  <2>2. CASE l[3] < Len(Loads)
    <3>1. NextLabel(l) = <<l[1], l[2], l[3] + 1>>
      BY <2>2 DEF NextLabel
    <3> QED  BY <2>1, <2>2, <3>1, Sizes DEF Labels
  <2>3. CASE ~(l[3] < Len(Loads)) /\ l[2] < Len(QosModes)
    <3>1. NextLabel(l) = <<l[1], l[2] + 1, 1>>
      BY <2>3 DEF NextLabel
    <3> QED  BY <2>1, <2>3, <3>1, Sizes DEF Labels
  <2>4. CASE ~(l[3] < Len(Loads)) /\ ~(l[2] < Len(QosModes)) /\ l[1] < Reps
    <3>1. NextLabel(l) = <<l[1] + 1, 1, 1>>
      BY <2>4 DEF NextLabel
    <3> QED  BY <2>1, <2>4, <3>1, Sizes DEF Labels
  <2>5. CASE ~(l[3] < Len(Loads)) /\ ~(l[2] < Len(QosModes)) /\ ~(l[1] < Reps)
    BY <2>5 DEF NextLabel
  <2> QED  BY <2>2, <2>3, <2>4, <2>5
<1> QED  BY <1>1, <1>2

\* Loads of one QoS mode follow each other without a change of mode.
LEMMA SameMode ==
  \A l \in Labels : NextLabel(l)[3] # 1 => NextLabel(l)[2] = l[2]
BY LabelParts DEF NextLabel

\* NextLabel(l) is the immediate successor of l, and l itself when l is last.
LEMMA NextIsSuccessor ==
  ASSUME NEW k \in Labels, NEW l \in Labels
  PROVE  IF NextLabel(l) = l THEN Earlier(k, l) \/ k = l
         ELSE Earlier(k, NextLabel(l)) <=> Earlier(k, l) \/ k = l
<1> DEFINE a == l[1]  b == l[2]  c == l[3]  d == k[1]  e == k[2]  f == k[3]
           M == Len(QosModes)  L == Len(Loads)
<1>1. /\ a \in 1 .. Reps /\ b \in 1 .. M /\ c \in 1 .. L
      /\ d \in 1 .. Reps /\ e \in 1 .. M /\ f \in 1 .. L
      /\ l = <<a, b, c>> /\ k = <<d, e, f>>
  BY LabelParts
<1>2. k = l <=> d = a /\ e = b /\ f = c
  BY <1>1
<1>3. Earlier(k, l) <=> d < a \/ (d = a /\ e < b) \/ (d = a /\ e = b /\ f < c)
  BY DEF Earlier
<1> HIDE DEF a, b, c, d, e, f, M, L
<1>4. CASE c < L
  <2>1. NextLabel(l) = <<a, b, c + 1>>
    BY <1>4 DEF NextLabel, a, b, c, L
  <2>2. NextLabel(l) # l
    BY <1>1, <2>1
  <2>3. Earlier(k, NextLabel(l))
          <=> d < a \/ (d = a /\ e < b) \/ (d = a /\ e = b /\ f < c + 1)
    BY <2>1 DEF Earlier, d, e, f
  <2> QED  BY <1>1, <1>2, <1>3, <2>2, <2>3
<1>5. CASE ~(c < L) /\ b < M
  <2>1. NextLabel(l) = <<a, b + 1, 1>>
    BY <1>5 DEF NextLabel, a, b, c, L, M
  <2>2. NextLabel(l) # l
    BY <1>1, <2>1
  <2>3. Earlier(k, NextLabel(l))
          <=> d < a \/ (d = a /\ e < b + 1) \/ (d = a /\ e = b + 1 /\ f < 1)
    BY <2>1 DEF Earlier, d, e, f
  <2> QED  BY <1>1, <1>2, <1>3, <1>5, <2>2, <2>3, Sizes DEF L, M
<1>6. CASE ~(c < L) /\ ~(b < M) /\ a < Reps
  <2>1. NextLabel(l) = <<a + 1, 1, 1>>
    BY <1>6 DEF NextLabel, a, b, c, L, M
  <2>2. NextLabel(l) # l
    BY <1>1, <2>1
  <2>3. Earlier(k, NextLabel(l))
          <=> d < a + 1 \/ (d = a + 1 /\ e < 1) \/ (d = a + 1 /\ e = 1 /\ f < 1)
    BY <2>1 DEF Earlier, d, e, f
  <2> QED  BY <1>1, <1>2, <1>3, <1>6, <2>2, <2>3, Sizes DEF L, M
<1>7. CASE ~(c < L) /\ ~(b < M) /\ ~(a < Reps)
  <2>1. NextLabel(l) = l
    BY <1>7 DEF NextLabel, a, b, c, L, M
  <2> QED  BY <1>1, <1>2, <1>3, <1>7, <2>1, Sizes DEF L, M
<1> QED  BY <1>4, <1>5, <1>6, <1>7

\* No point is earlier than the first, and none earlier than itself.
LEMMA FirstIsFirst ==
  \A k \in Labels : ~Earlier(k, First) /\ ~Earlier(k, k)
BY LabelParts DEF First, Earlier

\* Each mode of the sweep is a QoS mode.
LEMMA ModeOfLabel == \A l \in Labels : QosModes[l[2]] \in Modes
BY LabelParts, ParamsAssumption DEF Modes

-----------------------------------------------------------------------------
(* Type correctness.                                                       *)

\* Capturing frames keeps /tmp of PC2 a set of files and no owner changes.
LEMMA CaptureType ==
  ASSUME NEW rows \in {"few", "most"}, files \in [Keys -> Files], Capture(rows)
  PROVE  /\ files' \in [Keys -> Files]
         /\ \A k \in Keys : files'[k].owner = files[k].owner
<1>1. ASSUME NEW f \in Files
      PROVE  LET g == [f EXCEPT !.rows = IF @ = "most" THEN @ ELSE rows]
             IN  g \in Files /\ g.owner = f.owner
  BY DEF Files, Rows
<1>2. ASSUME NEW k \in Keys
      PROVE  files'[k] \in Files /\ files'[k].owner = files[k].owner
  BY <1>1 DEF Capture
<1> QED  BY <1>2 DEF Capture

\* A listener is started, or fails to, on a file of its own.
LEMMA ListenerType ==
  ASSUME NEW k \in Keys, TypeOK, StartListener(k), run \in 1 .. MaxRuns
  PROVE  /\ files' \in [Keys -> Files]
         /\ listeners' \subseteq Keys \X (1 .. MaxRuns)
         /\ filter' \in {"ptp", "all"} /\ session' \in BOOLEAN
         /\ mishaps' \subseteq Mishaps
<1>1. CASE /\ session' = FALSE /\ mishaps' = mishaps \cup {<<k, "failed">>}
           /\ UNCHANGED <<filter, files, listeners>>
  <2>1. mishaps' \subseteq Mishaps
    BY <1>1 DEF TypeOK, Mishaps
  <2> QED  BY <1>1, <2>1 DEF TypeOK
<1>2. CASE ~(/\ session' = FALSE /\ mishaps' = mishaps \cup {<<k, "failed">>}
             /\ UNCHANGED <<filter, files, listeners>>)
  <2> DEFINE own == IF \E r \in 1 .. MaxRuns : <<k, r>> \in listeners /\ r # run
                      THEN 0 ELSE run
  <2>1. /\ files' = [files EXCEPT ![k] = [owner |-> own, rows |-> "none"]]
        /\ listeners' = listeners \cup {<<k, run>>}
        /\ filter' = "all" /\ session' = TRUE /\ mishaps' = mishaps
    BY <1>2 DEF StartListener
  <2>2. own \in 0 .. MaxRuns
    BY ParamsAssumption
  <2>3. [owner |-> own, rows |-> "none"] \in Files
    BY <2>2 DEF Files, Rows
  <2> HIDE DEF own
  <2> QED  BY <2>1, <2>3 DEF TypeOK
<1> QED  BY <1>1, <1>2

LEMMA LabelsAreKeys == Pf \in Keys /\ Labels \subseteq Keys
BY DEF Keys

LEMMA NoFileIsFile == NoFile \in Files /\ NoMeta \in Metas /\ NoRx \in RxFiles
BY ParamsAssumption DEF NoFile, Files, Rows, NoMeta, Metas, StreamResults, NoRx, RxFiles

\* A script at work has been started, and the gate polls GateTries times.
Running ==
  /\ pc \notin StoppedPcs => run \in 1 .. MaxRuns
  /\ pc = "gateLoop" => tries < GateTries

LEMMA PcSets ==
  /\ CheckPcs \subseteq Pcs /\ PointPcs \subseteq TrappedPcs /\ TrappedPcs \subseteq Pcs
  /\ PreflightPcs \subseteq Pcs /\ StoppedPcs \subseteq Pcs
BY DEF CheckPcs, GatePcs, PreflightPcs, PointPcs, TrappedPcs, StoppedPcs, Pcs

LEMMA AdvanceType ==
  ASSUME TypeOK, Advance
  PROVE  cur' \in Labels /\ pc' \in {"restorePC1", "qosPC1", "check"}
BY LabelsClosed DEF TypeOK, Advance

\* qos_config.sh leaves a node in the mode asked for, in none, or as it was.
LEMMA QosType ==
  ASSUME TypeOK, NEW n \in Nodes, NEW p, NEW q, ApplyQos(p, n, q)
  PROVE  qos' \in [Nodes -> Modes]
<1>1. QosModes[cur[2]] \in Modes /\ "none" \in Modes
  BY ModeOfLabel DEF TypeOK, Modes
<1> QED  BY <1>1 DEF ApplyQos, TypeOK

LEMMA TypeInit == Init => TypeOK /\ Running
<1> SUFFICES ASSUME Init PROVE TypeOK /\ Running
  OBVIOUS
<1>1. files \in [Keys -> Files] /\ meta \in [Labels -> Metas] /\ rx \in [Labels -> RxFiles]
  BY NoFileIsFile DEF Init
<1>2. Running /\ pc \in Pcs /\ stream \in StreamResults /\ load \in LoadResults
  BY DEF Init, Running, Pcs, StoppedPcs, StreamResults, LoadResults
<1>3. run \in 0 .. MaxRuns /\ tries \in 0 .. GateTries
  BY ParamsAssumption DEF Init
<1> QED  BY <1>1, <1>2, <1>3, LabelsClosed DEF Init, TypeOK

LEMMA TypeStep == TypeOK /\ Running /\ [Next]_vars => TypeOK' /\ Running'
<1> SUFFICES ASSUME TypeOK, Running, [Next]_vars PROVE TypeOK' /\ Running'
  OBVIOUS
<1> USE PcSets, LabelsAreKeys DEF TypeOK, Running, Pcs, StoppedPcs, GatePcs,
        CheckPcs, PointPcs, TrappedPcs, PreflightPcs
<1>1. CASE Start
  <2>1. meta' \in [Labels -> Metas] /\ rx' \in [Labels -> RxFiles]
    BY <1>1, NoFileIsFile DEF Start
  <2>2. run' \in 1 .. MaxRuns /\ tries' \in 0 .. GateTries /\ tries' < GateTries
    BY <1>1, ParamsAssumption DEF Start
  <2>3. cur' \in Labels /\ pc' \in Pcs
    BY <1>1, LabelsClosed DEF Start
  <2>4. UNCHANGED <<qos, filter, files, listeners>>
    BY <1>1 DEF Start, nodes
  <2>5. Running' /\ run' \in 0 .. MaxRuns
    BY <2>2, ParamsAssumption
  <2>6. /\ recovered' \in BOOLEAN /\ last' \in BOOLEAN /\ before' \in BOOLEAN
        /\ session' \in BOOLEAN /\ stream' \in StreamResults /\ load' \in LoadResults
        /\ traversed' \in BOOLEAN
        /\ measured' = {} /\ skipped' = {} /\ degraded' = {} /\ shortfall' = {}
    BY <1>1 DEF Start, StreamResults, LoadResults
  <2>7. mishaps' \subseteq Mishaps
    BY <1>1 DEF Start, Mishaps
  <2> QED  BY <2>1, <2>2, <2>3, <2>4, <2>5, <2>6, <2>7
<1>2. ASSUME NEW o \in Observations, Recover(o) PROVE TypeOK' /\ Running'
  BY <1>2 DEF Recover, outdir, ghost, Locked
<1>3. ASSUME NEW o \in Observations, Gate(o) PROVE TypeOK' /\ Running'
  <2>1. tries' \in 0 .. GateTries /\ (pc' = "gateLoop" => tries' < GateTries)
    <3>1. CASE pc = "gate"
      BY <1>3, <3>1, ParamsAssumption DEF Gate, Verdict
    <3>2. CASE pc = "gateLoop"
      BY <1>3, <3>2, ParamsAssumption DEF Gate, Verdict
    <3>3. CASE pc = "gateFinal"
      BY <1>3, <3>3 DEF Gate, Verdict
    <3> QED  BY <1>3, <3>1, <3>2, <3>3 DEF Gate, Verdict
  <2>2. pc \in GatePcs /\ pc' \in GatePcs \cup {"preflight", "aborted"}
    BY <1>3 DEF Gate, Verdict
  <2>3. recovered' \in BOOLEAN /\ last' \in BOOLEAN
    BY <1>3 DEF Gate, Verdict, Locked
  <2>4. UNCHANGED <<run, cur, before, session, stream, load, qos, filter, files,
                    listeners, outdir, ghost>>
    BY <1>3 DEF Gate, nodes
  <2> QED  BY <2>1, <2>2, <2>3, <2>4 DEF outdir, ghost
<1>4. ASSUME NEW o \in Observations, Check(o) PROVE TypeOK' /\ Running'
  BY <1>4 DEF Check, Verdict, nodes, outdir, ghost, Locked
<1>5. ASSUME NEW o \in Observations, Recheck(o) PROVE TypeOK' /\ Running'
  BY <1>5, AdvanceType DEF Recheck, Verdict, nodes, ghost, Locked
<1>6. ASSUME NEW o \in Observations, After(o) PROVE TypeOK' /\ Running'
  BY <1>6 DEF After, Verdict, nodes, outdir, ghost, Locked
<1>7. CASE PfListen
  BY <1>7, ListenerType DEF PfListen, outdir, ghost
<1>8. ASSUME NEW rows \in {"few", "most"}, PfSend(rows) PROVE TypeOK' /\ Running'
  BY <1>8, CaptureType DEF PfSend, Goto, outdir
<1>9. ASSUME NEW rows \in {"few", "most"}, PfUntagged(rows) PROVE TypeOK' /\ Running'
  BY <1>9 DEF PfUntagged, Goto, outdir, ghost, Files, Rows
<1>10. CASE PfCount
  BY <1>10 DEF PfCount, Goto, nodes, outdir, ghost
<1>11. CASE ApplyQosPC1
  <2>1. qos' \in [Nodes -> Modes]
    BY <1>11, QosType DEF ApplyQosPC1, Nodes
  <2> QED  BY <1>11, <2>1 DEF ApplyQosPC1, ApplyQos, Goto, AbortTrapped, Cleanup, outdir, ghost
<1>12. CASE ApplyQosPC2
  <2>1. qos' \in [Nodes -> Modes]
    BY <1>12, QosType DEF ApplyQosPC2, Nodes
  <2> QED  BY <1>12, <2>1 DEF ApplyQosPC2, ApplyQos, Goto, AbortTrapped, Cleanup, outdir, ghost
<1>13. CASE Listen
  BY <1>13, ListenerType DEF Listen, outdir, ghost
<1>14. ASSUME NEW res \in LoadResults, Load(res) PROVE TypeOK' /\ Running'
  BY <1>14 DEF Load, nodes, outdir, ghost, LoadResults
<1>15. ASSUME NEW res \in StreamResults, Stream(res) PROVE TypeOK' /\ Running'
  BY <1>15, CaptureType DEF Stream, outdir, ghost, StreamResults
<1>16. CASE Join
  BY <1>16 DEF Join, Goto, nodes, outdir, ghost
<1>17. CASE Fetch
  <2>1. [file |-> files[cur], closed |-> ~Open(cur)] \in RxFiles
    BY LabelsAreKeys DEF RxFiles
  <2>2. rx' \in [Labels -> RxFiles]
    BY <1>17, <2>1 DEF Fetch
  <2> QED  BY <1>17, <2>2 DEF Fetch, Goto, nodes, ghost
<1>18. CASE Remove
  BY <1>18, NoFileIsFile DEF Remove, Goto, outdir, ghost
<1>19. CASE Shortfall
  BY <1>19 DEF Shortfall, Goto, nodes, ghost
<1>20. CASE WriteMeta
  <2>1. CASE stream # "failed"
    <3>1. [before |-> before, after |-> last, stream |-> stream,
           achieved |-> IF load = "empty" THEN "short" ELSE load] \in Metas
      BY DEF Metas, LoadResults
    <3>2. meta' \in [Labels -> Metas]
      BY <1>20, <2>1, <3>1 DEF WriteMeta
    <3> QED  BY <1>20, <2>1, <3>2 DEF WriteMeta, Goto, nodes, ghost
  <2>2. CASE stream = "failed"
    BY <1>20, <2>2 DEF WriteMeta, AbortTrapped, Cleanup, ghost
  <2> QED  BY <2>1, <2>2
<1>21. CASE Mark
  BY <1>21, AdvanceType DEF Mark, nodes, ghost, StreamResults, LoadResults
<1>22. CASE RestorePC1
  BY <1>22 DEF RestorePC1, Goto, Modes, Nodes, outdir, ghost
<1>23. CASE RestorePC2
  BY <1>23 DEF RestorePC2, Goto, Cleanup, Modes, Nodes, outdir, ghost
<1>24. ASSUME NEW x \in listeners, ListenerEnds(x) PROVE TypeOK' /\ Running'
  BY <1>24 DEF ListenerEnds, outdir, ghost
<1>25. CASE SessionDrops
  <2>1. Current \in Keys
    BY DEF Current
  <2>2. mishaps' \subseteq Mishaps
    BY <1>25, <2>1 DEF SessionDrops, Mishaps
  <2> QED  BY <1>25, <2>2 DEF SessionDrops, nodes, outdir
<1>26. CASE PtpRestarts
  BY <1>26 DEF PtpRestarts, script, outdir, ghost
<1>27. CASE TxCut
  <2>1. files' \in [Keys -> Files]
    BY <1>27, CaptureType DEF TxCut
  <2>2. pc' \in {"pfWait", "join"} /\ stream' \in StreamResults
    BY <1>27 DEF TxCut, StreamResults
  <2> QED  BY <1>27, <2>1, <2>2 DEF TxCut, outdir
<1>28. CASE CtrlC
  BY <1>28 DEF CtrlC, Cleanup, outdir
<1>29. CASE Killed
  BY <1>29 DEF Killed, nodes, outdir, ghost
<1>30. CASE UNCHANGED vars
  BY <1>30 DEF vars, script, nodes, outdir, ghost
<1> QED
  BY <1>1, <1>2, <1>3, <1>4, <1>5, <1>6, <1>7, <1>8, <1>9, <1>10, <1>11, <1>12, <1>13, <1>14, <1>15, <1>16, <1>17, <1>18, <1>19, <1>20, <1>21, <1>22, <1>23, <1>24, <1>25, <1>26, <1>27, <1>28, <1>29, <1>30
     DEF Next, ScriptStep, Listeners

\* Every variable keeps its type, and check_ptp's polls their bound, in every
\* step of the driver, for every sweep and every set of faults.
THEOREM TypeCorrect == Spec => [](TypeOK /\ Running)
<1>1. Init => TypeOK /\ Running
  BY TypeInit
<1>2. TypeOK /\ Running /\ [Next]_vars => (TypeOK /\ Running)'
  BY TypeStep
<1> QED  BY <1>1, <1>2, PTL DEF Spec

-----------------------------------------------------------------------------
(* The stream is sent under the QoS mode of its label.                     *)

\* StreamUnderQos is not inductive: the mode is set on PC1 one step before it
\* is set on PC2, and holds from one load of a mode to the next.
QosInv ==
  /\ pc = "qosPC2" => qos["PC1"] = QosModes[cur[2]]
  /\ StreamUnderQos

\* Advance stays in the mode of the point it leaves, or sets a mode first.
LEMMA AdvanceMode ==
  ASSUME TypeOK, Advance
  PROVE  /\ pc' = "check" => cur'[2] = cur[2]
         /\ pc' \in {"check", "qosPC1", "restorePC1"}
BY LabelsClosed, SameMode DEF TypeOK, Advance

LEMMA QosStep == TypeOK /\ QosInv /\ [Next]_vars => QosInv'
<1> SUFFICES ASSUME TypeOK, QosInv, [Next]_vars PROVE QosInv'
  OBVIOUS
<1> USE DEF QosInv, StreamUnderQos, PointPcs, Nodes
<1>1. CASE Start
  BY <1>1 DEF Start, nodes
<1>2. ASSUME NEW o \in Observations, Recover(o) PROVE QosInv'
  BY <1>2 DEF Recover, nodes, CheckPcs, GatePcs
<1>3. ASSUME NEW o \in Observations, Gate(o) PROVE QosInv'
  BY <1>3 DEF Gate, Verdict, nodes
<1>4. ASSUME NEW o \in Observations, Check(o) PROVE QosInv'
  BY <1>4 DEF Check, Verdict, nodes
<1>5. ASSUME NEW o \in Observations, Recheck(o) PROVE QosInv'
  BY <1>5, AdvanceMode DEF Recheck, Verdict, nodes
<1>6. ASSUME NEW o \in Observations, After(o) PROVE QosInv'
  BY <1>6 DEF After, Verdict, nodes
<1>7. CASE PfListen
  BY <1>7 DEF PfListen, nodes
<1>8. ASSUME NEW rows \in {"few", "most"}, PfSend(rows) PROVE QosInv'
  BY <1>8 DEF PfSend, Goto, nodes
<1>9. ASSUME NEW rows \in {"few", "most"}, PfUntagged(rows) PROVE QosInv'
  BY <1>9 DEF PfUntagged, Goto, nodes
<1>10. CASE PfCount
  BY <1>10 DEF PfCount, Goto, nodes
<1>11. CASE ApplyQosPC1
  BY <1>11 DEF TypeOK, ApplyQosPC1, ApplyQos, Goto, AbortTrapped, nodes
<1>12. CASE ApplyQosPC2
  BY <1>12 DEF TypeOK, ApplyQosPC2, ApplyQos, Goto, AbortTrapped, nodes
<1>13. CASE Listen
  BY <1>13 DEF Listen, nodes
<1>14. ASSUME NEW res \in LoadResults, Load(res) PROVE QosInv'
  BY <1>14 DEF Load, nodes
<1>15. ASSUME NEW res \in StreamResults, Stream(res) PROVE QosInv'
  BY <1>15 DEF Stream, nodes
<1>16. CASE Join
  BY <1>16 DEF Join, Goto, nodes
<1>17. CASE Fetch
  BY <1>17 DEF Fetch, Goto, nodes
<1>18. CASE Remove
  BY <1>18 DEF Remove, Goto, nodes
<1>19. CASE Shortfall
  BY <1>19 DEF Shortfall, Goto, nodes
<1>20. CASE WriteMeta
  BY <1>20 DEF WriteMeta, Goto, AbortTrapped, nodes
<1>21. CASE Mark
  BY <1>21, AdvanceMode DEF Mark, nodes
<1>22. CASE RestorePC1
  BY <1>22 DEF RestorePC1, Goto, nodes
<1>23. CASE RestorePC2
  BY <1>23 DEF RestorePC2, Goto, nodes
<1>24. ASSUME NEW x \in listeners, ListenerEnds(x) PROVE QosInv'
  BY <1>24 DEF ListenerEnds, nodes
<1>25. CASE SessionDrops
  BY <1>25 DEF SessionDrops, nodes
<1>26. CASE PtpRestarts
  BY <1>26 DEF PtpRestarts, script, nodes
<1>27. CASE TxCut
  BY <1>27 DEF TxCut, nodes
<1>28. CASE CtrlC
  BY <1>28 DEF CtrlC, nodes, StoppedPcs
<1>29. CASE Killed
  BY <1>29 DEF Killed, nodes
<1>30. CASE UNCHANGED vars
  BY <1>30 DEF vars, script, nodes
<1> QED
  BY <1>1, <1>2, <1>3, <1>4, <1>5, <1>6, <1>7, <1>8, <1>9, <1>10, <1>11, <1>12, <1>13, <1>14, <1>15, <1>16, <1>17, <1>18, <1>19, <1>20, <1>21, <1>22, <1>23, <1>24, <1>25, <1>26, <1>27, <1>28, <1>29, <1>30
     DEF Next, ScriptStep, Listeners

\* A stream is always sent with both nodes in the QoS mode of its label,
\* whatever mode an earlier, interrupted run left behind.
THEOREM QosOfLabel == Spec => []StreamUnderQos
<1>1. Init => QosInv
  BY DEF Init, QosInv, StreamUnderQos, PointPcs
<1>2. TypeOK /\ QosInv /\ [Next]_vars => QosInv'
  BY QosStep
<1>3. QosInv => StreamUnderQos
  BY DEF QosInv
<1> QED  BY <1>1, <1>2, <1>3, TypeCorrect, PTL DEF Spec

-----------------------------------------------------------------------------
(* No point is measured without a lock just before it.                     *)

\* MeasuredInLock is not inductive: meta.json is written ten steps after the
\* check, from a variable set by the check.
LockInv ==
  /\ pc \in PointPcs \ {"check", "recheck"} => before
  /\ MeasuredInLock

LEMMA LockStep == TypeOK /\ LockInv /\ [Next]_vars => LockInv'
<1> SUFFICES ASSUME TypeOK, LockInv, [Next]_vars PROVE LockInv'
  OBVIOUS
<1> USE DEF LockInv, MeasuredInLock, PointPcs
<1>1. CASE Start
  BY <1>1 DEF Start, outdir
<1>2. ASSUME NEW o \in Observations, Recover(o) PROVE LockInv'
  BY <1>2 DEF Recover, outdir, CheckPcs, GatePcs
<1>3. ASSUME NEW o \in Observations, Gate(o) PROVE LockInv'
  BY <1>3 DEF Gate, Verdict, outdir
<1>4. ASSUME NEW o \in Observations, Check(o) PROVE LockInv'
  BY <1>4 DEF Check, Verdict, outdir
<1>5. ASSUME NEW o \in Observations, Recheck(o) PROVE LockInv'
  BY <1>5, AdvanceType DEF Recheck, Verdict, outdir
<1>6. ASSUME NEW o \in Observations, After(o) PROVE LockInv'
  BY <1>6 DEF After, Verdict, outdir
<1>7. CASE PfListen
  BY <1>7 DEF PfListen, outdir
<1>8. ASSUME NEW rows \in {"few", "most"}, PfSend(rows) PROVE LockInv'
  BY <1>8 DEF PfSend, Goto, outdir
<1>9. ASSUME NEW rows \in {"few", "most"}, PfUntagged(rows) PROVE LockInv'
  BY <1>9 DEF PfUntagged, Goto, outdir
<1>10. CASE PfCount
  BY <1>10 DEF PfCount, Goto, outdir
<1>11. CASE ApplyQosPC1
  BY <1>11 DEF ApplyQosPC1, ApplyQos, Goto, AbortTrapped, outdir
<1>12. CASE ApplyQosPC2
  BY <1>12 DEF ApplyQosPC2, ApplyQos, Goto, AbortTrapped, outdir
<1>13. CASE Listen
  BY <1>13 DEF Listen, outdir
<1>14. ASSUME NEW res \in LoadResults, Load(res) PROVE LockInv'
  BY <1>14 DEF Load, outdir
<1>15. ASSUME NEW res \in StreamResults, Stream(res) PROVE LockInv'
  BY <1>15 DEF Stream, outdir
<1>16. CASE Join
  BY <1>16 DEF Join, Goto, outdir
<1>17. CASE Fetch
  BY <1>17 DEF Fetch, Goto, outdir
<1>18. CASE Remove
  BY <1>18 DEF Remove, Goto, outdir
<1>19. CASE Shortfall
  BY <1>19 DEF Shortfall, Goto, outdir
<1>20. CASE WriteMeta
  <2>1. CASE stream # "failed"
    <3>1. pc = "meta" /\ pc' = "mark" /\ before' = before /\ before
      BY <1>20, <2>1 DEF WriteMeta, Goto
    <3>2. measured' = measured \cup {cur}
      BY <1>20, <2>1 DEF WriteMeta
    <3>3. ASSUME NEW l \in Labels PROVE meta'[l].before = IF l = cur THEN before ELSE meta[l].before
      <4> DEFINE m == [before |-> before, after |-> last, stream |-> stream,
                       achieved |-> IF load = "empty" THEN "short" ELSE load]
      <4>1. meta' = [meta EXCEPT ![cur] = m]
        BY <1>20, <2>1 DEF WriteMeta
      <4>2. m.before = before
        OBVIOUS
      <4> HIDE DEF m
      <4> QED  BY <4>1, <4>2 DEF TypeOK
    <3> QED  BY <3>1, <3>2, <3>3 DEF TypeOK
  <2>2. CASE stream = "failed"
    BY <1>20, <2>2 DEF WriteMeta, AbortTrapped
  <2> QED  BY <2>1, <2>2
<1>21. CASE Mark
  BY <1>21, AdvanceType DEF Mark, outdir
<1>22. CASE RestorePC1
  BY <1>22 DEF RestorePC1, Goto, outdir
<1>23. CASE RestorePC2
  BY <1>23 DEF RestorePC2, Goto, outdir
<1>24. ASSUME NEW x \in listeners, ListenerEnds(x) PROVE LockInv'
  BY <1>24 DEF ListenerEnds, outdir
<1>25. CASE SessionDrops
  BY <1>25 DEF SessionDrops, outdir
<1>26. CASE PtpRestarts
  BY <1>26 DEF PtpRestarts, script, outdir
<1>27. CASE TxCut
  BY <1>27 DEF TxCut, outdir
<1>28. CASE CtrlC
  BY <1>28 DEF CtrlC, outdir, StoppedPcs
<1>29. CASE Killed
  BY <1>29 DEF Killed, outdir
<1>30. CASE UNCHANGED vars
  BY <1>30 DEF vars, script, outdir
<1> QED
  BY <1>1, <1>2, <1>3, <1>4, <1>5, <1>6, <1>7, <1>8, <1>9, <1>10, <1>11, <1>12, <1>13, <1>14, <1>15, <1>16, <1>17, <1>18, <1>19, <1>20, <1>21, <1>22, <1>23, <1>24, <1>25, <1>26, <1>27, <1>28, <1>29, <1>30
     DEF Next, ScriptStep, Listeners

\* Every point with a meta.json was preceded by a check that showed both nodes
\* locked, and its meta.json says so.
THEOREM MeasuredAfterLock == Spec => []MeasuredInLock
<1>1. Init => LockInv
  BY DEF Init, LockInv, MeasuredInLock, PointPcs
<1>2. TypeOK /\ LockInv /\ [Next]_vars => LockInv'
  BY LockStep
<1>3. LockInv => MeasuredInLock
  BY DEF LockInv
<1> QED  BY <1>1, <1>2, <1>3, TypeCorrect, PTL DEF Spec

-----------------------------------------------------------------------------
(* The preflight counts the frames of this run.                            *)

\* What pf_rx.csv holds while the preflight runs is about this run's frames,
\* unless its tsn_rx failed.
TravInv ==
  \/ <<Pf, "failed">> \in mishaps
  \/ /\ pc = "pfSend" => files[Pf].rows # "most"
     /\ pc = "pfWait" => (files[Pf].rows = "most" => traversed)
     /\ pc \in TrappedPcs => traversed

\* tsn_rx truncates its output when it starts, or fails.
LEMMA ListenerTruncates ==
  ASSUME NEW k \in Keys, TypeOK, StartListener(k)
  PROVE  \/ <<k, "failed">> \in mishaps'
         \/ /\ files'[k].rows = "none"
            /\ \/ files'[k].owner = run
               \/ /\ files'[k].owner = 0
                  /\ \E r \in 1 .. MaxRuns : <<k, r>> \in listeners /\ r # run
BY DEF StartListener, TypeOK

\* Within a run, listeners are started by this run only and no mishap is
\* forgotten.
LEMMA NoForgetting ==
  ASSUME [Next]_vars
  PROVE  \/ Start
         \/ /\ run' = run /\ mishaps \subseteq mishaps'
            /\ \A x \in listeners' : x \in listeners \/ x[2] = run
<1>1. ASSUME NEW k, StartListener(k)
      PROVE  /\ mishaps \subseteq mishaps'
             /\ \A x \in listeners' : x \in listeners \/ x[2] = run
  BY <1>1 DEF StartListener
<1>2. CASE PfListen \/ Listen
  BY <1>1, <1>2 DEF PfListen, Listen
<1> QED
  BY <1>2
     DEF Next, ScriptStep, Listeners, Recover, Gate, Verdict, Check, Recheck, After,
         PfSend, PfUntagged, PfCount, ApplyQosPC1, ApplyQosPC2, ApplyQos, Load, Stream,
         Join, Fetch, Remove, Shortfall, WriteMeta, Mark, RestorePC1, RestorePC2,
         ListenerEnds, SessionDrops, PtpRestarts, TxCut, CtrlC, Killed, Goto,
         AbortTrapped, Cleanup, vars, script, nodes, ghost

\* A file has most rows after a capture only if it had, or most frames arrived.
LEMMA CaptureRows ==
  ASSUME NEW k \in Keys, NEW rows \in {"few", "most"}, Capture(rows), TypeOK
  PROVE  files'[k].rows = "most" => rows = "most" \/ files[k].rows = "most"
BY DEF Capture, TypeOK, Files

LEMMA TravStep ==
  TypeOK /\ Running /\ TravInv /\ [Next]_vars => TravInv'
<1> SUFFICES ASSUME TypeOK, Running, TravInv, [Next]_vars
             PROVE  TravInv'
  OBVIOUS
<1> USE DEF TravInv, TrappedPcs, PointPcs
<1>1. CASE Start
  BY <1>1 DEF Start, nodes, ghost, StoppedPcs
<1>2. ASSUME NEW o \in Observations, Recover(o) PROVE TravInv'
  BY <1>2 DEF Recover, nodes, ghost, CheckPcs, GatePcs
<1>3. ASSUME NEW o \in Observations, Gate(o) PROVE TravInv'
  BY <1>3 DEF Gate, Verdict, nodes, ghost
<1>4. ASSUME NEW o \in Observations, Check(o) PROVE TravInv'
  BY <1>4 DEF Check, Verdict, nodes, ghost
<1>5. ASSUME NEW o \in Observations, Recheck(o) PROVE TravInv'
  BY <1>5, AdvanceType DEF Recheck, Verdict, nodes, ghost
<1>6. ASSUME NEW o \in Observations, After(o) PROVE TravInv'
  BY <1>6 DEF After, Verdict, nodes, ghost
<1>7. CASE PfListen
  BY <1>7, ListenerTruncates, LabelsAreKeys DEF PfListen, nodes, ghost
<1>8. ASSUME NEW rows \in {"few", "most"}, PfSend(rows) PROVE TravInv'
  BY <1>8, CaptureRows, LabelsAreKeys DEF PfSend, Goto, nodes, ghost
<1>9. ASSUME NEW rows \in {"few", "most"}, PfUntagged(rows) PROVE TravInv'
  BY <1>9 DEF PfUntagged, Goto, nodes, ghost
<1>10. CASE PfCount
  BY <1>10 DEF PfCount, Goto, nodes, ghost, Open
<1>11. CASE ApplyQosPC1
  BY <1>11 DEF ApplyQosPC1, ApplyQos, Goto, AbortTrapped, nodes, ghost
<1>12. CASE ApplyQosPC2
  BY <1>12 DEF ApplyQosPC2, ApplyQos, Goto, AbortTrapped, nodes, ghost
<1>13. CASE Listen
  BY <1>13 DEF Listen, StartListener, nodes, ghost
<1>14. ASSUME NEW res \in LoadResults, Load(res) PROVE TravInv'
  BY <1>14 DEF Load, nodes, ghost
<1>15. ASSUME NEW res \in StreamResults, Stream(res) PROVE TravInv'
  BY <1>15 DEF Stream, nodes, ghost
<1>16. CASE Join
  BY <1>16 DEF Join, Goto, nodes, ghost
<1>17. CASE Fetch
  BY <1>17 DEF Fetch, Goto, nodes, ghost
<1>18. CASE Remove
  BY <1>18 DEF Remove, Goto, nodes, ghost, TypeOK, Labels, Pf
<1>19. CASE Shortfall
  BY <1>19 DEF Shortfall, Goto, nodes, ghost
<1>20. CASE WriteMeta
  BY <1>20 DEF WriteMeta, Goto, AbortTrapped, nodes, ghost
<1>21. CASE Mark
  BY <1>21, AdvanceType DEF Mark, nodes, ghost
<1>22. CASE RestorePC1
  BY <1>22 DEF RestorePC1, Goto, nodes, ghost
<1>23. CASE RestorePC2
  BY <1>23 DEF RestorePC2, Goto, nodes, ghost
<1>24. ASSUME NEW x \in listeners, ListenerEnds(x) PROVE TravInv'
  BY <1>24 DEF ListenerEnds, nodes, ghost
<1>25. CASE SessionDrops
  BY <1>25 DEF SessionDrops, nodes, ghost
<1>26. CASE PtpRestarts
  BY <1>26 DEF PtpRestarts, script, nodes, ghost
<1>27. CASE TxCut
  BY <1>27, CaptureRows, LabelsAreKeys DEF TxCut, nodes, ghost
<1>28. CASE CtrlC
  BY <1>28 DEF CtrlC, nodes, ghost, StoppedPcs
<1>29. CASE Killed
  BY <1>29 DEF Killed, nodes, ghost
<1>30. CASE UNCHANGED vars
  BY <1>30 DEF vars, script, nodes, ghost
<1> QED
  BY <1>1, <1>2, <1>3, <1>4, <1>5, <1>6, <1>7, <1>8, <1>9, <1>10, <1>11, <1>12, <1>13, <1>14, <1>15, <1>16, <1>17, <1>18, <1>19, <1>20, <1>21, <1>22, <1>23, <1>24, <1>25, <1>26, <1>27, <1>28, <1>29, <1>30
     DEF Next, ScriptStep, Listeners

\* The sweep starts only when tagged frames reached PC2 in this run, unless the
\* preflight's tsn_rx failed before it opened its output, whatever the faults.
THEOREM PreflightOfThisRun == Spec => []PreflightHonest
<1>1. Init => TravInv
  BY DEF Init, TravInv, TrappedPcs, PointPcs
<1>2. TypeOK /\ Running /\ TravInv /\ [Next]_vars => TravInv'
  BY TravStep
<1>3. TravInv => PreflightHonest
  BY DEF TravInv, PreflightHonest
<1> QED  BY <1>1, <1>2, <1>3, TypeCorrect, PTL DEF Spec

-----------------------------------------------------------------------------
(* Whose data an rx.csv holds.                                             *)

\* Listeners of earlier runs were at work when this run started.
LeftoverInv == \A x \in listeners : x[2] = run \/ <<x[1], "leftover">> \in mishaps

LEMMA LeftoverStep == LeftoverInv /\ [Next]_vars => LeftoverInv'
<1> SUFFICES ASSUME LeftoverInv, [Next]_vars PROVE LeftoverInv'
  OBVIOUS
<1>1. CASE Start
  BY <1>1 DEF Start, nodes, LeftoverInv
<1>2. CASE ~Start
  BY <1>2, NoForgetting DEF LeftoverInv
<1> QED  BY <1>1, <1>2

\* From the start of the listener to scp, the file at the point's name is
\* accounted for.
StaleInv ==
  /\ pc \in {"load", "stream", "join", "fetch"} => Accounted(files[cur], cur)
  /\ RxNotStale

LEMMA StaleStep ==
  TypeOK /\ Running /\ LeftoverInv /\ StaleInv /\ [Next]_vars => StaleInv'
<1> SUFFICES ASSUME TypeOK, Running, LeftoverInv, StaleInv, [Next]_vars
             PROVE  StaleInv'
  OBVIOUS
<1> USE DEF StaleInv, RxNotStale, Accounted, ghost
<1>1. CASE Start
  BY <1>1 DEF Start, nodes, outdir, NoRx, NoFile, StoppedPcs
<1>2. ASSUME NEW o \in Observations, Recover(o) PROVE StaleInv'
  BY <1>2 DEF Recover, nodes, outdir, CheckPcs, GatePcs
<1>3. ASSUME NEW o \in Observations, Gate(o) PROVE StaleInv'
  BY <1>3 DEF Gate, Verdict, nodes, outdir
<1>4. ASSUME NEW o \in Observations, Check(o) PROVE StaleInv'
  BY <1>4 DEF Check, Verdict, nodes, outdir
<1>5. ASSUME NEW o \in Observations, Recheck(o) PROVE StaleInv'
  BY <1>5, AdvanceType DEF Recheck, Verdict, nodes, outdir
<1>6. ASSUME NEW o \in Observations, After(o) PROVE StaleInv'
  BY <1>6 DEF After, Verdict, nodes, outdir
<1>7. CASE PfListen
  BY <1>7 DEF PfListen, StartListener, nodes, outdir
<1>8. ASSUME NEW rows \in {"few", "most"}, PfSend(rows) PROVE StaleInv'
  BY <1>8 DEF PfSend, Goto, nodes, outdir, TypeOK
<1>9. ASSUME NEW rows \in {"few", "most"}, PfUntagged(rows) PROVE StaleInv'
  BY <1>9 DEF PfUntagged, Goto, nodes, outdir
<1>10. CASE PfCount
  BY <1>10 DEF PfCount, Goto, nodes, outdir
<1>11. CASE ApplyQosPC1
  BY <1>11 DEF ApplyQosPC1, ApplyQos, Goto, AbortTrapped, nodes, outdir
<1>12. CASE ApplyQosPC2
  BY <1>12 DEF ApplyQosPC2, ApplyQos, Goto, AbortTrapped, nodes, outdir
<1>13. CASE Listen
  <2>1. /\ pc' = "load" /\ UNCHANGED <<run, cur, rx>> /\ cur \in Keys
        /\ StartListener(cur) /\ mishaps \subseteq mishaps'
    BY <1>13, LabelsAreKeys DEF Listen, StartListener, outdir, TypeOK
  <2>2. Accounted(files[cur], cur)'
    BY <2>1, ListenerTruncates DEF LeftoverInv
  <2> QED  BY <2>1, <2>2
<1>14. ASSUME NEW res \in LoadResults, Load(res) PROVE StaleInv'
  BY <1>14 DEF Load, nodes, outdir
<1>15. ASSUME NEW res \in StreamResults, Stream(res) PROVE StaleInv'
  BY <1>15, CaptureType, LabelsAreKeys DEF TypeOK, Stream, nodes, outdir
<1>16. CASE Join
  BY <1>16 DEF Join, Goto, nodes, outdir
<1>17. CASE Fetch
  BY <1>17 DEF Fetch, Goto, nodes, outdir, TypeOK
<1>18. CASE Remove
  BY <1>18 DEF Remove, Goto, nodes, outdir
<1>19. CASE Shortfall
  BY <1>19 DEF Shortfall, Goto, nodes, outdir
<1>20. CASE WriteMeta
  BY <1>20 DEF WriteMeta, Goto, AbortTrapped, nodes, outdir
<1>21. CASE Mark
  BY <1>21, AdvanceType DEF Mark, nodes, outdir
<1>22. CASE RestorePC1
  BY <1>22 DEF RestorePC1, Goto, nodes, outdir
<1>23. CASE RestorePC2
  BY <1>23 DEF RestorePC2, Goto, nodes, outdir
<1>24. ASSUME NEW x \in listeners, ListenerEnds(x) PROVE StaleInv'
  BY <1>24 DEF ListenerEnds, nodes, outdir
<1>25. CASE SessionDrops
  BY <1>25 DEF SessionDrops, nodes, outdir
<1>26. CASE PtpRestarts
  BY <1>26 DEF PtpRestarts, script, nodes, outdir
<1>27. CASE TxCut
  BY <1>27, CaptureType, LabelsAreKeys DEF TxCut, nodes, outdir, TypeOK
<1>28. CASE CtrlC
  BY <1>28 DEF CtrlC, nodes, outdir, StoppedPcs
<1>29. CASE Killed
  BY <1>29 DEF Killed, nodes, outdir
<1>30. CASE UNCHANGED vars
  BY <1>30 DEF vars, script, nodes, outdir
<1> QED
  BY <1>1, <1>2, <1>3, <1>4, <1>5, <1>6, <1>7, <1>8, <1>9, <1>10, <1>11, <1>12, <1>13, <1>14, <1>15, <1>16, <1>17, <1>18, <1>19, <1>20, <1>21, <1>22, <1>23, <1>24, <1>25, <1>26, <1>27, <1>28, <1>29, <1>30
     DEF Next, ScriptStep, Listeners

\* What a run collects as the rx.csv of a point was written by its own listener
\* alone, but for the two causes that Accounted names, over every sweep and set
\* of faults and however the earlier runs ended.
THEOREM RxOfThisRun == Spec => []RxNotStale
<1>1. Init => LeftoverInv /\ StaleInv
  BY DEF Init, LeftoverInv, StaleInv, RxNotStale, NoRx, NoFile
<1>2. LeftoverInv /\ [Next]_vars => LeftoverInv'
  BY LeftoverStep
<1>3. TypeOK /\ Running /\ LeftoverInv /\ StaleInv /\ [Next]_vars => StaleInv'
  BY StaleStep
<1>4. StaleInv => RxNotStale
  BY DEF StaleInv
<1> QED  BY <1>1, <1>2, <1>3, <1>4, TypeCorrect, PTL DEF Spec

-----------------------------------------------------------------------------
(* The campaign implements the ledger.                                     *)

\* The points decided so far are those before the current one, except that
\* the current one is decided too while it is marked.
DecideInv ==
  /\ measured \cap skipped = {}
  /\ pc \in GatePcs \cup PreflightPcs =>
       measured = {} /\ skipped = {} /\ cur = First
  /\ pc \in (PointPcs \ {"mark"}) \cup {"qosPC1", "qosPC2"} =>
       \A k \in Labels : k \in measured \cup skipped <=> Earlier(k, cur)
  /\ pc = "mark" =>
       \A k \in Labels : k \in measured \cup skipped <=> Earlier(k, cur) \/ k = cur
  /\ pc \in {"restorePC1", "restorePC2", "finished"} =>
       \A k \in Labels : k \in measured \cup skipped

\* Moving on from a point that has just been decided.
LEMMA AdvanceDecides ==
  ASSUME TypeOK, Advance, NEW D,
         \A k \in Labels : k \in D <=> Earlier(k, cur) \/ k = cur
  PROVE  /\ pc' \in {"qosPC1", "check"} => \A k \in Labels : k \in D <=> Earlier(k, cur')
         /\ pc' = "restorePC1" => \A k \in Labels : k \in D
         /\ pc' \in {"restorePC1", "qosPC1", "check"}
<1>1. cur' = NextLabel(cur) /\ cur \in Labels /\ cur' \in Labels
  BY LabelsClosed DEF TypeOK, Advance
<1>2. CASE cur' = cur
  BY <1>1, <1>2, NextIsSuccessor DEF Advance
<1>3. CASE cur' # cur
  BY <1>1, <1>3, NextIsSuccessor DEF Advance
<1> QED  BY <1>2, <1>3

LEMMA DecideStep == TypeOK /\ DecideInv /\ [Next]_vars => DecideInv'
<1> SUFFICES ASSUME TypeOK, DecideInv, [Next]_vars PROVE DecideInv'
  OBVIOUS
<1> USE DEF DecideInv, GatePcs, PreflightPcs, PointPcs
<1>1. CASE Start
  BY <1>1 DEF Start, outdir
<1>2. ASSUME NEW o \in Observations, Recover(o) PROVE DecideInv'
  BY <1>2 DEF Recover, outdir, CheckPcs
<1>3. ASSUME NEW o \in Observations, Gate(o) PROVE DecideInv'
  BY <1>3 DEF Gate, Verdict, outdir
<1>4. ASSUME NEW o \in Observations, Check(o) PROVE DecideInv'
  BY <1>4 DEF Check, Verdict, outdir
<1>5. ASSUME NEW o \in Observations, Recheck(o) PROVE DecideInv'
  <2>1. CASE pc' = "listen" /\ UNCHANGED <<cur, measured, skipped>>
    BY <1>5, <2>1 DEF Recheck, Verdict
  <2>2. CASE Advance /\ skipped' = skipped \cup {cur} /\ UNCHANGED measured
    <3>1. pc = "recheck"
      BY <1>5 DEF Recheck, Verdict
    <3>2. \A k \in Labels : k \in measured' \cup skipped' <=> Earlier(k, cur) \/ k = cur
      BY <2>2, <3>1
    <3>3. measured' \cap skipped' = {}
      BY <2>2, <3>1, FirstIsFirst DEF TypeOK
    <3>4. /\ pc' \in {"qosPC1", "check"} =>
               \A k \in Labels : k \in measured' \cup skipped' <=> Earlier(k, cur')
          /\ pc' = "restorePC1" => \A k \in Labels : k \in measured' \cup skipped'
          /\ pc' \in {"restorePC1", "qosPC1", "check"}
      BY <2>2, <3>2, AdvanceDecides
    <3> QED  BY <3>3, <3>4
  <2> QED  BY <1>5, <2>1, <2>2 DEF Recheck
<1>6. ASSUME NEW o \in Observations, After(o) PROVE DecideInv'
  BY <1>6 DEF After, Verdict, outdir
<1>7. CASE PfListen
  BY <1>7 DEF PfListen, outdir
<1>8. ASSUME NEW rows \in {"few", "most"}, PfSend(rows) PROVE DecideInv'
  BY <1>8 DEF PfSend, Goto, outdir
<1>9. ASSUME NEW rows \in {"few", "most"}, PfUntagged(rows) PROVE DecideInv'
  BY <1>9 DEF PfUntagged, Goto, outdir
<1>10. CASE PfCount
  BY <1>10, FirstIsFirst DEF PfCount, Goto, outdir
<1>11. CASE ApplyQosPC1
  BY <1>11 DEF ApplyQosPC1, ApplyQos, Goto, AbortTrapped, outdir
<1>12. CASE ApplyQosPC2
  BY <1>12 DEF ApplyQosPC2, ApplyQos, Goto, AbortTrapped, outdir
<1>13. CASE Listen
  BY <1>13 DEF Listen, outdir
<1>14. ASSUME NEW res \in LoadResults, Load(res) PROVE DecideInv'
  BY <1>14 DEF Load, outdir
<1>15. ASSUME NEW res \in StreamResults, Stream(res) PROVE DecideInv'
  BY <1>15 DEF Stream, outdir
<1>16. CASE Join
  BY <1>16 DEF Join, Goto, outdir
<1>17. CASE Fetch
  BY <1>17 DEF Fetch, Goto, outdir
<1>18. CASE Remove
  BY <1>18 DEF Remove, Goto, outdir
<1>19. CASE Shortfall
  BY <1>19 DEF Shortfall, Goto, outdir
<1>20. CASE WriteMeta
  BY <1>20, FirstIsFirst DEF WriteMeta, Goto, AbortTrapped, outdir, TypeOK
<1>21. CASE Mark
  BY <1>21, AdvanceDecides DEF Mark, outdir
<1>22. CASE RestorePC1
  BY <1>22 DEF RestorePC1, Goto, outdir
<1>23. CASE RestorePC2
  BY <1>23 DEF RestorePC2, Goto, outdir
<1>24. ASSUME NEW x \in listeners, ListenerEnds(x) PROVE DecideInv'
  BY <1>24 DEF ListenerEnds, outdir
<1>25. CASE SessionDrops
  BY <1>25 DEF SessionDrops, outdir
<1>26. CASE PtpRestarts
  BY <1>26 DEF PtpRestarts, script, outdir
<1>27. CASE TxCut
  BY <1>27 DEF TxCut, outdir
<1>28. CASE CtrlC
  BY <1>28 DEF CtrlC, outdir, StoppedPcs
<1>29. CASE Killed
  BY <1>29 DEF Killed, outdir
<1>30. CASE UNCHANGED vars
  BY <1>30 DEF vars, script, outdir
<1> QED
  BY <1>1, <1>2, <1>3, <1>4, <1>5, <1>6, <1>7, <1>8, <1>9, <1>10, <1>11, <1>12, <1>13, <1>14, <1>15, <1>16, <1>17, <1>18, <1>19, <1>20, <1>21, <1>22, <1>23, <1>24, <1>25, <1>26, <1>27, <1>28, <1>29, <1>30
     DEF Next, ScriptStep, Listeners

LEMMA DecideInit == Init => DecideInv
BY DEF Init, DecideInv, GatePcs, PreflightPcs, PointPcs

LEMMA LedgerInit == Init => Ledger!Init
BY DEF Init, Ledger!Init, StatusOf

\* Only skipping a point, writing its meta.json and starting a run change the
\* ledger: a decision in sweep order, or an empty ledger.
LEMMA LedgerStep ==
  TypeOK /\ DecideInv /\ [Next]_vars
    => [Ledger!Next]_([l \in Labels |-> StatusOf(l)])
<1> SUFFICES ASSUME TypeOK, DecideInv, [Next]_vars
             PROVE  \/ Ledger!Next
                    \/ UNCHANGED [l \in Labels |-> StatusOf(l)]
  OBVIOUS
<1>1. CASE UNCHANGED <<measured, skipped>>
  BY <1>1 DEF StatusOf
<1>2. CASE measured' = {} /\ skipped' = {}
  BY <1>2 DEF StatusOf, Ledger!Next, Ledger!Reopen
<1>3. ASSUME NEW s \in {"measured", "skipped"},
             pc \in PointPcs \ {"mark"},
             /\ measured' = IF s = "measured" THEN measured \cup {cur} ELSE measured
             /\ skipped' = IF s = "skipped" THEN skipped \cup {cur} ELSE skipped
      PROVE  Ledger!Next
  <2>1. /\ cur \in Labels /\ cur \notin measured \cup skipped
        /\ \A k \in Labels : Earlier(k, cur) => k \in measured \cup skipped
    BY <1>3, FirstIsFirst DEF TypeOK, DecideInv
  <2>2. Ledger!Decide(cur, s)
    BY <1>3, <2>1 DEF Ledger!Decide, StatusOf
  <2> QED  BY <2>1, <2>2, <1>3 DEF Ledger!Next, Ledger!Status
<1>4. ASSUME NEW o \in Observations, Recheck(o)
      PROVE  \/ UNCHANGED <<measured, skipped>>
             \/ Ledger!Next
  BY <1>4, <1>3 DEF Recheck, Verdict, PointPcs
<1>5. CASE WriteMeta
  BY <1>5, <1>1, <1>3 DEF WriteMeta, PointPcs
<1>6. CASE Start
  BY <1>6, <1>2 DEF Start
<1> QED
  BY <1>1, <1>4, <1>5, <1>6
     DEF Next, ScriptStep, Listeners, Recover, Gate, Check, After, PfListen, PfSend,
         PfUntagged, PfCount, ApplyQosPC1, ApplyQosPC2, ApplyQos, Listen, Load, Stream,
         Join, Fetch, Remove, Shortfall, Mark, RestorePC1, RestorePC2, ListenerEnds,
         SessionDrops, PtpRestarts, TxCut, CtrlC, Killed, vars, outdir

\* The campaign driver implements CampaignLedger: each point of a run is
\* decided once, after every point before it in the sweep, and stays decided.
THEOREM ImplementsLedger == Spec => SweepsInOrder
<1>1. Init => Ledger!Init /\ DecideInv
  BY LedgerInit, DecideInit
<1>2. TypeOK /\ DecideInv /\ [Next]_vars => DecideInv'
  BY DecideStep
<1>3. TypeOK /\ DecideInv /\ [Next]_vars
        => [Ledger!Next]_([l \in Labels |-> StatusOf(l)])
  BY LedgerStep
<1> QED  BY <1>1, <1>2, <1>3, TypeCorrect, PTL DEF Spec, SweepsInOrder, Ledger!Spec
=============================================================================
