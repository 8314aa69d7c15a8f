-------------------------- MODULE CampaignRunProofs --------------------------
(***************************************************************************)
(* Theorems about what a run of Campaign measures and leaves behind: the   *)
(* NIC filter of the listener, the rx.csv it collects, and the marks of a  *)
(* finished campaign.                                                      *)
(***************************************************************************)
EXTENDS CampaignProofs

-----------------------------------------------------------------------------
(* The listener has the filter it needs.                                   *)

\* WideFilter is not inductive: the listener is started one step earlier.
WideInv == pc \in {"load", "stream"} /\ session => filter = "all"

\* A tsn_rx that lives has widened the filter.
LEMMA ListenerWidens ==
  ASSUME NEW k \in Keys, StartListener(k)
  PROVE  session' => filter' = "all"
BY DEF StartListener

LEMMA WideStep == WideInv /\ TypeOK /\ [Next]_vars /\ "ptp4l" \notin Faults => WideInv'
<1> SUFFICES ASSUME WideInv, TypeOK, [Next]_vars, "ptp4l" \notin Faults PROVE WideInv'
  OBVIOUS
<1> USE DEF WideInv
<1>1. CASE Start
  BY <1>1 DEF Start, nodes, StoppedPcs
<1>2. ASSUME NEW o \in Observations, Recover(o) PROVE WideInv'
  BY <1>2 DEF Recover, nodes, CheckPcs, GatePcs
<1>3. ASSUME NEW o \in Observations, Gate(o) PROVE WideInv'
  BY <1>3 DEF Gate, Verdict, nodes
<1>4. ASSUME NEW o \in Observations, Check(o) PROVE WideInv'
  BY <1>4 DEF Check, Verdict, nodes
<1>5. ASSUME NEW o \in Observations, Recheck(o) PROVE WideInv'
  BY <1>5, AdvanceType DEF Recheck, Verdict, nodes
<1>6. ASSUME NEW o \in Observations, After(o) PROVE WideInv'
  BY <1>6 DEF After, Verdict, nodes
<1>7. CASE PfListen
  BY <1>7 DEF PfListen, nodes
<1>8. ASSUME NEW rows \in {"few", "most"}, PfSend(rows) PROVE WideInv'
  BY <1>8 DEF PfSend, Goto, nodes
<1>9. ASSUME NEW rows \in {"few", "most"}, PfUntagged(rows) PROVE WideInv'
  BY <1>9 DEF PfUntagged, Goto, nodes
<1>10. CASE PfCount
  BY <1>10 DEF PfCount, Goto, nodes
<1>11. CASE ApplyQosPC1
  BY <1>11 DEF ApplyQosPC1, ApplyQos, Goto, AbortTrapped, nodes
<1>12. CASE ApplyQosPC2
  BY <1>12 DEF ApplyQosPC2, ApplyQos, Goto, AbortTrapped, nodes
<1>13. CASE Listen
  BY <1>13, ListenerWidens, LabelsAreKeys DEF Listen, nodes, TypeOK
<1>14. ASSUME NEW res \in LoadResults, Load(res) PROVE WideInv'
  BY <1>14 DEF Load, nodes
<1>15. ASSUME NEW res \in StreamResults, Stream(res) PROVE WideInv'
  BY <1>15 DEF Stream, nodes
<1>16. CASE Join
  BY <1>16 DEF Join, Goto, nodes
<1>17. CASE Fetch
  BY <1>17 DEF Fetch, Goto, nodes
<1>18. CASE Remove
  BY <1>18 DEF Remove, Goto, nodes
<1>19. CASE Shortfall
  BY <1>19 DEF Shortfall, Goto, nodes
<1>20. CASE WriteMeta
  BY <1>20 DEF WriteMeta, Goto, AbortTrapped, nodes
<1>21. CASE Mark
  BY <1>21, AdvanceType DEF Mark, nodes
<1>22. CASE RestorePC1
  BY <1>22 DEF RestorePC1, Goto, nodes
<1>23. CASE RestorePC2
  BY <1>23 DEF RestorePC2, Goto, nodes
<1>24. ASSUME NEW x \in listeners, ListenerEnds(x) PROVE WideInv'
  BY <1>24 DEF ListenerEnds, nodes
<1>25. CASE SessionDrops
  BY <1>25 DEF SessionDrops, nodes
<1>26. CASE PtpRestarts
  BY <1>26 DEF PtpRestarts, script, nodes
<1>27. CASE TxCut
  BY <1>27 DEF TxCut, nodes
<1>28. CASE CtrlC
  BY <1>28 DEF CtrlC, nodes
<1>29. CASE Killed
  BY <1>29 DEF Killed, nodes
<1>30. CASE UNCHANGED vars
  BY <1>30 DEF vars, script, nodes
<1> QED
  BY <1>1, <1>2, <1>3, <1>4, <1>5, <1>6, <1>7, <1>8, <1>9, <1>10, <1>11, <1>12, <1>13, <1>14, <1>15, <1>16,
     <1>17, <1>18, <1>19, <1>20, <1>21, <1>22, <1>23, <1>24, <1>25, <1>26, <1>27, <1>28, <1>29, <1>30
     DEF Next, ScriptStep, Listeners

\* The NIC has the filter that the listener needs when the stream is sent, over
\* every sweep: check_ptp restarts ptp4l, which narrows it, only before the
\* listener starts or after it ended.  A ptp4l that systemd restarts breaks this.
THEOREM WideWhenSent ==
  ASSUME "ptp4l" \notin Faults PROVE Spec => []WideFilter
<1>1. Init => WideInv
  BY DEF Init, WideInv
<1>2. TypeOK /\ WideInv /\ [Next]_vars => WideInv'
  BY WideStep
<1>3. WideInv => WideFilter
  BY DEF WideInv, WideFilter
<1> QED  BY <1>1, <1>2, <1>3, TypeCorrect, PTL DEF Spec

-----------------------------------------------------------------------------
(* What a run collects is complete.                                        *)

\* Where the listener of the current point has been started, or passed over.
StartedPcs == {"load", "stream", "join", "fetch", "remove", "after", "shortfall",
               "meta", "mark", "restorePC1", "restorePC2"}
ListenPcs == {"load", "stream", "join", "fetch"}

\* Listeners are of runs that were started; those of this run are of points
\* that it has reached.
ReachedInv ==
  /\ \A x \in listeners : x[2] <= run
  /\ pc \notin StoppedPcs =>
       \A l \in Labels : <<l, run>> \in listeners =>
         Earlier(l, cur) \/ (l = cur /\ pc \in StartedPcs)

\* A step that starts no listener and does not go back.
LEMMA ReachedKept ==
  ASSUME ReachedInv, run' = run, cur' = cur, listeners' \subseteq listeners,
         \/ pc' \in StoppedPcs
         \/ pc \notin StoppedPcs /\ (pc \in StartedPcs => pc' \in StartedPcs)
  PROVE  ReachedInv'
BY DEF ReachedInv

\* Moving on leaves the current point behind.
LEMMA ReachedAdvance ==
  ASSUME TypeOK, ReachedInv, Advance, pc \notin StoppedPcs, UNCHANGED <<run, listeners>>
  PROVE  ReachedInv'
<1>1. cur' = NextLabel(cur) /\ cur \in Labels
  BY DEF TypeOK, Advance
<1>2. ASSUME NEW l \in Labels, Earlier(l, cur) \/ l = cur
      PROVE  Earlier(l, cur') \/ (l = cur' /\ pc' \in StartedPcs)
  <2>1. CASE cur' = cur
    <3>1. pc' = "restorePC1"
      BY <2>1 DEF Advance
    <3> QED
      BY <1>2, <2>1, <3>1 DEF StartedPcs
  <2>2. CASE cur' # cur
    BY <1>1, <1>2, <2>2, NextIsSuccessor
  <2> QED
    BY <2>1, <2>2
<1> QED
  BY <1>2 DEF ReachedInv

\* A listener starts on the preflight's file or on that of the current point.
LEMMA ReachedListen ==
  ASSUME TypeOK, ReachedInv, NEW k \in Keys, StartListener(k),
         run' = run, cur' = cur, pc \notin StoppedPcs \cup StartedPcs,
         k = Pf \/ (k = cur /\ pc' \in StartedPcs)
  PROVE  ReachedInv'
<1>1. run \in Nat
  BY ParamsAssumption DEF TypeOK
<1>2. listeners' \subseteq listeners \cup {<<k, run>>}
  BY DEF StartListener
<1>3. Pf \notin Labels
  BY DEF Pf, Labels
<1>4. \A x \in listeners' : x[2] <= run'
  BY <1>1, <1>2 DEF ReachedInv
<1>5. ASSUME NEW l \in Labels, <<l, run'>> \in listeners'
      PROVE  Earlier(l, cur') \/ (l = cur' /\ pc' \in StartedPcs)
  BY <1>2, <1>3, <1>5 DEF ReachedInv
<1> QED
  BY <1>4, <1>5 DEF ReachedInv

LEMMA ReachedStep == TypeOK /\ Running /\ ReachedInv /\ [Next]_vars => ReachedInv'
<1> SUFFICES ASSUME TypeOK, Running, ReachedInv, [Next]_vars PROVE ReachedInv'
  OBVIOUS
<1> USE DEF StartedPcs, StoppedPcs
<1>1. CASE Start
  <2>1. run' = run + 1 /\ run \in Nat /\ UNCHANGED listeners
    BY <1>1, ParamsAssumption DEF Start, nodes, TypeOK
  <2>2. \A x \in listeners : x[2] \in Nat
    BY DEF TypeOK
  <2>3. \A x \in listeners' : x[2] < run'
    BY <2>1, <2>2 DEF ReachedInv
  <2>4. \A l \in Labels : <<l, run'>> \notin listeners'
    BY <2>1, <2>2, <2>3
  <2> QED
    BY <2>1, <2>2, <2>3, <2>4 DEF ReachedInv
<1>2. ASSUME NEW o \in Observations, Recover(o) PROVE ReachedInv'
  BY <1>2, ReachedKept DEF Recover, nodes, CheckPcs, GatePcs
<1>3. ASSUME NEW o \in Observations, Gate(o) PROVE ReachedInv'
  BY <1>3, ReachedKept DEF Gate, Verdict, nodes
<1>4. ASSUME NEW o \in Observations, Check(o) PROVE ReachedInv'
  BY <1>4, ReachedKept DEF Check, Verdict, nodes
<1>5. ASSUME NEW o \in Observations, Recheck(o) PROVE ReachedInv'
  <2>1. CASE Advance
    BY <1>5, <2>1, ReachedAdvance DEF Recheck, Verdict, nodes
  <2>2. CASE pc' = "listen" /\ UNCHANGED cur
    BY <1>5, <2>2, ReachedKept DEF Recheck, Verdict, nodes
  <2> QED
    BY <1>5, <2>1, <2>2 DEF Recheck
<1>6. ASSUME NEW o \in Observations, After(o) PROVE ReachedInv'
  BY <1>6, ReachedKept DEF After, Verdict, nodes
<1>7. CASE PfListen
  BY <1>7, ReachedListen, LabelsAreKeys DEF PfListen
<1>8. ASSUME NEW rows \in {"few", "most"}, PfSend(rows) PROVE ReachedInv'
  BY <1>8, ReachedKept DEF PfSend, Goto
<1>9. ASSUME NEW rows \in {"few", "most"}, PfUntagged(rows) PROVE ReachedInv'
  BY <1>9, ReachedKept DEF PfUntagged, Goto
<1>10. CASE PfCount
  BY <1>10, ReachedKept DEF PfCount, Goto, nodes
<1>11. CASE ApplyQosPC1
  BY <1>11, ReachedKept DEF ApplyQosPC1, ApplyQos, Goto, AbortTrapped, nodes, Cleanup
<1>12. CASE ApplyQosPC2
  BY <1>12, ReachedKept DEF ApplyQosPC2, ApplyQos, Goto, AbortTrapped, nodes, Cleanup
<1>13. CASE Listen
  BY <1>13, ReachedListen, LabelsAreKeys DEF Listen, TypeOK
<1>14. ASSUME NEW res \in LoadResults, Load(res) PROVE ReachedInv'
  BY <1>14, ReachedKept DEF Load, nodes
<1>15. ASSUME NEW res \in StreamResults, Stream(res) PROVE ReachedInv'
  BY <1>15, ReachedKept DEF Stream
<1>16. CASE Join
  BY <1>16, ReachedKept DEF Join, Goto, nodes
<1>17. CASE Fetch
  BY <1>17, ReachedKept DEF Fetch, Goto, nodes
<1>18. CASE Remove
  BY <1>18, ReachedKept DEF Remove, Goto
<1>19. CASE Shortfall
  BY <1>19, ReachedKept DEF Shortfall, Goto, nodes
<1>20. CASE WriteMeta
  BY <1>20, ReachedKept DEF WriteMeta, Goto, AbortTrapped, nodes, Cleanup
<1>21. CASE Mark
  BY <1>21, ReachedAdvance DEF Mark, nodes
<1>22. CASE RestorePC1
  BY <1>22, ReachedKept DEF RestorePC1, Goto, nodes
<1>23. CASE RestorePC2
  BY <1>23, ReachedKept DEF RestorePC2, Goto, nodes, Cleanup
<1>24. ASSUME NEW x \in listeners, ListenerEnds(x) PROVE ReachedInv'
  BY <1>24, ReachedKept DEF ListenerEnds, nodes
<1>25. CASE SessionDrops
  BY <1>25, ReachedKept DEF SessionDrops, nodes
<1>26. CASE PtpRestarts
  BY <1>26, ReachedKept DEF PtpRestarts, script, nodes
<1>27. CASE TxCut
  BY <1>27, ReachedKept DEF TxCut
<1>28. CASE CtrlC
  BY <1>28, ReachedKept DEF CtrlC, nodes, Cleanup
<1>29. CASE Killed
  BY <1>29, ReachedKept DEF Killed, nodes
<1>30. CASE UNCHANGED vars
  BY <1>30, ReachedKept DEF vars, script, nodes
<1> QED
  BY <1>1, <1>2, <1>3, <1>4, <1>5, <1>6, <1>7, <1>8, <1>9, <1>10, <1>11, <1>12, <1>13, <1>14, <1>15, <1>16,
     <1>17, <1>18, <1>19, <1>20, <1>21, <1>22, <1>23, <1>24, <1>25, <1>26, <1>27, <1>28, <1>29, <1>30
     DEF Next, ScriptStep, Listeners

\* From the start of a listener to scp, the ssh session waits for it, unless it
\* has dropped.
CompleteInv ==
  /\ pc \in ListenPcs /\ <<cur, run>> \in listeners =>
       session \/ <<cur, "dropped">> \in mishaps
  /\ pc = "fetch" /\ <<cur, run>> \in listeners => <<cur, "dropped">> \in mishaps
  /\ RxComplete

\* A step elsewhere that collects nothing.
LEMMA CompleteElsewhere ==
  ASSUME CompleteInv, pc' \notin ListenPcs, UNCHANGED rx, mishaps \subseteq mishaps'
  PROVE  CompleteInv'
BY DEF CompleteInv, ListenPcs, RxComplete

\* A step between listener and scp at which no session ends.
LEMMA CompleteKept ==
  ASSUME CompleteInv, pc \in ListenPcs, pc' # "fetch",
         listeners' \subseteq listeners, UNCHANGED <<run, cur, rx>>,
         mishaps \subseteq mishaps',
         <<cur, run>> \in listeners' => session' = session \/ <<cur, "dropped">> \in mishaps'
  PROVE  CompleteInv'
BY DEF CompleteInv, ListenPcs, RxComplete

LEMMA CompleteStep ==
  TypeOK /\ Running /\ ReachedInv /\ LeftoverInv /\ CompleteInv /\ [Next]_vars
    => CompleteInv'
<1> SUFFICES ASSUME TypeOK, Running, ReachedInv, LeftoverInv, CompleteInv, [Next]_vars
             PROVE  CompleteInv'
  OBVIOUS
<1> USE DEF ListenPcs, ghost
<1>1. CASE Start
  BY <1>1 DEF Start, CompleteInv, RxComplete, NoRx
<1>2. ASSUME NEW o \in Observations, Recover(o) PROVE CompleteInv'
  BY <1>2, CompleteElsewhere DEF Recover, outdir, CheckPcs, GatePcs
<1>3. ASSUME NEW o \in Observations, Gate(o) PROVE CompleteInv'
  BY <1>3, CompleteElsewhere DEF Gate, Verdict, outdir
<1>4. ASSUME NEW o \in Observations, Check(o) PROVE CompleteInv'
  BY <1>4, CompleteElsewhere DEF Check, Verdict, outdir
<1>5. ASSUME NEW o \in Observations, Recheck(o) PROVE CompleteInv'
  BY <1>5, AdvanceType, CompleteElsewhere DEF Recheck, Verdict, outdir
<1>6. ASSUME NEW o \in Observations, After(o) PROVE CompleteInv'
  BY <1>6, CompleteElsewhere DEF After, Verdict, outdir
<1>7. CASE PfListen
  BY <1>7, CompleteElsewhere DEF PfListen, StartListener, outdir
<1>8. ASSUME NEW rows \in {"few", "most"}, PfSend(rows) PROVE CompleteInv'
  BY <1>8, CompleteElsewhere DEF PfSend, Goto, outdir
<1>9. ASSUME NEW rows \in {"few", "most"}, PfUntagged(rows) PROVE CompleteInv'
  BY <1>9, CompleteElsewhere DEF PfUntagged, Goto, outdir
<1>10. CASE PfCount
  BY <1>10, CompleteElsewhere DEF PfCount, Goto, outdir
<1>11. CASE ApplyQosPC1
  BY <1>11, CompleteElsewhere DEF ApplyQosPC1, ApplyQos, Goto, AbortTrapped, outdir
<1>12. CASE ApplyQosPC2
  BY <1>12, CompleteElsewhere DEF ApplyQosPC2, ApplyQos, Goto, AbortTrapped, outdir
<1>13. CASE Listen
  <2>1. /\ pc = "listen" /\ pc' = "load" /\ UNCHANGED <<run, cur, rx>>
        /\ StartListener(cur) /\ cur \in Labels
    BY <1>13 DEF Listen, outdir, TypeOK
  <2>2. <<cur, run>> \notin listeners
    BY <2>1, FirstIsFirst DEF ReachedInv, StartedPcs, StoppedPcs
  <2>3. (<<cur, run>> \in listeners' => session') /\ mishaps \subseteq mishaps'
    BY <2>1, <2>2 DEF StartListener
  <2> QED
    BY <2>1, <2>3 DEF CompleteInv, RxComplete
<1>14. ASSUME NEW res \in LoadResults, Load(res) PROVE CompleteInv'
  BY <1>14, CompleteKept DEF Load, outdir, nodes
<1>15. ASSUME NEW res \in StreamResults, Stream(res) PROVE CompleteInv'
  BY <1>15, CompleteKept DEF Stream, outdir
<1>16. CASE Join
  BY <1>16 DEF Join, Goto, nodes, outdir, CompleteInv, RxComplete
<1>17. CASE Fetch
  <2>1. /\ pc = "fetch" /\ pc' = "remove" /\ UNCHANGED mishaps
        /\ rx' = rx \/ rx' = [rx EXCEPT ![cur] = [file |-> files[cur], closed |-> ~Open(cur)]]
    BY <1>17 DEF Fetch, Goto
  <2>2. ASSUME Open(cur)
        PROVE  <<cur, "leftover">> \in mishaps \/ <<cur, "dropped">> \in mishaps
    <3>1. PICK r \in 1 .. MaxRuns : <<cur, r>> \in listeners
      BY <2>2 DEF Open
    <3>2. CASE r = run
      BY <2>1, <3>1, <3>2 DEF CompleteInv
    <3>3. CASE r # run
      BY <3>1, <3>3 DEF LeftoverInv
    <3> QED
      BY <3>2, <3>3
  <2>3. ASSUME NEW l \in Labels
        PROVE  \/ rx'[l].closed
               \/ <<l, "leftover">> \in mishaps \/ <<l, "dropped">> \in mishaps
    <3>1. CASE rx'[l] = rx[l]
      BY <3>1 DEF CompleteInv, RxComplete
    <3>2. CASE rx'[l] # rx[l]
      <4>1. l = cur /\ rx'[l] = [file |-> files[cur], closed |-> ~Open(cur)]
        BY <2>1, <3>2 DEF TypeOK
      <4>2. rx'[l].closed = ~Open(cur)
        BY <4>1
      <4> QED
        BY <2>2, <4>1, <4>2
    <3> QED
      BY <3>1, <3>2
  <2> QED
    BY <2>1, <2>3 DEF CompleteInv, RxComplete
<1>18. CASE Remove
  BY <1>18, CompleteElsewhere DEF Remove, Goto, outdir
<1>19. CASE Shortfall
  BY <1>19, CompleteElsewhere DEF Shortfall, Goto, outdir
<1>20. CASE WriteMeta
  BY <1>20, CompleteElsewhere DEF WriteMeta, Goto, AbortTrapped, outdir
<1>21. CASE Mark
  BY <1>21, AdvanceType, CompleteElsewhere DEF Mark, outdir
<1>22. CASE RestorePC1
  BY <1>22, CompleteElsewhere DEF RestorePC1, Goto, outdir
<1>23. CASE RestorePC2
  BY <1>23, CompleteElsewhere DEF RestorePC2, Goto, outdir
<1>24. ASSUME NEW x \in listeners, ListenerEnds(x) PROVE CompleteInv'
  <2>1. /\ UNCHANGED <<pc, run, cur, rx, mishaps>> /\ listeners' \subseteq listeners
        /\ pc \in ListenPcs /\ <<cur, run>> \in listeners' => session' = session
    <3>1. pc \in ListenPcs => Current = cur
      BY DEF PreflightPcs, Current
    <3>2. listeners' = listeners \ {x}
      BY <1>24 DEF ListenerEnds
    <3>3. pc \in ListenPcs /\ x # <<cur, run>> => session' = session
      BY <1>24, <3>1 DEF ListenerEnds, TypeOK
    <3> QED
      BY <1>24, <3>2, <3>3 DEF ListenerEnds, outdir
  <2> QED
    BY <2>1 DEF CompleteInv, RxComplete
<1>25. CASE SessionDrops
  <2>1. /\ UNCHANGED <<pc, run, cur, listeners, rx>>
        /\ mishaps' = mishaps \cup {<<Current, "dropped">>}
    BY <1>25 DEF SessionDrops, nodes, outdir
  <2>2. pc \in ListenPcs => Current = cur
    BY DEF PreflightPcs, Current
  <2> QED
    BY <2>1, <2>2 DEF CompleteInv, RxComplete
<1>26. CASE PtpRestarts
  BY <1>26 DEF PtpRestarts, script, outdir, CompleteInv, RxComplete
<1>27. CASE TxCut
  <2>1. CASE pc = "pfSend"
    BY <1>27, <2>1, CompleteElsewhere DEF TxCut, outdir
  <2>2. CASE pc = "stream"
    BY <1>27, <2>2, CompleteKept DEF TxCut, outdir
  <2> QED
    BY <1>27, <2>1, <2>2 DEF TxCut
<1>28. CASE CtrlC
  BY <1>28, CompleteElsewhere DEF CtrlC, outdir, StoppedPcs
<1>29. CASE Killed
  BY <1>29, CompleteElsewhere DEF Killed, outdir, StoppedPcs
<1>30. CASE UNCHANGED vars
  BY <1>30 DEF vars, script, nodes, outdir, CompleteInv, RxComplete
<1> QED
  BY <1>1, <1>2, <1>3, <1>4, <1>5, <1>6, <1>7, <1>8, <1>9, <1>10, <1>11, <1>12, <1>13, <1>14, <1>15, <1>16,
     <1>17, <1>18, <1>19, <1>20, <1>21, <1>22, <1>23, <1>24, <1>25, <1>26, <1>27, <1>28, <1>29, <1>30
     DEF Next, ScriptStep, Listeners

\* What a run collects had been closed by all its writers when scp ran, whoever
\* they are, but for a listener that outlived its run and a dropped ssh session,
\* over every sweep and set of faults.
THEOREM CollectedWhenClosed == Spec => []RxComplete
<1>1. Init => ReachedInv /\ LeftoverInv /\ CompleteInv
  BY DEF Init, ReachedInv, LeftoverInv, CompleteInv, RxComplete, ListenPcs, StoppedPcs, NoRx
<1>2. TypeOK /\ Running /\ ReachedInv /\ [Next]_vars => ReachedInv'
  BY ReachedStep
<1>3. LeftoverInv /\ [Next]_vars => LeftoverInv'
  BY LeftoverStep
<1>4. TypeOK /\ Running /\ ReachedInv /\ LeftoverInv /\ CompleteInv /\ [Next]_vars
        => CompleteInv'
  BY CompleteStep
<1>5. CompleteInv => RxComplete
  BY DEF CompleteInv
<1> QED  BY <1>1, <1>2, <1>3, <1>4, <1>5, TypeCorrect, PTL DEF Spec

-----------------------------------------------------------------------------
(* The marks of a finished campaign.                                       *)

\* Marks are those of the points measured, except that DEGRADED is still to
\* come in the step that marks, and LOAD_SHORTFALL is early by one step.
MarksInv ==
  /\ load # "empty"
  /\ pc = "mark" => cur \in measured /\ meta[cur].stream = stream
  /\ pc \notin {"idle", "aborted"} => \A l \in Labels :
       /\ l \in degraded <=>
            l \in measured /\ meta[l].stream \in LowYield /\ ~(pc = "mark" /\ l = cur)
       /\ l \in shortfall <=>
            \/ l \in measured /\ meta[l].achieved = "short"
            \/ pc = "meta" /\ l = cur /\ load = "short"

\* A step that decides and marks nothing.
LEMMA MarksKept ==
  ASSUME MarksInv, load' # "empty", UNCHANGED <<measured, meta, degraded, shortfall>>,
         \/ pc' \in {"idle", "aborted"}
         \/ pc' \notin {"mark", "meta"} /\ pc \notin {"idle", "aborted", "mark", "meta"}
  PROVE  MarksInv'
BY DEF MarksInv

LEMMA MarksStep ==
  TypeOK /\ DecideInv /\ MarksInv /\ [Next]_vars /\ "iperf" \notin Faults => MarksInv'
<1> SUFFICES ASSUME TypeOK, DecideInv, MarksInv, [Next]_vars, "iperf" \notin Faults
             PROVE  MarksInv'
  OBVIOUS
<1>a. load # "empty"
  BY DEF MarksInv
<1>1. CASE Start
  BY <1>1 DEF Start, MarksInv
<1>2. ASSUME NEW o \in Observations, Recover(o) PROVE MarksInv'
  BY <1>2, <1>a, MarksKept DEF Recover, outdir, CheckPcs, GatePcs, MarksInv
<1>3. ASSUME NEW o \in Observations, Gate(o) PROVE MarksInv'
  BY <1>3, <1>a, MarksKept DEF Gate, Verdict, outdir
<1>4. ASSUME NEW o \in Observations, Check(o) PROVE MarksInv'
  BY <1>4, <1>a, MarksKept DEF Check, Verdict, outdir
<1>5. ASSUME NEW o \in Observations, Recheck(o) PROVE MarksInv'
  BY <1>5, <1>a, AdvanceType, MarksKept DEF Recheck, Verdict, outdir
<1>6. ASSUME NEW o \in Observations, After(o) PROVE MarksInv'
  BY <1>6, <1>a, MarksKept DEF After, Verdict, outdir
<1>7. CASE PfListen
  BY <1>7, <1>a, MarksKept DEF PfListen, outdir
<1>8. ASSUME NEW rows \in {"few", "most"}, PfSend(rows) PROVE MarksInv'
  BY <1>8, <1>a, MarksKept DEF PfSend, Goto, outdir
<1>9. ASSUME NEW rows \in {"few", "most"}, PfUntagged(rows) PROVE MarksInv'
  BY <1>9, <1>a, MarksKept DEF PfUntagged, Goto, outdir
<1>10. CASE PfCount
  BY <1>10, <1>a, MarksKept DEF PfCount, Goto, outdir
<1>11. CASE ApplyQosPC1
  BY <1>11, <1>a, MarksKept DEF ApplyQosPC1, ApplyQos, Goto, AbortTrapped, outdir
<1>12. CASE ApplyQosPC2
  BY <1>12, <1>a, MarksKept DEF ApplyQosPC2, ApplyQos, Goto, AbortTrapped, outdir
<1>13. CASE Listen
  BY <1>13, <1>a, MarksKept DEF Listen, outdir
<1>14. ASSUME NEW res \in LoadResults, Load(res) PROVE MarksInv'
  BY <1>14, <1>a, MarksKept DEF Load, outdir, LoadResults
<1>15. ASSUME NEW res \in StreamResults, Stream(res) PROVE MarksInv'
  BY <1>15, <1>a, MarksKept DEF Stream, outdir
<1>16. CASE Join
  BY <1>16, <1>a, MarksKept DEF Join, Goto, outdir
<1>17. CASE Fetch
  BY <1>17, <1>a, MarksKept DEF Fetch, Goto, outdir
<1>18. CASE Remove
  BY <1>18, <1>a, MarksKept DEF Remove, Goto, outdir
<1>19. CASE Shortfall
  <2>1. /\ pc = "shortfall" /\ pc' = "meta" /\ UNCHANGED <<cur, load, measured, meta, degraded>>
        /\ shortfall' = IF load = "short" THEN shortfall \cup {cur} ELSE shortfall
    BY <1>19 DEF Shortfall, Goto
  <2>2. cur \notin measured
    BY <2>1, FirstIsFirst DEF DecideInv, PointPcs, TypeOK
  <2> QED
    BY <2>1, <2>2 DEF MarksInv
<1>20. CASE WriteMeta
  <2>1. CASE pc' = "aborted"
    BY <1>a, <1>20, <2>1 DEF WriteMeta, AbortTrapped, Goto, MarksInv
  <2>2. CASE pc' # "aborted"
    <3> DEFINE m == [before |-> before, after |-> last, stream |-> stream,
                     achieved |-> IF load = "empty" THEN "short" ELSE load]
    <3>1. /\ pc = "meta" /\ pc' = "mark" /\ UNCHANGED <<cur, load, stream, degraded, shortfall>>
          /\ measured' = measured \cup {cur} /\ meta' = [meta EXCEPT ![cur] = m]
      BY <1>20, <2>2 DEF WriteMeta, AbortTrapped, Goto
    <3>2. cur \in Labels /\ cur \notin measured
      BY <3>1, FirstIsFirst DEF DecideInv, PointPcs, TypeOK
    <3>3. m.stream = stream /\ m.achieved = load
      BY <1>a
    <3> HIDE DEF m
    <3>4. meta'[cur] = m /\ \A l \in Labels : l # cur => meta'[l] = meta[l]
      BY <3>1, <3>2 DEF TypeOK
    <3>5. /\ cur \notin degraded /\ (cur \in shortfall <=> load = "short")
          /\ \A l \in Labels : l # cur =>
               /\ l \in degraded <=> l \in measured /\ meta[l].stream \in LowYield
               /\ l \in shortfall <=> l \in measured /\ meta[l].achieved = "short"
      BY <3>1, <3>2 DEF MarksInv
    <3>6. ASSUME NEW l \in Labels
          PROVE  /\ l \in degraded' <=>
                      l \in measured' /\ meta'[l].stream \in LowYield /\ ~(pc' = "mark" /\ l = cur')
                 /\ l \in shortfall' <=>
                      \/ l \in measured' /\ meta'[l].achieved = "short"
                      \/ pc' = "meta" /\ l = cur' /\ load' = "short"
      <4>1. CASE l = cur
        BY <3>1, <3>3, <3>4, <3>5, <4>1
      <4>2. CASE l # cur
        BY <3>1, <3>4, <3>5, <4>2
      <4> QED
        BY <4>1, <4>2
    <3> QED
      BY <1>a, <3>1, <3>3, <3>4, <3>6 DEF MarksInv
  <2> QED
    BY <2>1, <2>2
<1>21. CASE Mark
  <2>1. /\ pc = "mark" /\ pc' \notin {"mark", "meta"} /\ load' = "idle"
        /\ UNCHANGED <<measured, meta, shortfall>>
        /\ degraded' = IF stream \in LowYield THEN degraded \cup {cur} ELSE degraded
    BY <1>21, AdvanceType DEF Mark
  <2>2. cur \in measured
    BY <2>1 DEF MarksInv
  <2> QED
    BY <2>1, <2>2 DEF MarksInv
<1>22. CASE RestorePC1
  BY <1>22, <1>a, MarksKept DEF RestorePC1, Goto, outdir
<1>23. CASE RestorePC2
  BY <1>23, <1>a, MarksKept DEF RestorePC2, Goto, outdir
<1>24. ASSUME NEW x \in listeners, ListenerEnds(x) PROVE MarksInv'
  BY <1>24 DEF ListenerEnds, outdir, MarksInv
<1>25. CASE SessionDrops
  BY <1>25 DEF SessionDrops, outdir, MarksInv
<1>26. CASE PtpRestarts
  BY <1>26 DEF PtpRestarts, script, outdir, MarksInv
<1>27. CASE TxCut
  BY <1>a, <1>27, MarksKept DEF TxCut, outdir
<1>28. CASE CtrlC
  BY <1>28, <1>a, MarksKept DEF CtrlC, outdir
<1>29. CASE Killed
  BY <1>29, <1>a, MarksKept DEF Killed, outdir
<1>30. CASE UNCHANGED vars
  BY <1>30 DEF vars, script, outdir, MarksInv
<1> QED
  BY <1>1, <1>2, <1>3, <1>4, <1>5, <1>6, <1>7, <1>8, <1>9, <1>10, <1>11, <1>12, <1>13, <1>14, <1>15, <1>16,
     <1>17, <1>18, <1>19, <1>20, <1>21, <1>22, <1>23, <1>24, <1>25, <1>26, <1>27, <1>28, <1>29, <1>30
     DEF Next, ScriptStep, Listeners

\* A finished campaign has decided every point once and marked exactly those
\* with a low timestamp yield or too little background load.  An iperf3 client
\* that dies without a word breaks the last part.
THEOREM FinishedAndMarked ==
  ASSUME "iperf" \notin Faults PROVE Spec => []MarksComplete
<1>1. Init => DecideInv /\ MarksInv
  BY DecideInit DEF Init, MarksInv
<1>2. TypeOK /\ DecideInv /\ [Next]_vars => DecideInv'
  BY DecideStep
<1>3. TypeOK /\ DecideInv /\ MarksInv /\ [Next]_vars => MarksInv'
  BY MarksStep
<1>4. TypeOK /\ DecideInv /\ MarksInv => MarksComplete
  <2> SUFFICES ASSUME TypeOK, DecideInv, MarksInv, pc = "finished"
               PROVE  /\ measured \cup skipped = Labels /\ measured \cap skipped = {}
                      /\ degraded = {l \in measured : meta[l].stream \in LowYield}
                      /\ shortfall = {l \in measured : meta[l].achieved = "short"}
    BY DEF MarksComplete
  <2>1. measured \cup skipped = Labels /\ measured \cap skipped = {}
    BY DEF DecideInv, TypeOK
  <2>2. measured \subseteq Labels /\ degraded \subseteq Labels /\ shortfall \subseteq Labels
    BY DEF TypeOK
  <2>3. \A l \in Labels :
          /\ l \in degraded <=> l \in measured /\ meta[l].stream \in LowYield
          /\ l \in shortfall <=> l \in measured /\ meta[l].achieved = "short"
    BY DEF MarksInv
  <2> QED
    BY <2>1, <2>2, <2>3
<1> QED  BY <1>1, <1>2, <1>3, <1>4, TypeCorrect, PTL DEF Spec
=============================================================================
