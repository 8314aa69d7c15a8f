------------------------------ MODULE Campaign ------------------------------
(***************************************************************************)
(* The measurement campaign driver, i226-adaptation/scripts/               *)
(* run_measurement.sh, running on PC1 as a sequential program that acts on *)
(* both nodes (ssh to PC2), together with the tsn_rx listeners it starts   *)
(* on PC2 and the files they leave in PC2's /tmp.                          *)
(*                                                                         *)
(* What outlives the script is state of its own: QoS mode of both nodes,   *)
(* NIC receive filter of PC2, /tmp of PC2, listeners still running there.  *)
(* The script may be interrupted or killed between any two steps and       *)
(* started again, so a later run can meet what an earlier one left behind. *)
(* The result directory is new in every run (RUN_ID).                      *)
(***************************************************************************)
EXTENDS Naturals, Sequences

CONSTANTS
  QosModes,    \* QOS_MODES, the sequence of QoS modes swept
  Loads,       \* BG_LOADS, the sequence of background loads in percent
  Reps,        \* REPETITIONS
  GateTries,   \* polls of the initial gPTP gate (24 in the script)
  MaxRuns,     \* bound: how many times the script is started
  Faults       \* which of AllFaults may happen

AllFaults ==
  {"startup",   \* an initial check fails (ssh, iperf3 version, bg probe)
   "qos",       \* qos_config.sh fails on a node
   "listener",  \* tsn_rx ends before it opens its output file
   "session",   \* the ssh session of the listener drops, tsn_rx lives on
   "ptp4l",     \* ptp4l on PC2 is restarted by systemd
   "iperf",     \* the iperf3 client dies without writing any JSON
   "tx",        \* tsn_tx fails before it prints its report
   "scp", "rm", "cleanup",   \* the remote command fails
   "ctrlc", "kill"}          \* the script is interrupted, or killed

ASSUME ParamsAssumption ==
  /\ QosModes \in Seq(STRING) /\ Len(QosModes) > 0
  /\ Loads \in Seq(Nat) /\ Len(Loads) > 0
  /\ Reps \in Nat \ {0}
  /\ GateTries \in Nat \ {0}
  /\ MaxRuns \in Nat
  /\ Faults \subseteq AllFaults

Nodes == {"PC1", "PC2"}
Modes == {QosModes[i] : i \in DOMAIN QosModes} \cup {"none"}

\* A point is named by repetition round, QoS mode and load, in sweep order.
Labels == (1 .. Reps) \X (1 .. Len(QosModes)) \X (1 .. Len(Loads))
First == <<1, 1, 1>>
Earlier(a, b) ==
  \/ a[1] < b[1]
  \/ a[1] = b[1] /\ a[2] < b[2]
  \/ a[1] = b[1] /\ a[2] = b[2] /\ a[3] < b[3]

\* Files in /tmp of PC2: pf_rx.csv and one rx_<label>.csv per point.  "owner"
\* is the run whose listener wrote it, 0 when two listeners wrote it at once.
Pf == <<0, 0, 0>>
Keys == Labels \cup {Pf}
Rows == {"absent", "none", "few", "most"}
Files == [owner : 0 .. MaxRuns, rows : Rows]
NoFile == [owner |-> 0, rows |-> "absent"]

\* What one pmc query of a node shows: SLAVE within 1000 ns, FAULTY, or other.
PtpAnswers == {"locked", "unlocked", "faulty"}
Observations == [Nodes -> PtpAnswers]
Faulty(o) == \E n \in Nodes : o[n] = "faulty"
Locked(o) == \A n \in Nodes : o[n] = "locked"

\* How tsn_tx ended: without a report, with a timestamp yield below 90 %, with
\* a good one (or nothing sent), or stopped by Ctrl-C part way through, with
\* one yield or the other.
StreamResults == {"failed", "low", "good", "cutLow", "cut"}
LowYield == {"low", "cutLow"}
\* What iperf3.json says: no load asked for, >= 80 %, < 80 %, empty file.
LoadResults == {"idle", "ok", "short", "empty"}

\* meta.json: do ptp_before and ptp_after show both nodes locked, what tsn_tx
\* reported, and the background load achieved.
Metas == [before : BOOLEAN, after : BOOLEAN, stream : StreamResults,
          achieved : {"idle", "ok", "short"}]
NoMeta == [before |-> FALSE, after |-> FALSE, stream |-> "failed",
           achieved |-> "idle"]
\* rx.csv as collected; "closed" when its listener had finished writing it.
RxFiles == [file : Files, closed : BOOLEAN]
NoRx == [file |-> NoFile, closed |-> TRUE]

\* What can go wrong with a listener, as the history of a run records it: one of
\* an earlier run is still at work when the run starts, tsn_rx fails before it
\* opens its file, or the ssh session that waits for it drops.
Mishaps == Keys \X {"leftover", "failed", "dropped"}

GatePcs == {"gate", "gateLoop", "gateFinal"}
PreflightPcs == {"preflight", "pfSend", "pfWait", "pfUntagged"}
CheckPcs == GatePcs \cup {"check", "recheck", "after"}
PointPcs == {"check", "recheck", "listen", "load", "stream", "join", "fetch",
             "remove", "after", "shortfall", "meta", "mark"}
TrappedPcs == PointPcs \cup {"qosPC1", "qosPC2", "restorePC1", "restorePC2"}
StoppedPcs == {"idle", "aborted", "finished"}
Pcs == GatePcs \cup PreflightPcs \cup TrappedPcs \cup StoppedPcs

VARIABLES
  pc, run,       \* control point of the script; number of the run
  cur,           \* the point being measured (REP, QOS, LOAD)
  tries,         \* polls of the initial gate so far
  recovered,     \* check_ptp restarted a FAULTY ptp4l (PTP_NO_RECOVER)
  last, before,  \* PTP_LAST and PTP_BEFORE: do they show both nodes locked
  session,       \* ssh session of the current listener is still attached
  stream, load,  \* outcome of tsn_tx and of iperf3 at the current point
  qos,           \* host QoS mode of each node
  filter,        \* NIC receive timestamp filter of PC2: "ptp" or "all"
  files,         \* /tmp of PC2
  listeners,     \* tsn_rx processes on PC2 with their output linked: <<key, run>>
  measured,      \* points with a meta.json
  skipped,       \* points with an ERROR file
  meta, rx,      \* meta.json and rx.csv of each point
  degraded, shortfall,   \* points with a DEGRADED / LOAD_SHORTFALL file
  traversed,     \* history: the preflight's tagged frames reached PC2
  mishaps        \* history: what went wrong with which listener (Mishaps)

script == <<pc, run, cur, tries, recovered, last, before, session, stream, load>>
nodes  == <<qos, filter, files, listeners>>
outdir == <<measured, skipped, meta, rx, degraded, shortfall>>
ghost  == <<traversed, mishaps>>
vars   == <<script, nodes, outdir, ghost>>

Init ==
  /\ pc = "idle" /\ run = 0 /\ cur = First /\ tries = 0
  /\ recovered = FALSE /\ last = FALSE /\ before = FALSE /\ session = FALSE
  /\ stream = "good" /\ load = "idle"
  /\ qos \in [Nodes -> Modes] /\ filter = "ptp"
  /\ files = [k \in Keys |-> NoFile] /\ listeners = {}
  /\ measured = {} /\ skipped = {} /\ degraded = {} /\ shortfall = {}
  /\ meta = [l \in Labels |-> NoMeta] /\ rx = [l \in Labels |-> NoRx]
  /\ traversed = FALSE /\ mishaps = {}

-----------------------------------------------------------------------------
(* Leaving the script, and what a step leaves alone.                       *)

\* The EXIT trap: kill any tsn_rx on PC2.  A killed tsn_rx closes its file.
Cleanup ==
  \/ listeners' = {}
  \/ "cleanup" \in Faults /\ UNCHANGED listeners

\* Exit with a failure after the trap is installed (die, or set -e).
AbortTrapped ==
  /\ pc' = "aborted" /\ session' = FALSE
  /\ Cleanup
  /\ UNCHANGED <<run, cur, tries, recovered, last, before, stream, load,
                 filter, files>>

Goto(p) ==
  /\ pc' = p
  /\ UNCHANGED <<run, cur, tries, recovered, last, before, session, stream, load>>

-----------------------------------------------------------------------------
(* Start of a run, and check_ptp.                                          *)

\* Everything up to the creation of OUTDIR: ssh, MAC addresses, iperf3
\* version gate, background route and probe; then a new result directory.
Start ==
  /\ pc \in StoppedPcs /\ run < MaxRuns
  /\ \/ pc' = "gate"
     \/ "startup" \in Faults /\ pc' = "aborted"
  /\ run' = run + 1 /\ cur' = First /\ tries' = 0
  /\ recovered' = FALSE /\ last' = FALSE /\ before' = FALSE
  /\ session' = FALSE /\ stream' = "good" /\ load' = "idle"
  /\ measured' = {} /\ skipped' = {} /\ degraded' = {} /\ shortfall' = {}
  /\ meta' = [l \in Labels |-> NoMeta] /\ rx' = [l \in Labels |-> NoRx]
  /\ traversed' = FALSE
  /\ mishaps' = {<<x[1], "leftover">> : x \in listeners}
  /\ UNCHANGED nodes

\* check_ptp meets a FAULTY port for the first time: restart ptp4l there,
\* wait, and look again.  Restarting ptp4l narrows the NIC's receive filter.
Recover(o) ==
  /\ pc \in CheckPcs /\ ~recovered /\ Faulty(o)
  /\ recovered' = TRUE
  /\ last' = Locked(o)
  /\ filter' = IF o["PC2"] = "faulty" THEN "ptp" ELSE filter
  /\ UNCHANGED <<pc, run, cur, tries, before, session, stream, load,
                 qos, files, listeners, outdir, ghost>>

\* check_ptp returns its verdict; PTP_LAST keeps what it saw.
Verdict(p, o) ==
  /\ pc = p /\ (recovered \/ ~Faulty(o))
  /\ recovered' = FALSE
  /\ last' = Locked(o)

\* Mutant: the initial gate polls until gPTP is locked.
GateForEver(o) ==
  /\ \/ /\ Verdict("gate", o)
        /\ pc' = IF Locked(o) THEN "preflight" ELSE "gateLoop"
     \/ /\ Verdict("gateLoop", o)
        /\ pc' = IF Locked(o) THEN "gateFinal" ELSE "gateLoop"
     \/ /\ Verdict("gateFinal", o)
        /\ pc' = IF Locked(o) THEN "preflight" ELSE "aborted"
  /\ UNCHANGED <<run, cur, tries, before, session, stream, load, nodes, outdir, ghost>>

\* The initial gate: once, then up to GateTries polls, then once more - also
\* when a poll succeeded.
Gate(o) ==
  /\ \/ /\ Verdict("gate", o)
        /\ pc' = IF Locked(o) THEN "preflight" ELSE "gateLoop"
        /\ tries' = 0
     \/ /\ Verdict("gateLoop", o)
        /\ IF Locked(o) \/ tries + 1 = GateTries
             THEN pc' = "gateFinal" /\ tries' = 0
             ELSE pc' = "gateLoop" /\ tries' = tries + 1
     \/ /\ Verdict("gateFinal", o)
        /\ pc' = IF Locked(o) THEN "preflight" ELSE "aborted"
        /\ tries' = tries
  /\ UNCHANGED <<run, cur, before, session, stream, load, nodes, outdir, ghost>>

-----------------------------------------------------------------------------
(* The tsn_rx listeners on PC2.                                            *)

\* Mutant: tsn_rx keeps the filter it finds, as if ptp4l's were wide enough.
ListenWithoutWidening(k) ==
  /\ files' = [files EXCEPT ![k] = [owner |-> run, rows |-> "none"]]
  /\ listeners' = listeners \cup {<<k, run>>}
  /\ session' = TRUE
  /\ UNCHANGED <<filter, mishaps>>

\* Mutant: a listener already at work on the file is reused.
ReuseListener(k) ==
  /\ filter' = "all"
  /\ IF \E r \in 1 .. MaxRuns : <<k, r>> \in listeners
       THEN session' = FALSE /\ UNCHANGED <<files, listeners>>
       ELSE /\ session' = TRUE
            /\ files' = [files EXCEPT ![k] = [owner |-> run, rows |-> "none"]]
            /\ listeners' = listeners \cup {<<k, run>>}
  /\ UNCHANGED mishaps

\* tsn_rx for file k starts: it widens the NIC filter and truncates its
\* output - or fails before it gets that far.  Two listeners on one file
\* overwrite each other.
StartListener(k) ==
  \/ /\ filter' = "all"
     /\ files' = [files EXCEPT ![k] =
          [owner |-> IF \E r \in 1 .. MaxRuns : <<k, r>> \in listeners /\ r # run
                       THEN 0 ELSE run,
           rows |-> "none"]]
     /\ listeners' = listeners \cup {<<k, run>>}
     /\ session' = TRUE
     /\ UNCHANGED mishaps
  \/ /\ "listener" \in Faults
     /\ session' = FALSE
     /\ mishaps' = mishaps \cup {<<k, "failed">>}
     /\ UNCHANGED <<filter, files, listeners>>

\* Some listener still has file k open.
Open(k) == \E r \in 1 .. MaxRuns : <<k, r>> \in listeners

\* Frames on the wire reach every listener; none is recorded when the NIC
\* does not timestamp them.
Capture(rows) ==
  files' = [k \in Keys |->
    IF filter = "all" /\ Open(k)
      THEN [files[k] EXCEPT !.rows = IF @ = "most" THEN @ ELSE rows]
      ELSE files[k]]

\* The file whose listener the script's ssh session belongs to.
Current == IF pc \in PreflightPcs THEN Pf ELSE cur

\* A listener reaches the end of its time (-t) or count (-n) and closes.
ListenerEnds(x) ==
  /\ x \in listeners
  /\ listeners' = listeners \ {x}
  /\ session' = (session /\ x # <<Current, run>>)
  /\ UNCHANGED <<pc, run, cur, tries, recovered, last, before, stream, load,
                 qos, filter, files, outdir, ghost>>

\* The ssh session drops; sudo tsn_rx runs on without it.
SessionDrops ==
  /\ "session" \in Faults /\ session
  /\ session' = FALSE
  /\ mishaps' = mishaps \cup {<<Current, "dropped">>}
  /\ UNCHANGED <<pc, run, cur, tries, recovered, last, before, stream, load,
                 nodes, outdir, traversed>>

\* systemd restarts a ptp4l that died, and ptp4l narrows the filter.
PtpRestarts ==
  /\ "ptp4l" \in Faults /\ filter = "all"
  /\ filter' = "ptp"
  /\ UNCHANGED <<script, qos, files, listeners, outdir, ghost>>

-----------------------------------------------------------------------------
(* preflight().                                                            *)

PfListen ==
  /\ pc = "preflight"
  /\ StartListener(Pf)
  /\ pc' = "pfSend"
  /\ UNCHANGED <<run, cur, tries, recovered, last, before, stream, load, qos,
                 outdir, traversed>>

\* 200 tagged frames; at least half of them arrive, or fewer.
PfSend(rows) ==
  /\ pc = "pfSend"
  /\ Capture(rows)
  /\ traversed' = (rows = "most")
  /\ Goto("pfWait")
  /\ UNCHANGED <<qos, filter, listeners, outdir, mishaps>>

\* Mutant: the count is only warned of.
CountAndGoOn ==
  /\ pc = "pfWait" /\ ~session
  /\ Goto("qosPC1")
  /\ UNCHANGED <<nodes, outdir, ghost>>

\* wait for the listener, then count the lines of /tmp/pf_rx.csv - of a file
\* still open, only those already flushed.
PfCount ==
  /\ pc = "pfWait" /\ ~session
  /\ \E rows \in {files[Pf].rows} \cup {x \in {"few"} : Open(Pf)} :
       Goto(IF rows = "most" THEN "qosPC1" ELSE "pfUntagged")
  /\ UNCHANGED <<nodes, outdir, ghost>>

\* The untagged retry overwrites pf_rx.csv and ends the run either way.
PfUntagged(rows) ==
  /\ pc = "pfUntagged"
  /\ \/ /\ files' = [files EXCEPT ![Pf] = [owner |-> run, rows |-> rows]]
        /\ filter' = "all"
     \/ "listener" \in Faults /\ UNCHANGED <<files, filter>>
  /\ Goto("aborted")
  /\ UNCHANGED <<qos, listeners, outdir, ghost>>
-----------------------------------------------------------------------------
(* The sweep: set the QoS mode on both nodes once per mode, then measure   *)
(* one point per load.                                                     *)

\* Mutant: one load too many.
OneLoadTooMany(l) ==
  IF l[3] <= Len(Loads) THEN <<l[1], l[2], l[3] + 1>> ELSE l

\* The loops over REP, QOS and LOAD move to the next point.
NextLabel(l) ==
  IF l[3] < Len(Loads) THEN <<l[1], l[2], l[3] + 1>>
  ELSE IF l[2] < Len(QosModes) THEN <<l[1], l[2] + 1, 1>>
  ELSE IF l[1] < Reps THEN <<l[1] + 1, 1, 1>>
  ELSE l

Advance ==
  /\ cur' = NextLabel(cur)
  /\ pc' = IF cur' = cur THEN "restorePC1"
           ELSE IF cur'[3] = 1 THEN "qosPC1" ELSE "check"

\* qos_config.sh first removes the root qdisc, then adds the new one; it may
\* fail before or after the removal, and set -e ends the script.
ApplyQos(p, n, next) ==
  /\ pc = p
  /\ \/ /\ qos' = [qos EXCEPT ![n] = QosModes[cur[2]]]
        /\ Goto(next)
        /\ UNCHANGED <<filter, files, listeners>>
     \/ /\ "qos" \in Faults
        /\ qos' \in {qos, [qos EXCEPT ![n] = "none"]}
        /\ AbortTrapped
  /\ UNCHANGED <<outdir, ghost>>

\* Mutant: the mode is set on PC1 only.
ApplyQosPC1Only == ApplyQos("qosPC1", "PC1", "check")

ApplyQosPC1 == ApplyQos("qosPC1", "PC1", "qosPC2")
ApplyQosPC2 == ApplyQos("qosPC2", "PC2", "check")

\* gPTP check before the point: one retry after 60 s, then skip the point.
Check(o) ==
  /\ Verdict("check", o)
  /\ pc' = IF Locked(o) THEN "listen" ELSE "recheck"
  /\ before' = IF Locked(o) THEN last' ELSE before
  /\ UNCHANGED <<run, cur, tries, session, stream, load, nodes, outdir, ghost>>

\* Mutant: the retry's verdict is ignored and the point measured anyway.
RecheckIgnored(o) ==
  /\ Verdict("recheck", o)
  /\ pc' = "listen" /\ before' = last'
  /\ UNCHANGED <<run, cur, tries, session, stream, load, nodes, outdir, ghost>>

\* Mutant: a point that is given up goes without its mark.
RecheckUnmarked(o) ==
  /\ Verdict("recheck", o)
  /\ IF Locked(o) THEN pc' = "listen" /\ before' = last' /\ UNCHANGED cur
     ELSE Advance /\ UNCHANGED before
  /\ UNCHANGED <<run, tries, session, stream, load, nodes, outdir, ghost>>

Recheck(o) ==
  /\ Verdict("recheck", o)
  /\ \/ /\ Locked(o)
        /\ pc' = "listen" /\ before' = last'
        /\ UNCHANGED <<cur, skipped>>
     \/ /\ ~Locked(o)
        /\ skipped' = skipped \cup {cur}
        /\ Advance
        /\ UNCHANGED before
  /\ UNCHANGED <<run, tries, session, stream, load, nodes,
                 measured, meta, rx, degraded, shortfall, ghost>>

Listen ==
  /\ pc = "listen"
  /\ StartListener(cur)
  /\ pc' = "load"
  /\ UNCHANGED <<run, cur, tries, recovered, last, before, stream, load, qos,
                 outdir, traversed>>

\* iperf3 is started in the background; what it will have achieved.
Load(r) ==
  /\ pc = "load"
  /\ r \in IF Loads[cur[3]] = 0 THEN {"idle"}
           ELSE {"ok", "short"} \cup ({"empty"} \cap {x \in LoadResults : "iperf" \in Faults})
  /\ load' = r
  /\ pc' = "stream"
  /\ UNCHANGED <<run, cur, tries, recovered, last, before, session, stream,
                 nodes, outdir, ghost>>

\* tsn_tx runs to its end; some frames arrive.
Stream(r) ==
  /\ pc = "stream"
  /\ \/ r \in {"low", "good"} /\ Capture("few")
     \/ r = "failed" /\ "tx" \in Faults /\ UNCHANGED files
  /\ stream' = r
  /\ pc' = "join"
  /\ UNCHANGED <<run, cur, tries, recovered, last, before, session, load,
                 qos, filter, listeners, outdir, ghost>>

\* Ctrl-C while tsn_tx runs in the foreground: tsn_tx catches it, stops
\* sending, writes its report and exits 0, so the shell carries on.
TxCut ==
  /\ "ctrlc" \in Faults /\ pc \in {"pfSend", "stream"}
  /\ Capture("few")
  /\ \/ pc = "pfSend" /\ pc' = "pfWait" /\ UNCHANGED stream
     \/ pc = "stream" /\ pc' = "join" /\ stream' \in {"cut", "cutLow"}
  /\ UNCHANGED <<run, cur, tries, recovered, last, before, session, load,
                 qos, filter, listeners, outdir, traversed, mishaps>>

\* Mutant: the listener is not waited for.
JoinAtOnce ==
  /\ pc = "join"
  /\ Goto("fetch")
  /\ UNCHANGED <<nodes, outdir, ghost>>

\* wait for iperf3 and for the ssh session of the listener.
Join ==
  /\ pc = "join" /\ ~session
  /\ Goto("fetch")
  /\ UNCHANGED <<nodes, outdir, ghost>>

\* scp rx_<label>.csv into the result directory; a failure, also that of a
\* missing file, is only warned of.
Fetch ==
  /\ pc = "fetch"
  /\ \/ rx' = [rx EXCEPT ![cur] =
          [file |-> files[cur], closed |-> ~Open(cur)]]
     \/ "scp" \in Faults /\ UNCHANGED rx
  /\ Goto("remove")
  /\ UNCHANGED <<nodes, measured, skipped, meta, degraded, shortfall, ghost>>

\* sudo rm -f on PC2.  What a listener writes to an unlinked file is lost, so
\* such a listener is forgotten.
Remove ==
  /\ pc = "remove"
  /\ \/ /\ files' = [files EXCEPT ![cur] = NoFile]
        /\ listeners' = {x \in listeners : x[1] # cur}
     \/ "rm" \in Faults /\ UNCHANGED <<files, listeners>>
  /\ Goto("after")
  /\ UNCHANGED <<qos, filter, outdir, ghost>>

\* gPTP check after the point; its verdict is not used, only PTP_LAST.
After(o) ==
  /\ Verdict("after", o)
  /\ pc' = "shortfall"
  /\ UNCHANGED <<run, cur, tries, before, session, stream, load,
                 nodes, outdir, ghost>>

\* Read the achieved load back from iperf3.json, when it is not empty.
Shortfall ==
  /\ pc = "shortfall"
  /\ shortfall' = IF load = "short" THEN shortfall \cup {cur} ELSE shortfall
  /\ Goto("meta")
  /\ UNCHANGED <<nodes, measured, skipped, meta, rx, degraded, ghost>>

\* Read sent= from tsn_tx's report and write meta.json.  Without a report the
\* pipeline fails and set -e ends the script.
WriteMeta ==
  /\ pc = "meta"
  /\ \/ /\ stream # "failed"
        /\ measured' = measured \cup {cur}
        /\ meta' = [meta EXCEPT ![cur] =
             [before |-> before, after |-> last, stream |-> stream,
              achieved |-> IF load = "empty" THEN "short" ELSE load]]
        /\ Goto("mark")
        /\ UNCHANGED nodes
     \/ /\ stream = "failed"
        /\ AbortTrapped
        /\ UNCHANGED <<measured, meta, qos>>
  /\ UNCHANGED <<skipped, rx, degraded, shortfall, ghost>>

\* Mutant: an interrupted stream is not told from a degraded one.
MarkAllButGood ==
  /\ pc = "mark"
  /\ degraded' = IF stream # "good" THEN degraded \cup {cur} ELSE degraded
  /\ Advance
  /\ stream' = "good" /\ load' = "idle"
  /\ UNCHANGED <<run, tries, recovered, last, before, session, nodes,
                 measured, skipped, meta, rx, shortfall, ghost>>

\* DEGRADED when the TX timestamp yield is below 90 %; then the next point.
Mark ==
  /\ pc = "mark"
  /\ degraded' = IF stream \in LowYield THEN degraded \cup {cur} ELSE degraded
  /\ Advance
  /\ stream' = "good" /\ load' = "idle"
  /\ UNCHANGED <<run, tries, recovered, last, before, session, nodes,
                 measured, skipped, meta, rx, shortfall, ghost>>

\* Back to QoS mode none on both nodes (failures ignored); the EXIT trap runs.
RestorePC1 ==
  /\ pc = "restorePC1"
  /\ \/ qos' = [qos EXCEPT !["PC1"] = "none"]
     \/ "qos" \in Faults /\ UNCHANGED qos
  /\ Goto("restorePC2")
  /\ UNCHANGED <<filter, files, listeners, outdir, ghost>>

RestorePC2 ==
  /\ pc = "restorePC2"
  /\ \/ qos' = [qos EXCEPT !["PC2"] = "none"]
     \/ "qos" \in Faults /\ UNCHANGED qos
  /\ Goto("finished")
  /\ Cleanup
  /\ UNCHANGED <<filter, files, outdir, ghost>>

-----------------------------------------------------------------------------
(* The end of a run that was not planned.                                  *)

\* Ctrl-C anywhere but in tsn_tx ends the script; the EXIT trap runs if it
\* is installed already.
CtrlC ==
  /\ "ctrlc" \in Faults /\ pc \notin StoppedPcs \cup {"pfSend", "stream"}
  /\ pc' = "idle" /\ session' = FALSE
  /\ IF pc \in TrappedPcs THEN Cleanup ELSE UNCHANGED listeners
  /\ UNCHANGED <<run, cur, tries, recovered, last, before, stream, load,
                 qos, filter, files, outdir, traversed, mishaps>>

\* SIGKILL, power loss: nothing runs any more on PC1.
Killed ==
  /\ "kill" \in Faults /\ pc \notin StoppedPcs
  /\ pc' = "idle" /\ session' = FALSE
  /\ UNCHANGED <<run, cur, tries, recovered, last, before, stream, load,
                 nodes, outdir, ghost>>

-----------------------------------------------------------------------------
\* The steps of the script itself, one at a time in program order.
ScriptStep ==
  \/ \E o \in Observations :
       Recover(o) \/ Gate(o) \/ Check(o) \/ Recheck(o) \/ After(o)
  \/ PfListen \/ (\E rows \in {"few", "most"} : PfSend(rows) \/ PfUntagged(rows))
  \/ PfCount
  \/ ApplyQosPC1 \/ ApplyQosPC2
  \/ Listen \/ (\E r \in LoadResults : Load(r))
  \/ \E r \in StreamResults : Stream(r)
  \/ Join \/ Fetch \/ Remove \/ Shortfall \/ WriteMeta \/ Mark
  \/ RestorePC1 \/ RestorePC2

\* A listener always has a time limit (-t), so it ends.
Listeners == \E x \in listeners : ListenerEnds(x)

Next ==
  \/ Start \/ ScriptStep \/ Listeners
  \/ SessionDrops \/ PtpRestarts
  \/ TxCut \/ CtrlC \/ Killed

\* The shell executes its next command, and a listener's time runs out.
Fairness == WF_vars(ScriptStep) /\ WF_vars(Listeners)

Spec == Init /\ [][Next]_vars
FairSpec == Spec /\ Fairness

-----------------------------------------------------------------------------
(* Properties.                                                             *)

TypeOK ==
  /\ pc \in Pcs /\ run \in 0 .. MaxRuns /\ cur \in Labels
  /\ tries \in 0 .. GateTries /\ recovered \in BOOLEAN
  /\ last \in BOOLEAN /\ before \in BOOLEAN /\ session \in BOOLEAN
  /\ stream \in StreamResults /\ load \in LoadResults
  /\ qos \in [Nodes -> Modes] /\ filter \in {"ptp", "all"}
  /\ files \in [Keys -> Files]
  /\ listeners \subseteq Keys \X (1 .. MaxRuns)
  /\ measured \subseteq Labels /\ skipped \subseteq Labels
  /\ degraded \subseteq Labels /\ shortfall \subseteq Labels
  /\ meta \in [Labels -> Metas] /\ rx \in [Labels -> RxFiles]
  /\ traversed \in BOOLEAN /\ mishaps \subseteq Mishaps

\* The stream of a point is sent with both nodes in the QoS mode of its label,
\* whatever an earlier run left configured (run_measurement.sh:335-340).
StreamUnderQos ==
  pc \in PointPcs => \A n \in Nodes : qos[n] = QosModes[cur[2]]

\* No point is measured unless a check just before showed both nodes locked,
\* and that is what its meta.json records (run_measurement.sh:354-359).
MeasuredInLock == \A l \in measured : meta[l].before

\* The listener runs with the NIC filter it needs whenever the stream starts:
\* no ptp4l restart of check_ptp comes between (tsn_common.h:82-89).
WideFilter == pc = "stream" /\ session => filter = "all"

\* File f was written for point l by this run's listener alone - or what else
\* it can be has one of two causes: a listener of an earlier run that was at
\* work on it when this run started shares it, or tsn_rx failed to start.
Accounted(f, l) ==
  \/ f.owner = run
  \/ f.owner = 0 /\ <<l, "leftover">> \in mishaps
  \/ <<l, "failed">> \in mishaps

\* Where the data of rx.csv come from.  The names in PC2's /tmp are the same in
\* every run, and neither a file that an earlier run left (rm fails, the run is
\* killed) nor its listener is removed when a run starts.  A file of an earlier
\* run is collected only when tsn_rx failed to open it anew, and rows of two
\* runs are mixed only when a listener outlived its run; the script notices
\* neither (run_measurement.sh:361-388).
RxNotStale ==
  \A l \in Labels : rx[l].file.rows # "absent" => Accounted(rx[l].file, l)

\* No rx.csv is collected while a listener still writes it, whoever owns the
\* file - but for two causes: a listener of an earlier run was still at work
\* when this run started, or the ssh session that the script waits for dropped
\* in this very point (run_measurement.sh:384-386).
RxComplete ==
  \A l \in Labels :
    rx[l].closed \/ <<l, "leftover">> \in mishaps \/ <<l, "dropped">> \in mishaps

\* The sweep starts only if tagged frames reached PC2 in this very run - or the
\* preflight's tsn_rx failed before it opened its file, so that the lines of a
\* pf_rx.csv of an earlier run were counted (run_measurement.sh:255-268).
PreflightHonest == pc \in TrappedPcs => traversed \/ <<Pf, "failed">> \in mishaps

\* A finished campaign has decided every point, once, and marked exactly the
\* points with low timestamp yield or too little background load.
MarksComplete ==
  pc = "finished" =>
    /\ measured \cup skipped = Labels /\ measured \cap skipped = {}
    /\ degraded = {l \in measured : meta[l].stream \in LowYield}
    /\ shortfall = {l \in measured : meta[l].achieved = "short"}

\* Points are decided in sweep order, round after round, and stay decided.
StatusOf(l) ==
  IF l \in skipped THEN "skipped"
  ELSE IF l \in measured THEN "measured" ELSE "pending"
Ledger == INSTANCE CampaignLedger WITH status <- [l \in Labels |-> StatusOf(l)]
SweepsInOrder == Ledger!Spec

\* A run always comes to an end: the gPTP gate, the one recovery of a FAULTY
\* port, the retry of a check and the wait for the listener are all bounded.
RunEnds == (pc \notin StoppedPcs) ~> (pc \in StoppedPcs)

-----------------------------------------------------------------------------
(* What the comments and documents promise and the script does not keep.   *)

\* "every combination": a tsn_tx that fails is only warned of (lines 4-10 and
\* 381), so it is never what a run ends on.
TxFailureSurvived == pc = "aborted" => stream # "failed"
=============================================================================
