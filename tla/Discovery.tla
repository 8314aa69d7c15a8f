----------------------------- MODULE Discovery -----------------------------
(***************************************************************************)
(* One run of the topology discovery: main() of cli.py, the pool of        *)
(* workers that query one switch each, the raw captures they leave, the    *)
(* records and documents made of them, the published copies, the exit      *)
(* code, and --reanalyse, which repeats the analysis from the captures.    *)
(*                                                                         *)
(* A worker probes the NETCONF port, opens a session, issues a fixed list  *)
(* of reads and writes every reply to raw/<name>/; where NETCONF does not  *)
(* respond it may turn to the switch's CLI.  Switches, sessions and the    *)
(* disk fail at any step, and the operator may interrupt or kill the run.  *)
(***************************************************************************)
EXTENDS Naturals, Sequences, FiniteSets

CONSTANTS
  Targets,      \* sequence of the names of the switches to contact
  InvSwitches,  \* the switches of SYSTEM.md
  Stranger,     \* an LLDP neighbour SYSTEM.md does not know
  Wirings,      \* who may see whom by LLDP: set of [name -> set of names]
  Transport,    \* --transport: "auto", "netconf" or "cli"
  Workers,      \* --workers
  Rpcs,         \* the reads of one collection, in order; "lldp" is one
  Docs,         \* the documents of a run, in the order they are written
  CliAnswers,   \* names of the switches whose CLI accepts a login
  MaxRuns,      \* bound: runs over this run directory, the first one live
  Faults        \* which of AllFaults may happen

AllFaults ==
  {"port",      \* nothing listens on the NETCONF port of a switch
   "session",   \* the port is open but no session comes up
   "rpc",       \* a switch answers a read with an rpc-error
   "drop",      \* a session dies while it is used
   "disk",      \* the file system becomes read-only
   "int",       \* Ctrl-C
   "kill"}      \* the process dies at once

Ids   == DOMAIN Targets
Names == {Targets[i] : i \in Ids} \cup InvSwitches
Files == {Rpcs[k] : k \in DOMAIN Rpcs} \cup {"hello"}

ASSUME DiscoveryAssumption ==
  /\ Targets \in Seq(STRING) /\ Targets # << >>
  /\ Stranger \notin Names
  /\ Wirings \subseteq [Names -> SUBSET (Names \cup {Stranger})]
  /\ Transport \in {"auto", "netconf", "cli"}
  /\ Workers \in Nat \ {0} /\ MaxRuns \in Nat \ {0}
  /\ Rpcs \in Seq(STRING) /\ "lldp" \in Files
  /\ \A k \in DOMAIN Rpcs : Rpcs[k] # "hello"
  /\ Docs \in Seq(STRING) /\ Docs # << >>
  /\ Faults \subseteq AllFaults

VARIABLES
  sees,         \* the LLDP neighbours of each switch
  \* main()
  phase,        \* "idle", "pool", "abort", "assemble", "write", "publish"
  runNo,        \* number of the current or last run
  mode,         \* "live" or "reanalyse"
  records,      \* name -> record, in the order of the results
  step,         \* next document to write or to publish
  exit,         \* "none", "clean" (0), "attention" (1), "aborted"
  \* the workers
  worker,       \* [Ids -> state of discover_one]
  session,      \* [Ids -> "none", "up" or "dead"]
  next,         \* [Ids -> next read]
  result,       \* [Ids -> what discover_one returns]
  \* the file system
  readOnly,
  raw,          \* [names with a directory in raw/ -> its files]
  docs,         \* [documents -> run that wrote them, 0: absent]
  pub,          \* the same for the published copies
  complete      \* history: runs that wrote all their documents

vars == <<sees, phase, runNo, mode, records, step, exit, worker, session, next,
          result, readOnly, raw, docs, pub, complete>>
mainVars   == <<runNo, mode, records, step, exit>>
workerVars == <<worker, session, next, result>>
files      == <<raw, docs, pub, complete>>

WorkerStates == {"queued", "probe", "connect", "collect", "netconf failed",
                 "cli", "done", "raised", "cancelled"}
Active == {"probe", "connect", "collect", "netconf failed", "cli"}
Result == [transport : {"netconf", "cli"}, reachable : BOOLEAN, ok : SUBSET Files]
Unread == [transport |-> "netconf", reachable |-> FALSE, ok |-> {}]
DocNames == {Docs[k] : k \in DOMAIN Docs}

Init ==
  /\ sees \in Wirings
  /\ phase = "idle" /\ runNo = 0 /\ mode = "live" /\ records = << >>
  /\ step = 1 /\ exit = "none"
  /\ worker = [i \in Ids |-> "done"] /\ session = [i \in Ids |-> "none"]
  /\ next = [i \in Ids |-> 1] /\ result = [i \in Ids |-> Unread]
  /\ readOnly = FALSE /\ raw = << >>
  /\ docs = [d \in DocNames |-> 0] /\ pub = docs /\ complete = {}

-----------------------------------------------------------------------------
(* discover_one: one worker                                                *)

\* main() of a live run: the pool is filled with the targets.
StartLive ==
  /\ phase = "idle" /\ runNo = 0
  /\ phase' = "pool" /\ runNo' = runNo + 1 /\ mode' = "live"
  /\ records' = << >> /\ step' = 1 /\ exit' = "none"
  /\ worker' = [i \in Ids |-> "queued"]
  /\ session' = [i \in Ids |-> "none"] /\ next' = [i \in Ids |-> 1]
  /\ result' = [i \in Ids |-> Unread]
  /\ UNCHANGED <<sees, readOnly, raw, docs, pub, complete>>

\* A free thread of the pool takes the first target of the queue.
Take(i) ==
  /\ phase = "pool" /\ worker[i] = "queued"
  /\ \A j \in Ids : worker[j] = "queued" => i <= j
  /\ Cardinality({j \in Ids : worker[j] \in Active}) < Workers
  /\ worker' = [worker EXCEPT ![i] = IF Transport = "cli" THEN "cli" ELSE "probe"]
  /\ UNCHANGED <<sees, phase, mainVars, session, next, result, readOnly, files>>

ProbeNetconf(i) ==
  /\ worker[i] = "probe"
  /\ \/ worker' = [worker EXCEPT ![i] = "connect"]
     \/ "port" \in Faults /\ worker' = [worker EXCEPT ![i] = "netconf failed"]
  /\ UNCHANGED <<sees, phase, mainVars, session, next, result, readOnly, files>>

\* mutant: the directory is made, and the file is not
DirectoryOnly(n, f) ==
  [m \in DOMAIN raw \cup {n} |-> IF m \in DOMAIN raw THEN raw[m] ELSE {}]
\* The files of raw/<name>/ after f was added; the directory is made if need be.
WithFile(n, f) ==
  [m \in DOMAIN raw \cup {n} |->
     IF m # n THEN raw[m] ELSE IF n \in DOMAIN raw THEN raw[n] \cup {f} ELSE {f}]

\* SwitchSession.connect and _save_hello, which swallows every OSError.
Connect(i) ==
  /\ worker[i] = "connect"
  /\ \/ /\ session' = [session EXCEPT ![i] = "up"]
        /\ result' = [result EXCEPT ![i].reachable = TRUE]
        /\ worker' = [worker EXCEPT ![i] = "collect"]
        /\ raw' = IF readOnly THEN raw ELSE WithFile(Targets[i], "hello")
     \/ /\ "session" \in Faults
        /\ worker' = [worker EXCEPT ![i] = "netconf failed"]
        /\ UNCHANGED <<session, result, raw>>
  /\ UNCHANGED <<sees, phase, mainVars, next, readOnly, docs, pub, complete>>

\* A session that the switch hangs up fails every later read.
Drop(i) ==
  /\ "drop" \in Faults /\ session[i] = "up"
  /\ session' = [session EXCEPT ![i] = "dead"]
  /\ UNCHANGED <<sees, phase, mainVars, worker, next, result, readOnly, files>>

\* _record writes the capture of a read that succeeded.
WrittenAlways(ok) == TRUE       \* mutant: failed reads leave a file as well
Written(ok) == ok

\* One read of collect(): _rpc and _record.  A capture that cannot be written
\* keeps its reply, but a directory that cannot be made raises.
Read(i) ==
  LET n == Targets[i]
      f == Rpcs[next[i]]
      more == IF next[i] = Len(Rpcs) THEN "done" ELSE "collect"
  IN
  /\ worker[i] = "collect"
  /\ \E ok \in BOOLEAN :
       /\ session[i] = "dead" => ~ok
       /\ ~ok => session[i] = "dead" \/ "rpc" \in Faults
       /\ result' = [result EXCEPT ![i].ok = IF ok THEN @ \cup {f} ELSE @]
       /\ IF ~Written(ok)
            THEN raw' = raw /\ worker' = [worker EXCEPT ![i] = more]
            ELSE IF ~readOnly
            THEN raw' = WithFile(n, f) /\ worker' = [worker EXCEPT ![i] = more]
            ELSE /\ raw' = raw
                 /\ worker' = [worker EXCEPT ![i] =
                                 IF n \in DOMAIN raw THEN more ELSE "raised"]
       /\ next' = [next EXCEPT ![i] = @ + 1]
       /\ session' = [session EXCEPT ![i] =
                        IF worker'[i] \in {"done", "raised"} THEN "none" ELSE @]
  /\ UNCHANGED <<sees, phase, mainVars, readOnly, docs, pub, complete>>

\* Whether a target is turned over to the CLI: its NETCONF did not respond.
NotRespondingOrDead(i) ==       \* mutant: or its session died on the way
  worker[i] = "netconf failed" \/ (worker[i] = "collect" /\ session[i] = "dead")
NotResponding(i) == worker[i] = "netconf failed"

FallBack(i) ==
  /\ NotResponding(i)
  /\ worker' = [worker EXCEPT ![i] = IF Transport = "netconf" THEN "done" ELSE "cli"]
  /\ UNCHANGED <<sees, phase, mainVars, session, next, result, readOnly, files>>

\* IstaxSession.connect.  With or without an answer of the switch it fails:
\* _last_prompt is given the pair _read_until_prompt returns, not its text.
\* collect() then reads nothing.
CliConnect(i) ==
  /\ worker[i] = "cli"
  /\ result' = [result EXCEPT ![i] = [Unread EXCEPT !.transport = "cli"]]
  /\ worker' = [worker EXCEPT ![i] = "done"]
  /\ UNCHANGED <<sees, phase, mainVars, session, next, readOnly, files>>

-----------------------------------------------------------------------------
(* main(): results, records, exit code                                     *)

\* list(pool.map(...)) has every result, in the order of the targets.
MapDone ==
  /\ phase = "pool" /\ \A i \in Ids : worker[i] = "done"
  /\ phase' = "assemble"
  /\ UNCHANGED <<sees, mainVars, workerVars, readOnly, files>>

\* It raises at the first result that does not come: the targets still queued
\* are cancelled, the running workers go on.
Abort ==
  /\ phase' = "abort"
  /\ worker' = [i \in Ids |-> IF worker[i] = "queued" THEN "cancelled" ELSE worker[i]]
  /\ UNCHANGED <<sees, mainVars, session, next, result, readOnly, files>>
MapRaises ==
  /\ phase = "pool"
  /\ \E i \in Ids : worker[i] = "raised" /\ \A j \in 1 .. i - 1 : worker[j] = "done"
  /\ Abort

\* The pool waits for its threads before the exception leaves main().
AllAnswered == \A i \in Ids : worker[i] = "done"    \* mutant: it waits for results
PoolEmpty == \A i \in Ids : worker[i] \notin Active

AbortEnds ==
  /\ phase = "abort" /\ PoolEmpty
  /\ phase' = "idle" /\ exit' = "aborted"
  /\ UNCHANGED <<sees, runNo, mode, records, step, workerVars, readOnly, files>>

\* --reanalyse of this run directory: the targets are what raw/ lists.
Replayed(n) ==
  IF raw[n] \ {"hello"} = {} THEN Unread
  ELSE [transport |-> "netconf", reachable |-> TRUE, ok |-> raw[n] \ {"hello"}]
Reanalyse ==
  /\ phase = "idle" /\ runNo \in 1 .. MaxRuns - 1
  /\ raw # << >>
  /\ phase' = "assemble" /\ runNo' = runNo + 1 /\ mode' = "reanalyse"
  /\ records' = << >> /\ step' = 1 /\ exit' = "none"
  /\ UNCHANGED <<sees, workerVars, readOnly, files>>

\* The record of a name is the result of its last target.
LiveRecord(n) ==
  LET i == CHOOSE j \in Ids : Targets[j] = n /\ \A k \in Ids : Targets[k] = n => k <= j
  IN  result[i]
Assemble ==
  /\ phase = "assemble"
  /\ records' = IF mode = "live" THEN [n \in {Targets[i] : i \in Ids} |-> LiveRecord(n)]
                                 ELSE [n \in DOMAIN raw |-> Replayed(n)]
  /\ phase' = "write"
  /\ UNCHANGED <<sees, runNo, mode, step, exit, workerVars, readOnly, files>>

\* crosscheck(), over the nodes the records and their LLDP neighbours give.
Answered    == {n \in DOMAIN records : records[n].reachable}
Seen        == UNION {sees[n] : n \in {m \in Answered : "lldp" \in records[m].ok}}
Missing     == InvSwitches \ (Answered \cup Seen)
Extra       == (Answered \cup Seen) \ InvSwitches
UnreachableUnseen ==                       \* mutant: LLDP vouches for a switch
  DOMAIN records \ (Answered \cup Seen)
Unreachable == DOMAIN records \ Answered
Agreement   == Unreachable = {} /\ Missing = {} /\ Extra = {}

-----------------------------------------------------------------------------
(* main(): documents                                                       *)

WriteDocOver(published) ==
  /\ phase = "write" /\ ~readOnly
  /\ docs' = [docs EXCEPT ![Docs[step]] = runNo]
  /\ pub' = published
  /\ IF step = Len(Docs)
       THEN phase' = "publish" /\ step' = 1 /\ complete' = complete \cup {runNo}
       ELSE phase' = phase /\ step' = step + 1 /\ complete' = complete
  /\ UNCHANGED <<sees, runNo, mode, records, exit, workerVars, readOnly, raw>>
WriteAndPublish == WriteDocOver([pub EXCEPT ![Docs[step]] = runNo])     \* mutant
WriteDoc == WriteDocOver(pub)

\* The copies are taken one by one; the exit code follows the last one.
Publish ==
  /\ phase = "publish" /\ ~readOnly
  /\ pub' = [pub EXCEPT ![Docs[step]] = docs[Docs[step]]]
  /\ IF step = Len(Docs)
       THEN /\ phase' = "idle" /\ step' = 1
            /\ exit' = IF Agreement THEN "clean" ELSE "attention"
       ELSE phase' = phase /\ step' = step + 1 /\ exit' = exit
  /\ UNCHANGED <<sees, runNo, mode, records, workerVars, readOnly, raw, docs, complete>>

\* An exception of main() outside the pool.
MainRaises ==
  /\ phase \in {"write", "publish"} /\ readOnly
  /\ phase' = "idle" /\ exit' = "aborted"
  /\ UNCHANGED <<sees, runNo, mode, records, step, workerVars, readOnly, files>>

\* Ctrl-C: KeyboardInterrupt in main(), whatever it does.
Interrupt ==
  /\ "int" \in Faults
  /\ \/ phase = "pool" /\ Abort
     \/ /\ phase \in {"assemble", "write", "publish"}
        /\ phase' = "idle" /\ exit' = "aborted"
        /\ UNCHANGED <<sees, runNo, mode, records, step, workerVars, readOnly, files>>

Kill ==
  /\ "kill" \in Faults /\ phase # "idle"
  /\ phase' = "idle" /\ exit' = "aborted"
  /\ worker' = [i \in Ids |-> IF worker[i] = "done" THEN "done" ELSE "cancelled"]
  /\ session' = [i \in Ids |-> "none"]
  /\ UNCHANGED <<sees, runNo, mode, records, step, next, result, readOnly, files>>

DiskFails ==
  /\ "disk" \in Faults /\ ~readOnly /\ phase # "idle"
  /\ readOnly' = TRUE
  /\ UNCHANGED <<sees, phase, mainVars, workerVars, files>>

Discover(i) == \/ Take(i) \/ ProbeNetconf(i) \/ Connect(i) \/ Read(i)
               \/ FallBack(i) \/ CliConnect(i)
Main == MapDone \/ MapRaises \/ AbortEnds \/ Assemble \/ WriteDoc \/ Publish \/ MainRaises
Next == \/ StartLive \/ Reanalyse \/ Main
        \/ \E i \in Ids : Discover(i) \/ Drop(i)
        \/ Interrupt \/ Kill \/ DiskFails

Spec == Init /\ [][Next]_vars

\* Threads and main() go on while they can: probes, sessions and reads have
\* timeouts.  Nothing is assumed of the operator or of faults.
FairSpec == Spec /\ WF_vars(Main) /\ \A i \in Ids : WF_vars(Discover(i))

-----------------------------------------------------------------------------
(* Properties                                                              *)

TypeOK ==
  /\ sees \in Wirings
  /\ phase \in {"idle", "pool", "abort", "assemble", "write", "publish"}
  /\ runNo \in 0 .. MaxRuns /\ mode \in {"live", "reanalyse"}
  /\ DOMAIN records \subseteq Names /\ \A n \in DOMAIN records : records[n] \in Result
  /\ step \in DOMAIN Docs /\ exit \in {"none", "clean", "attention", "aborted"}
  /\ worker \in [Ids -> WorkerStates]
  /\ session \in [Ids -> {"none", "up", "dead"}]
  /\ next \in [Ids -> 1 .. Len(Rpcs) + 1] /\ result \in [Ids -> Result]
  /\ readOnly \in BOOLEAN
  /\ DOMAIN raw \subseteq Names
  /\ \A n \in DOMAIN raw : raw[n] # {} /\ raw[n] \subseteq Files
  /\ docs \in [DocNames -> 0 .. MaxRuns] /\ pub \in [DocNames -> 0 .. MaxRuns]
  /\ complete \subseteq 1 .. MaxRuns

\* Targets from SYSTEM.md have different names; --switch does not enforce it.
DistinctNames == \A i, j \in Ids : Targets[i] = Targets[j] => i = j

\* A live run that ends with code 0 was answered by every target, every switch
\* of SYSTEM.md was a target or seen by one, and none of the answers told of a
\* stranger, whatever the order and the failures of the workers: the exit code
\* can gate a campaign (cli.py, "Exit codes are meaningful").
SeenBy(i) == IF "lldp" \in result[i].ok THEN sees[Targets[i]] ELSE {}
CleanRunAnswered ==
  DistinctNames /\ exit = "clean" /\ mode = "live" =>
    /\ \A i \in Ids : result[i].reachable /\ Stranger \notin SeenBy(i)
    /\ \A n \in InvSwitches : \E i \in Ids : Targets[i] = n \/ n \in SeenBy(i)

\* A target is turned over to the CLI only when NETCONF left nothing behind:
\* its directory cannot come to hold the captures of both transports
\* (result_from_raw, "the fallback only ran because NETCONF had failed before
\* any XML was written").
FallbackBeforeXml ==
  DistinctNames =>
    \A i \in Ids :
      worker[i] = "cli" \/ result[i].transport = "cli" => Targets[i] \notin DOMAIN raw

\* A reanalysis shows no switch and no reply the live run had not read, also
\* after an interrupted or killed run; and unless the disk failed, a switch
\* that gave any reply is shown with exactly its replies (netconf.py, "Every
\* reply is written to disk verbatim").
ReplayFaithful ==
  DistinctNames /\ mode = "reanalyse" /\ records # << >> =>
    \A i \in Ids :
      LET n == Targets[i] IN
      /\ n \in Answered => result[i].reachable /\ records[n].ok \subseteq result[i].ok
      /\ result[i].ok # {} /\ ~readOnly =>
           n \in Answered /\ records[n].ok = result[i].ok

\* Only runs that got to write all their documents reach the published
\* directory, wherever a run raises, is interrupted or killed.
PublishedWhole == \A d \in DocNames : pub[d] # 0 => pub[d] \in complete

\* Every run comes to an end: a switch that fails, a worker that raises or a
\* disk that fails never leaves main() waiting for its pool.
RunEnds == phase # "idle" ~> phase = "idle"

-----------------------------------------------------------------------------
(* What the code and its documents say, and the code does not do           *)

\* With --transport auto, a switch whose CLI accepts a login is read even where
\* NETCONF does not respond (build_parser, "fall back to the ISTAX CLI only
\* where it does not answer").
FallbackReads ==
  Transport = "auto" =>
    \A i \in Ids : worker[i] = "done" /\ runNo > 0 /\ Targets[i] \in CliAnswers
                    => result[i].reachable
=============================================================================
