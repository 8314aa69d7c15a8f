-------------------------- MODULE DiscoveryProofs --------------------------
(***************************************************************************)
(* Theorems about Discovery, for every list of targets, wiring, transport, *)
(* size of the pool and set of faults that DiscoveryAssumption allows.     *)
(***************************************************************************)
EXTENDS Discovery, FiniteSetTheorems, TLAPS

-----------------------------------------------------------------------------
(* The constants.                                                          *)

\* Reads and documents are numbered from 1, and there are some.
LEMMA Numbers ==
  /\ Len(Rpcs) \in Nat \ {0} /\ DOMAIN Rpcs = 1 .. Len(Rpcs)
  /\ Len(Docs) \in Nat \ {0} /\ DOMAIN Docs = 1 .. Len(Docs)
<1>1. Rpcs # << >>
  BY DiscoveryAssumption DEF Files
<1> QED
  BY <1>1, DiscoveryAssumption

\* Every read, and the hello, is a file.
LEMMA ReadsAreFiles == "hello" \in Files /\ \A k \in 1 .. Len(Rpcs) : Rpcs[k] \in Files
BY Numbers DEF Files

-----------------------------------------------------------------------------
(* The steps that touch the workers.                                       *)

\* Queued targets are cancelled, or all that run.
Cancel ==
  /\ \/ worker' = [i \in Ids |-> IF worker[i] = "queued" THEN "cancelled" ELSE worker[i]]
     \/ worker' = [i \in Ids |-> IF worker[i] = "done" THEN "done" ELSE "cancelled"]
  /\ next' = next /\ result' = result /\ raw' = raw /\ runNo' = runNo
  /\ readOnly => readOnly'

\* The workers stay; a run over their files may start.
Stay ==
  /\ worker' = worker /\ next' = next /\ result' = result /\ raw' = raw
  /\ runNo' = runNo \/ runNo' # 0
  /\ readOnly => readOnly'

\* A step starts the live run, cancels workers, is one of a worker or of its
\* session, or leaves the workers as they are.
LEMMA WorkerSteps ==
  ASSUME [Next]_vars
  PROVE  StartLive \/ Cancel \/ (\E i \in Ids : Discover(i) \/ Drop(i)) \/ Stay
<1>1. ASSUME Reanalyse PROVE Stay
  <2>1. runNo' # 0
    BY <1>1, DiscoveryAssumption DEF Reanalyse
  <2> QED  BY <1>1, <2>1 DEF Reanalyse, Stay, workerVars, files
<1>2. ASSUME Main PROVE Cancel \/ Stay
  <2>1. ASSUME MapRaises PROVE Cancel
    BY <2>1 DEF MapRaises, Abort, Cancel, mainVars, files
  <2>2. ASSUME MapDone \/ AbortEnds \/ Assemble \/ MainRaises PROVE Stay
    BY <2>2 DEF MapDone, AbortEnds, Assemble, MainRaises, Stay, mainVars, workerVars, files
  <2>3. ASSUME WriteDoc \/ Publish PROVE Stay
    BY <2>3 DEF WriteDoc, WriteDocOver, Publish, Stay, workerVars
  <2> QED  BY <1>2, <2>1, <2>2, <2>3 DEF Main
<1>3. ASSUME Interrupt PROVE Cancel \/ Stay
  BY <1>3 DEF Interrupt, Abort, Cancel, Stay, mainVars, workerVars, files
<1>4. ASSUME Kill PROVE Cancel
  BY <1>4 DEF Kill, Cancel, files
<1>5. ASSUME DiskFails PROVE Stay
  BY <1>5 DEF DiskFails, Stay, mainVars, workerVars, files
<1>6. ASSUME UNCHANGED vars PROVE Stay
  BY <1>6 DEF vars, Stay
<1> QED
  BY <1>1, <1>2, <1>3, <1>4, <1>5, <1>6 DEF Next

-----------------------------------------------------------------------------
(* Types of the workers.                                                   *)

ThreadType == worker \in [Ids -> WorkerStates] /\ result \in [Ids -> Result]

\* A worker has done no read before it collects, and one is left when it does.
NextType ==
  /\ next \in [Ids -> Nat]
  /\ \A i \in Ids :
       /\ worker[i] \in {"queued", "probe", "connect"} => next[i] = 1
       /\ worker[i] = "collect" => next[i] \in 1 .. Len(Rpcs)

LEMMA UnreadType == Unread \in Result /\ [Unread EXCEPT !.transport = "cli"] \in Result
BY DEF Unread, Result

\* What a session and a read change of a result.
LEMMA ConnectedType ==
  ASSUME result \in [Ids -> Result], NEW i \in Ids
  PROVE  [result EXCEPT ![i].reachable = TRUE] \in [Ids -> Result]
<1>1. [result[i] EXCEPT !.reachable = TRUE] \in Result
  BY DEF Result
<1> QED
  BY <1>1

LEMMA RepliesType ==
  ASSUME result \in [Ids -> Result], NEW i \in Ids, NEW S \in SUBSET Files
  PROVE  [result EXCEPT ![i].ok = S] \in [Ids -> Result]
<1>1. [result[i] EXCEPT !.ok = S] \in Result
  BY DEF Result
<1> QED
  BY <1>1

LEMMA TypesInit == Init => ThreadType /\ NextType
BY UnreadType DEF Init, ThreadType, NextType, WorkerStates

LEMMA ThreadTypeStep ==
  ASSUME ThreadType, NextType, [Next]_vars
  PROVE  ThreadType'
<1>1. CASE StartLive
  BY <1>1, UnreadType DEF StartLive, ThreadType, WorkerStates
<1>2. CASE Cancel
  BY <1>2 DEF Cancel, ThreadType, WorkerStates
<1>3. ASSUME NEW i \in Ids, Take(i) \/ ProbeNetconf(i) \/ FallBack(i)
      PROVE  ThreadType'
  BY <1>3 DEF Take, ProbeNetconf, FallBack, ThreadType, WorkerStates
<1>4. ASSUME NEW i \in Ids, Connect(i)
      PROVE  ThreadType'
  BY <1>4, ConnectedType DEF Connect, ThreadType, WorkerStates
<1>5. ASSUME NEW i \in Ids, Read(i)
      PROVE  ThreadType'
  <2>1. Rpcs[next[i]] \in Files
    BY <1>5, ReadsAreFiles DEF Read, NextType
  <2>2. result[i].ok \in SUBSET Files /\ result[i].ok \cup {Rpcs[next[i]]} \in SUBSET Files
    BY <2>1 DEF ThreadType, Result
  <2>3. PICK ok \in BOOLEAN :
          result' = [result EXCEPT ![i].ok = IF ok THEN @ \cup {Rpcs[next[i]]} ELSE @]
    BY <1>5 DEF Read
  <2>4. result' \in [Ids -> Result]
    BY <2>2, <2>3, RepliesType DEF ThreadType
  <2>5. worker' \in [Ids -> WorkerStates]
    BY <1>5 DEF Read, ThreadType, WorkerStates
  <2> QED  BY <2>4, <2>5 DEF ThreadType
<1>6. ASSUME NEW i \in Ids, CliConnect(i)
      PROVE  ThreadType'
  BY <1>6, UnreadType DEF CliConnect, ThreadType, WorkerStates
<1>7. ASSUME NEW i \in Ids, Drop(i)
      PROVE  ThreadType'
  BY <1>7 DEF Drop, ThreadType
<1>8. CASE Stay
  BY <1>8 DEF Stay, ThreadType
<1> QED
  BY <1>1, <1>2, <1>3, <1>4, <1>5, <1>6, <1>7, <1>8, WorkerSteps DEF Discover

LEMMA NextTypeStep ==
  ASSUME ThreadType, NextType, [Next]_vars
  PROVE  NextType'
<1>1. CASE StartLive
  BY <1>1 DEF StartLive, NextType
<1>2. CASE Cancel
  BY <1>2 DEF Cancel, ThreadType, NextType
<1>3. ASSUME NEW i \in Ids, Take(i) \/ ProbeNetconf(i) \/ FallBack(i) \/ CliConnect(i)
      PROVE  NextType'
  BY <1>3 DEF Take, ProbeNetconf, FallBack, NotResponding, CliConnect, ThreadType, NextType
<1>4. ASSUME NEW i \in Ids, Connect(i)
      PROVE  NextType'
  <2>1. next[i] \in 1 .. Len(Rpcs)
    <3>1. next[i] = 1
      BY <1>4 DEF Connect, NextType
    <3> QED  BY <3>1, Numbers
  <2>2. /\ next' = next /\ worker'[i] \in {"collect", "netconf failed"}
        /\ \A j \in Ids \ {i} : worker'[j] = worker[j]
    BY <1>4 DEF Connect, ThreadType
  <2> QED  BY <2>1, <2>2 DEF NextType
<1>5. ASSUME NEW i \in Ids, Read(i)
      PROVE  NextType'
  <2>1. next' = [next EXCEPT ![i] = next[i] + 1] /\ next[i] \in 1 .. Len(Rpcs)
    BY <1>5 DEF Read, NextType
  <2>2. /\ worker'[i] \in {"done", "raised", "collect"}
        /\ worker'[i] = "collect" => next[i] # Len(Rpcs)
        /\ \A j \in Ids \ {i} : worker'[j] = worker[j]
    BY <1>5 DEF Read, ThreadType
  <2>3. next[i] # Len(Rpcs) => next[i] + 1 \in 1 .. Len(Rpcs)
    BY <2>1, Numbers
  <2>4. next[i] + 1 \in Nat
    BY <2>1, Numbers
  <2> QED  BY <2>1, <2>2, <2>3, <2>4 DEF NextType
<1>6. ASSUME NEW i \in Ids, Drop(i)
      PROVE  NextType'
  BY <1>6 DEF Drop, NextType
<1>7. CASE Stay
  BY <1>7 DEF Stay, NextType
<1> QED
  BY <1>1, <1>2, <1>3, <1>4, <1>5, <1>6, <1>7, WorkerSteps DEF Discover

-----------------------------------------------------------------------------
(* A switch that is turned over to the CLI has no captures.                *)

\* The states of a worker whose switch has not answered yet.
Unanswered == {"queued", "probe", "connect", "netconf failed", "cli"}

\* There are no captures before the live run, and none of a target that has
\* not answered or was read by its CLI: the strengthening that makes
\* FallbackBeforeXml inductive.
FallbackInv ==
  /\ runNo = 0 => DOMAIN raw = {} /\ \A i \in Ids : worker[i] = "done"
  /\ \A i \in Ids : worker[i] \in Unanswered => Targets[i] \notin DOMAIN raw
  /\ \A i \in Ids :
       result[i].transport = "cli" =>
         worker[i] \in {"done", "cancelled"} /\ Targets[i] \notin DOMAIN raw

LEMMA FallbackInit == Init => FallbackInv
<1>1. Init => DOMAIN raw = {}
  BY DEF Init
<1>2. Init => \A i \in Ids : worker[i] = "done" /\ result[i] = Unread
  BY DEF Init
<1>3. Unread.transport # "cli"
  BY DEF Unread
<1> QED
  BY <1>1, <1>2, <1>3 DEF FallbackInv, Unanswered

\* A connecting or reading worker only makes the directory of its own target.
LEMMA OwnDirectory ==
  ASSUME NEW i \in Ids, Connect(i) \/ Read(i)
  PROVE  DOMAIN raw' = DOMAIN raw \/ DOMAIN raw' = DOMAIN raw \cup {Targets[i]}
<1>1. \A f : DOMAIN WithFile(Targets[i], f) = DOMAIN raw \cup {Targets[i]}
  BY DEF WithFile
<1>2. raw' = raw \/ \E f : raw' = WithFile(Targets[i], f)
  BY DEF Connect, Read
<1> QED
  BY <1>1, <1>2

LEMMA FallbackStep ==
  ASSUME DistinctNames, ThreadType, FallbackInv, [Next]_vars
  PROVE  FallbackInv'
<1>1. CASE StartLive
  <2>1. DOMAIN raw' = {} /\ runNo' # 0
    BY <1>1 DEF StartLive, FallbackInv
  <2>2. \A i \in Ids : result'[i].transport # "cli"
    BY <1>1 DEF StartLive, Unread
  <2> QED  BY <2>1, <2>2 DEF FallbackInv
<1>2. CASE Cancel
  BY <1>2 DEF Cancel, ThreadType, FallbackInv, Unanswered
<1>3. ASSUME NEW i \in Ids, Take(i) \/ ProbeNetconf(i) \/ FallBack(i)
      PROVE  FallbackInv'
  BY <1>3 DEF Take, ProbeNetconf, FallBack, NotResponding, mainVars, files,
              ThreadType, FallbackInv, Unanswered
<1>4. ASSUME NEW i \in Ids, Connect(i) \/ Read(i)
      PROVE  FallbackInv'
  <2>1. worker[i] \in {"connect", "collect"} /\ runNo' = runNo
    BY <1>4 DEF Connect, Read, mainVars
  <2>2. /\ worker'[i] \in {"collect", "done", "raised"} \/ raw' = raw
        /\ worker'[i] \in {"collect", "done", "raised"} \/ worker[i] = "connect"
        /\ \A j \in Ids \ {i} : worker'[j] = worker[j]
    BY <1>4 DEF Connect, Read, ThreadType
  <2>3. \A j \in Ids : result'[j].transport = result[j].transport
    <3>1. \A j \in Ids \ {i} : result'[j] = result[j]
      BY <1>4 DEF Connect, Read, ThreadType
    <3>2. CASE Connect(i)
      <4>1. result' = result \/ result' = [result EXCEPT ![i].reachable = TRUE]
        BY <3>2 DEF Connect
      <4>2. result[i] \in Result
        BY DEF ThreadType
      <4>3. [result[i] EXCEPT !.reachable = TRUE].transport = result[i].transport
        BY <4>2 DEF Result
      <4> QED  BY <3>1, <4>1, <4>3 DEF ThreadType
    <3>3. CASE Read(i)
      BY <1>4, <3>3 DEF Read, ThreadType, Result
    <3> QED  BY <1>4, <3>1, <3>2, <3>3
  <2>4. DOMAIN raw' = DOMAIN raw \/ DOMAIN raw' = DOMAIN raw \cup {Targets[i]}
    BY <1>4, OwnDirectory
  <2>5. \A j \in Ids \ {i} : Targets[j] # Targets[i]
    BY DEF DistinctNames
  <2>6. runNo # 0
    BY <2>1 DEF FallbackInv
  <2>7. result[i].transport # "cli"
    BY <2>1 DEF FallbackInv
  <2>8. ASSUME NEW j \in Ids, worker'[j] \in Unanswered
        PROVE  Targets[j] \notin DOMAIN raw'
    BY <2>1, <2>2, <2>4, <2>5, <2>8 DEF FallbackInv, Unanswered
  <2>9. ASSUME NEW j \in Ids, result'[j].transport = "cli"
        PROVE  worker'[j] \in {"done", "cancelled"} /\ Targets[j] \notin DOMAIN raw'
    BY <2>2, <2>3, <2>4, <2>5, <2>7, <2>9 DEF FallbackInv
  <2> QED  BY <2>1, <2>6, <2>8, <2>9 DEF FallbackInv
<1>5. ASSUME NEW i \in Ids, CliConnect(i)
      PROVE  FallbackInv'
  <2>1. worker[i] = "cli" /\ raw' = raw /\ runNo' = runNo
    BY <1>5 DEF CliConnect, mainVars, files
  <2>2. /\ worker'[i] = "done"
        /\ \A j \in Ids \ {i} : worker'[j] = worker[j] /\ result'[j] = result[j]
    BY <1>5 DEF CliConnect, ThreadType
  <2> QED  BY <2>1, <2>2 DEF FallbackInv, Unanswered
<1>6. ASSUME NEW i \in Ids, Drop(i)
      PROVE  FallbackInv'
  BY <1>6 DEF Drop, mainVars, files, FallbackInv
<1>7. CASE Stay
  BY <1>7 DEF Stay, FallbackInv
<1> QED
  BY <1>1, <1>2, <1>3, <1>4, <1>5, <1>6, <1>7, WorkerSteps DEF Discover

-----------------------------------------------------------------------------
(* The captures of a target are the replies it gave.                       *)

\* What raw/ holds of a target was read from it, and all that was read is held
\* as long as the disk could be written.
CopyInv ==
  \A i \in Ids :
    LET n == Targets[i] IN
    /\ worker[i] = "collect" \/ n \in DOMAIN raw => result[i].reachable
    /\ n \in DOMAIN raw => raw[n] \ {"hello"} \subseteq result[i].ok
    /\ n \in DOMAIN raw /\ ~readOnly => raw[n] \ {"hello"} = result[i].ok
    /\ n \notin DOMAIN raw /\ ~readOnly => result[i].ok = {}

LEMMA CopyInit == Init => CopyInv
<1> SUFFICES ASSUME Init PROVE CopyInv
  OBVIOUS
<1>1. DOMAIN raw = {}
  BY DEF Init
<1>2. \A i \in Ids : worker[i] = "done" /\ result[i].ok = {}
  BY DEF Init, Unread
<1> QED
  BY <1>1, <1>2 DEF CopyInv

\* A step of worker i only changes the directory, the result and the state
\* that belong to i, and the disk stays as it is.
OwnStep(i) ==
  /\ \A j \in Ids \ {i} : worker'[j] = worker[j] /\ result'[j] = result[j]
  /\ \A n \in DOMAIN raw : n \in DOMAIN raw' /\ (n # Targets[i] => raw'[n] = raw[n])
  /\ \A n \in DOMAIN raw' : n \in DOMAIN raw \/ n = Targets[i]
  /\ readOnly' = readOnly

\* CopyInv for target i.
CopyOf(i) ==
  /\ worker[i] = "collect" \/ Targets[i] \in DOMAIN raw => result[i].reachable
  /\ Targets[i] \in DOMAIN raw => raw[Targets[i]] \ {"hello"} \subseteq result[i].ok
  /\ Targets[i] \in DOMAIN raw /\ ~readOnly => raw[Targets[i]] \ {"hello"} = result[i].ok
  /\ Targets[i] \notin DOMAIN raw /\ ~readOnly => result[i].ok = {}

LEMMA CopyElsewhere ==
  ASSUME DistinctNames, CopyInv, NEW i \in Ids, OwnStep(i), CopyOf(i)'
  PROVE  CopyInv'
<1>1. ASSUME NEW j \in Ids \ {i} PROVE CopyOf(j)'
  <2>1. Targets[j] # Targets[i] /\ CopyOf(j)
    BY DEF DistinctNames, CopyInv, CopyOf
  <2>2. Targets[j] \in DOMAIN raw' <=> Targets[j] \in DOMAIN raw
    BY <2>1 DEF OwnStep
  <2>3. Targets[j] \in DOMAIN raw => raw'[Targets[j]] = raw[Targets[j]]
    BY <2>1 DEF OwnStep
  <2> QED  BY <2>1, <2>2, <2>3 DEF OwnStep, CopyOf
<1> QED
  BY <1>1 DEF CopyInv, CopyOf

\* The file f added to the directory of a target.
LEMMA FileAdded ==
  ASSUME NEW n, NEW f
  PROVE  /\ DOMAIN WithFile(n, f) = DOMAIN raw \cup {n}
         /\ \A m \in DOMAIN raw : m # n => WithFile(n, f)[m] = raw[m]
         /\ n \in DOMAIN raw => WithFile(n, f)[n] = raw[n] \cup {f}
         /\ n \notin DOMAIN raw => WithFile(n, f)[n] = {f}
BY DEF WithFile

LEMMA CopyConnect ==
  ASSUME DistinctNames, ThreadType, FallbackInv, CopyInv, NEW i \in Ids, Connect(i)
  PROVE  CopyInv'
<1> DEFINE n == Targets[i]
<1>1. n \notin DOMAIN raw /\ worker[i] = "connect"
  BY DEF Connect, FallbackInv, Unanswered
<1>2. CopyOf(i)
  BY DEF CopyInv, CopyOf
<1>3. CASE session' = [session EXCEPT ![i] = "up"]
           /\ result' = [result EXCEPT ![i].reachable = TRUE]
           /\ worker' = [worker EXCEPT ![i] = "collect"]
           /\ raw' = IF readOnly THEN raw ELSE WithFile(n, "hello")
  <2>1. result'[i].reachable /\ result'[i].ok = result[i].ok
    BY <1>3 DEF ThreadType, Result
  <2>2. readOnly' = readOnly
    BY DEF Connect
  <2>3. CASE readOnly
    <3>1. OwnStep(i)
      BY <1>3, <2>2, <2>3 DEF OwnStep, ThreadType
    <3>2. CopyOf(i)'
      BY <1>1, <1>3, <2>1, <2>2, <2>3 DEF CopyOf
    <3> QED  BY <3>1, <3>2, CopyElsewhere
  <2>4. CASE ~readOnly
    <3>1. raw' = WithFile(n, "hello")
      BY <1>3, <2>4
    <3>2. /\ DOMAIN raw' = DOMAIN raw \cup {n} /\ raw'[n] = {"hello"}
          /\ \A m \in DOMAIN raw : m # n => raw'[m] = raw[m]
      <4>1. /\ DOMAIN WithFile(n, "hello") = DOMAIN raw \cup {n}
            /\ \A m \in DOMAIN raw : m # n => WithFile(n, "hello")[m] = raw[m]
            /\ n \notin DOMAIN raw => WithFile(n, "hello")[n] = {"hello"}
        BY DEF WithFile
      <4> QED  BY <1>1, <3>1, <4>1
    <3>3. OwnStep(i)
      BY <1>3, <2>2, <3>2 DEF OwnStep, ThreadType
    <3>4. result[i].ok = {}
      BY <1>1, <1>2, <2>4 DEF CopyOf
    <3>5. CopyOf(i)'
      BY <2>1, <3>2, <3>4 DEF CopyOf
    <3> QED  BY <3>3, <3>5, CopyElsewhere
  <2> QED  BY <2>3, <2>4
<1>4. CASE /\ worker' = [worker EXCEPT ![i] = "netconf failed"]
           /\ UNCHANGED <<session, result, raw>>
  <2>1. OwnStep(i)
    BY <1>4 DEF Connect, OwnStep, ThreadType
  <2>2. CopyOf(i)'
    BY <1>2, <1>4 DEF Connect, CopyOf, ThreadType
  <2> QED  BY <2>1, <2>2, CopyElsewhere
<1> QED
  BY <1>3, <1>4 DEF Connect

LEMMA CopyRead ==
  ASSUME DistinctNames, ThreadType, NextType, CopyInv, NEW i \in Ids, Read(i)
  PROVE  CopyInv'
<1> DEFINE n == Targets[i]
           f == Rpcs[next[i]]
<1>1. worker[i] = "collect" /\ f # "hello"
  BY Numbers, DiscoveryAssumption DEF Read, NextType
<1>2. CopyOf(i)
  BY DEF CopyInv, CopyOf
<1>3. PICK ok \in BOOLEAN :
        /\ result' = [result EXCEPT ![i].ok = IF ok THEN @ \cup {f} ELSE @]
        /\ (ok /\ ~readOnly /\ raw' = WithFile(n, f)) \/ (raw' = raw /\ (ok => readOnly))
  BY DEF Read, Written
<1>4. /\ readOnly' = readOnly
      /\ \A j \in Ids \ {i} : worker'[j] = worker[j] /\ result'[j] = result[j]
  BY DEF Read, ThreadType
<1>5. /\ result'[i].reachable = result[i].reachable
      /\ result'[i].ok = IF ok THEN result[i].ok \cup {f} ELSE result[i].ok
  BY <1>3 DEF ThreadType, Result
<1>6. CASE ok /\ ~readOnly /\ raw' = WithFile(n, f)
  <2>1. /\ DOMAIN WithFile(n, f) = DOMAIN raw \cup {n}
        /\ \A m \in DOMAIN raw : m # n => WithFile(n, f)[m] = raw[m]
        /\ n \in DOMAIN raw => WithFile(n, f)[n] = raw[n] \cup {f}
        /\ n \notin DOMAIN raw => WithFile(n, f)[n] = {f}
    BY FileAdded
  <2>2. OwnStep(i)
    BY <1>4, <1>6, <2>1 DEF OwnStep
  <2>3. n \in DOMAIN raw' /\ raw'[n] \ {"hello"} = result[i].ok \cup {f}
    BY <1>1, <1>2, <1>6, <2>1 DEF CopyOf
  <2>4. CopyOf(i)'
    BY <1>1, <1>2, <1>4, <1>5, <1>6, <2>3 DEF CopyOf
  <2> QED  BY <2>2, <2>4, CopyElsewhere
<1>7. CASE raw' = raw /\ (ok => readOnly)
  <2>1. OwnStep(i)
    BY <1>4, <1>7 DEF OwnStep
  <2>2. CopyOf(i)'
    BY <1>1, <1>2, <1>4, <1>5, <1>7 DEF CopyOf
  <2> QED  BY <2>1, <2>2, CopyElsewhere
<1> QED
  BY <1>3, <1>6, <1>7

LEMMA CopyStep ==
  ASSUME DistinctNames, ThreadType, NextType, FallbackInv, CopyInv, [Next]_vars
  PROVE  CopyInv'
<1>1. CASE StartLive
  <2>1. DOMAIN raw' = {}
    BY <1>1 DEF StartLive, FallbackInv
  <2>2. \A i \in Ids : worker'[i] = "queued" /\ result'[i].ok = {}
    BY <1>1 DEF StartLive, Unread
  <2> QED  BY <2>1, <2>2 DEF CopyInv
<1>2. CASE Cancel
  BY <1>2 DEF Cancel, ThreadType, CopyInv
<1>3. ASSUME NEW i \in Ids, Take(i) \/ ProbeNetconf(i) \/ FallBack(i)
      PROVE  CopyInv'
  <2>1. result' = result /\ raw' = raw /\ readOnly' = readOnly
    BY <1>3 DEF Take, ProbeNetconf, FallBack, files
  <2>2. \A j \in Ids : worker'[j] = "collect" => worker[j] = "collect"
    BY <1>3 DEF Take, ProbeNetconf, FallBack, ThreadType
  <2> QED  BY <2>1, <2>2 DEF CopyInv
<1>4. ASSUME NEW i \in Ids, CliConnect(i)
      PROVE  CopyInv'
  <2>1. Targets[i] \notin DOMAIN raw
    BY <1>4 DEF CliConnect, FallbackInv, Unanswered
  <2>2. raw' = raw /\ readOnly' = readOnly
    BY <1>4 DEF CliConnect, files
  <2>3. /\ worker'[i] = "done" /\ result'[i].ok = {}
        /\ \A j \in Ids \ {i} : worker'[j] = worker[j] /\ result'[j] = result[j]
    BY <1>4 DEF CliConnect, ThreadType, Unread
  <2> QED  BY <2>1, <2>2, <2>3 DEF CopyInv
<1>5. ASSUME NEW i \in Ids, Drop(i)
      PROVE  CopyInv'
  BY <1>5 DEF Drop, files, CopyInv
<1>6. CASE Stay
  BY <1>6 DEF Stay, CopyInv
<1> QED
  BY <1>1, <1>2, <1>3, <1>4, <1>5, <1>6, CopyConnect, CopyRead, WorkerSteps DEF Discover

-----------------------------------------------------------------------------
(* Records are made of the results of this run, or of its captures.        *)

\* Outside the pool no worker runs, and a reanalysis has none.
RestInv ==
  /\ phase \notin {"pool", "abort"} => \A i \in Ids : worker[i] \notin Active \cup {"queued"}
  /\ phase = "abort" => \A i \in Ids : worker[i] # "queued"
  /\ mode = "reanalyse" => phase \notin {"pool", "abort"}

LEMMA RestInit == Init => RestInv
BY DEF Init, RestInv, Active

LEMMA RestStep ==
  ASSUME ThreadType, RestInv, [Next]_vars
  PROVE  RestInv'
<1>1. CASE StartLive
  BY <1>1 DEF StartLive, RestInv
<1>2. CASE Reanalyse
  BY <1>2 DEF Reanalyse, RestInv, workerVars
<1>3. CASE MapDone
  BY <1>3 DEF MapDone, RestInv, mainVars, workerVars, Active
<1>4. ASSUME Abort, phase = "pool"
      PROVE  RestInv'
  BY <1>4 DEF Abort, RestInv, ThreadType, mainVars
<1>5. CASE AbortEnds
  BY <1>5 DEF AbortEnds, PoolEmpty, RestInv, workerVars
<1>6. CASE Assemble \/ WriteDoc \/ Publish \/ MainRaises
  BY <1>6 DEF Assemble, WriteDoc, WriteDocOver, Publish, MainRaises, RestInv, workerVars
<1>7. CASE Kill
  BY <1>7 DEF Kill, RestInv, Active
<1>8. CASE DiskFails
  BY <1>8 DEF DiskFails, RestInv, mainVars, workerVars
<1>9. CASE Interrupt
  <2>1. CASE phase = "pool" /\ Abort
    BY <1>4, <2>1
  <2>2. CASE phase \in {"assemble", "write", "publish"} /\ phase' = "idle"
    BY <1>9, <2>2 DEF Interrupt, RestInv, workerVars
  <2> QED  BY <1>9, <2>1, <2>2 DEF Interrupt
<1>10. ASSUME NEW i \in Ids, Discover(i)
       PROVE  RestInv'
  <2>1. phase \in {"pool", "abort"} /\ phase' = phase /\ mode' = mode
    BY <1>10 DEF Discover, Take, ProbeNetconf, Connect, Read, FallBack, NotResponding,
                 CliConnect, mainVars, RestInv, Active
  <2>2. \A j \in Ids : worker'[j] = "queued" => worker[j] = "queued"
    BY <1>10 DEF Discover, Take, ProbeNetconf, Connect, Read, FallBack, CliConnect, ThreadType
  <2> QED  BY <2>1, <2>2 DEF RestInv
<1>11. ASSUME NEW i \in Ids, Drop(i)
       PROVE  RestInv'
  BY <1>11 DEF Drop, RestInv, mainVars
<1>12. CASE UNCHANGED vars
  BY <1>12 DEF vars, RestInv
<1> QED
  BY <1>1, <1>2, <1>3, <1>4, <1>5, <1>6, <1>7, <1>8, <1>9, <1>10, <1>11, <1>12
     DEF Next, Main, MapRaises

\* Records are of the results a live run ends with or of what raw/ holds, and
\* the code 0 is given where they agree with SYSTEM.md.
RecordInv ==
  /\ mode = "reanalyse" =>
       records = << >> \/ records = [n \in DOMAIN raw |-> Replayed(n)]
  /\ mode = "live" /\ (phase \in {"write", "publish"} \/ exit = "clean") =>
       records = [n \in {Targets[i] : i \in Ids} |-> LiveRecord(n)]
  /\ exit = "clean" => phase = "idle" /\ Agreement

LEMMA RecordInit == Init => RecordInv
BY DEF Init, RecordInv

\* Steps that keep the records, and what they were made of.
Kept ==
  /\ UNCHANGED <<mode, records, result, raw, sees>>
  /\ phase' = phase \/ phase' \notin {"write", "publish"}
  /\ exit' = "clean" => exit = "clean" /\ phase' = "idle"

LEMMA KeptRecords ==
  ASSUME RecordInv, Kept
  PROVE  RecordInv'
<1>1. Agreement' <=> Agreement
  BY DEF Kept, Agreement, Unreachable, Missing, Extra, Answered, Seen
<1>2. \A n : LiveRecord(n)' = LiveRecord(n) /\ Replayed(n)' = Replayed(n)
  BY DEF Kept, LiveRecord, Replayed
<1> QED
  BY <1>1, <1>2 DEF Kept, RecordInv

LEMMA RecordStep ==
  ASSUME RestInv, RecordInv, [Next]_vars
  PROVE  RecordInv'
<1>1. CASE StartLive \/ Reanalyse
  BY <1>1 DEF StartLive, Reanalyse, RecordInv
<1>2. CASE Assemble
  <2>1. \A n : LiveRecord(n)' = LiveRecord(n) /\ Replayed(n)' = Replayed(n)
    BY <1>2 DEF Assemble, workerVars, files, LiveRecord, Replayed
  <2>2. /\ mode' = mode /\ exit' # "clean" /\ raw' = raw
        /\ mode = "live" => records' = [n \in {Targets[i] : i \in Ids} |-> LiveRecord(n)]
        /\ mode = "reanalyse" => records' = [n \in DOMAIN raw |-> Replayed(n)]
    BY <1>2 DEF Assemble, files, RecordInv
  <2> QED  BY <2>1, <2>2 DEF RecordInv
<1>3. CASE WriteDoc \/ Publish
  <2>1. UNCHANGED <<mode, records, result, raw, sees>> /\ phase \in {"write", "publish"}
    BY <1>3 DEF WriteDoc, WriteDocOver, Publish, workerVars
  <2>2. exit' = "clean" => phase' = "idle" /\ Agreement
    BY <1>3, <2>1 DEF WriteDoc, WriteDocOver, Publish, RecordInv
  <2>3. Agreement' <=> Agreement
    BY <2>1 DEF Agreement, Unreachable, Missing, Extra, Answered, Seen
  <2>4. \A n : LiveRecord(n)' = LiveRecord(n) /\ Replayed(n)' = Replayed(n)
    BY <2>1 DEF LiveRecord, Replayed
  <2> QED  BY <2>1, <2>2, <2>3, <2>4 DEF RecordInv
<1>4. ASSUME NEW i \in Ids, Discover(i)
      PROVE  RecordInv'
  <2>1. /\ phase \in {"pool", "abort"} /\ phase' = phase /\ mode' = mode
        /\ records' = records /\ exit' = exit
    BY <1>4 DEF Discover, Take, ProbeNetconf, Connect, Read, FallBack, NotResponding,
                CliConnect, mainVars, RestInv, Active
  <2> QED  BY <2>1 DEF RestInv, RecordInv
<1>5. ASSUME NEW i \in Ids, Drop(i) PROVE Kept
  BY <1>5 DEF Drop, Kept, mainVars, files, RecordInv
<1>6. ASSUME MapDone \/ MapRaises \/ AbortEnds \/ MainRaises PROVE Kept
  BY <1>6 DEF MapDone, MapRaises, Abort, AbortEnds, MainRaises, Kept, mainVars,
              workerVars, files, RecordInv
<1>7. ASSUME Interrupt \/ Kill \/ DiskFails PROVE Kept
  BY <1>7 DEF Interrupt, Abort, Kill, DiskFails, Kept, mainVars, workerVars, files, RecordInv
<1>8. ASSUME UNCHANGED vars PROVE Kept
  BY <1>8 DEF vars, Kept, RecordInv
<1> QED
  BY <1>1, <1>2, <1>3, <1>4, <1>5, <1>6, <1>7, <1>8, KeptRecords DEF Next, Main

\* The inductive invariant of the workers, their captures and the records.
AnswerInv ==
  /\ ThreadType /\ NextType /\ RestInv /\ RecordInv
  /\ DistinctNames => FallbackInv /\ CopyInv

LEMMA AnswerInvariant == Spec => []AnswerInv
<1>1. Init => AnswerInv
  BY TypesInit, RestInit, RecordInit, FallbackInit, CopyInit DEF AnswerInv
<1>2. AnswerInv /\ [Next]_vars => AnswerInv'
  <2>1. DistinctNames' <=> DistinctNames
    BY DEF DistinctNames
  <2> QED  BY <2>1, ThreadTypeStep, NextTypeStep, RestStep, RecordStep, FallbackStep, CopyStep
           DEF AnswerInv
<1> QED
  BY <1>1, <1>2, PTL DEF Spec

\* A target is turned over to the CLI only when NETCONF left nothing behind
\* (result_from_raw), with any number of workers and in any order of theirs.
THEOREM CliAfterNothing == Spec => []FallbackBeforeXml
<1>1. AnswerInv => FallbackBeforeXml
  BY DEF AnswerInv, FallbackBeforeXml, FallbackInv, Unanswered
<1> QED
  BY <1>1, AnswerInvariant, PTL

\* --reanalyse shows what the live run read, and all of it unless the disk
\* failed, after every way a run can end (result_from_raw, _record).
THEOREM ReplayIsFaithful == Spec => []ReplayFaithful
<1>1. AnswerInv => ReplayFaithful
  <2> SUFFICES ASSUME AnswerInv, DistinctNames, mode = "reanalyse", records # << >>,
                      NEW i \in Ids
               PROVE  LET n == Targets[i] IN
                      /\ n \in Answered =>
                           result[i].reachable /\ records[n].ok \subseteq result[i].ok
                      /\ result[i].ok # {} /\ ~readOnly =>
                           n \in Answered /\ records[n].ok = result[i].ok
    BY DEF ReplayFaithful
  <2> DEFINE n == Targets[i]
  <2>1. records = [m \in DOMAIN raw |-> Replayed(m)]
    BY DEF AnswerInv, RecordInv
  <2>2. n \in Answered => n \in DOMAIN raw
    BY <2>1 DEF Answered
  <2>3. /\ n \in DOMAIN raw => result[i].reachable /\ raw[n] \ {"hello"} \subseteq result[i].ok
        /\ n \in DOMAIN raw /\ ~readOnly => raw[n] \ {"hello"} = result[i].ok
        /\ n \notin DOMAIN raw /\ ~readOnly => result[i].ok = {}
    BY DEF AnswerInv, CopyInv
  <2>4. n \in DOMAIN raw =>
          /\ records[n].ok = raw[n] \ {"hello"}
          /\ records[n].ok # {} => records[n].reachable
    BY <2>1 DEF Replayed, Unread
  <2>5. n \in DOMAIN raw /\ records[n].reachable => n \in Answered
    BY <2>1 DEF Answered
  <2> QED  BY <2>2, <2>3, <2>4, <2>5
<1> QED
  BY <1>1, AnswerInvariant, PTL

\* The exit code of a live run can gate a campaign: code 0 is given only when
\* every target answered and LLDP agrees with SYSTEM.md (crosscheck).
THEOREM CleanMeansAnswered == Spec => []CleanRunAnswered
<1>1. AnswerInv => CleanRunAnswered
  <2> SUFFICES ASSUME AnswerInv, DistinctNames, exit = "clean", mode = "live"
               PROVE  /\ \A i \in Ids : result[i].reachable /\ Stranger \notin SeenBy(i)
                      /\ \A n \in InvSwitches :
                           \E i \in Ids : Targets[i] = n \/ n \in SeenBy(i)
    BY DEF CleanRunAnswered
  <2>1. records = [n \in {Targets[i] : i \in Ids} |-> LiveRecord(n)] /\ Agreement
    BY DEF AnswerInv, RecordInv
  <2>2. ASSUME NEW i \in Ids
        PROVE  Targets[i] \in DOMAIN records /\ records[Targets[i]] = result[i]
    <3>1. LiveRecord(Targets[i]) = result[i]
      <4> DEFINE P(j) == Targets[j] = Targets[i]
                           /\ \A k \in Ids : Targets[k] = Targets[i] => k <= j
      <4>1. i \in Nat
        BY DiscoveryAssumption DEF Ids
      <4>2. P(i)
        BY <4>1 DEF DistinctNames
      <4>3. (CHOOSE j \in Ids : P(j)) = i
        <5>1. \A j \in Ids : P(j) => j = i
          BY DEF DistinctNames
        <5> HIDE DEF P
        <5> QED  BY <4>2, <5>1
      <4> QED  BY <4>3 DEF LiveRecord
    <3> QED  BY <2>1, <3>1
  <2>3. \A n \in DOMAIN records : \E i \in Ids : n = Targets[i]
    BY <2>1
  <2>4. \A n \in Seen : \E i \in Ids : n \in SeenBy(i)
    BY <2>2, <2>3 DEF Seen, Answered, SeenBy
  <2>5. ASSUME NEW i \in Ids
        PROVE  result[i].reachable /\ SeenBy(i) \subseteq Seen
    <3>1. Targets[i] \in Answered /\ result[i].reachable
      BY <2>1, <2>2 DEF Agreement, Unreachable, Answered
    <3> QED  BY <2>2, <3>1 DEF Seen, SeenBy
  <2>6. Stranger \notin Seen
    <3>1. Stranger \notin InvSwitches
      BY DiscoveryAssumption DEF Names
    <3> QED  BY <2>1, <3>1 DEF Agreement, Extra
  <2>7. ASSUME NEW n \in InvSwitches
        PROVE  \E i \in Ids : Targets[i] = n \/ n \in SeenBy(i)
    <3>1. n \in Answered \cup Seen
      BY <2>1 DEF Agreement, Missing
    <3> QED  BY <2>3, <2>4, <3>1 DEF Answered
  <2> QED  BY <2>5, <2>6, <2>7
<1> QED
  BY <1>1, AnswerInvariant, PTL

-----------------------------------------------------------------------------
(* Only whole runs are published.                                          *)

\* The documents before the next one are of this run while it writes, all are
\* when it publishes, and the run has then been recorded as whole.
DocInv ==
  /\ runNo \in Nat /\ step \in 1 .. Len(Docs)
  /\ docs \in [DocNames -> Nat] /\ pub \in [DocNames -> Nat]
  /\ phase \in {"pool", "assemble"} => step = 1
  /\ phase = "write" => \A k \in 1 .. step - 1 : docs[Docs[k]] = runNo
  /\ phase = "publish" => runNo \in complete /\ \A d \in DocNames : docs[d] = runNo
  /\ \A d \in DocNames : pub[d] # 0 => pub[d] \in complete

LEMMA NotLast ==
  ASSUME NEW n \in Nat, NEW k \in 1 .. n, k # n
  PROVE  k + 1 \in 1 .. n /\ 1 .. (k + 1) - 1 = 1 .. k
OBVIOUS

LEMMA DocInit == Init => DocInv
BY Numbers DEF Init, DocInv

\* Every step but the start of a run, the records and the documents leaves the
\* documents as they are, and it may only stop main() or bring it on.
Idles ==
  /\ runNo' = runNo /\ step' = step /\ docs' = docs /\ pub' = pub /\ complete' = complete
  /\ phase' \in {phase, "idle"} \/ (phase = "pool" /\ phase' \in {"abort", "assemble"})

LEMMA DocSteps ==
  ASSUME [Next]_vars
  PROVE  StartLive \/ Reanalyse \/ Assemble \/ WriteDoc \/ Publish \/ Idles
<1>1. ASSUME MapDone \/ MapRaises \/ AbortEnds \/ MainRaises PROVE Idles
  BY <1>1 DEF MapDone, MapRaises, Abort, AbortEnds, MainRaises, Idles, mainVars, files
<1>2. ASSUME NEW i \in Ids, Discover(i) \/ Drop(i) PROVE Idles
  BY <1>2 DEF Discover, Take, ProbeNetconf, Connect, Read, FallBack, CliConnect, Drop,
              Idles, mainVars, files
<1>3. ASSUME Interrupt \/ Kill \/ DiskFails PROVE Idles
  BY <1>3 DEF Interrupt, Abort, Kill, DiskFails, Idles, mainVars, files
<1>4. ASSUME UNCHANGED vars PROVE Idles
  BY <1>4 DEF vars, Idles
<1> QED
  BY <1>1, <1>2, <1>3, <1>4 DEF Next, Main

LEMMA DocStep ==
  ASSUME DocInv, [Next]_vars
  PROVE  DocInv'
<1>1. CASE StartLive \/ Reanalyse
  <2>1. /\ runNo' = runNo + 1 /\ step' = 1 /\ phase' \in {"pool", "assemble"}
        /\ docs' = docs /\ pub' = pub /\ complete' = complete
    BY <1>1 DEF StartLive, Reanalyse, files
  <2> QED  BY <2>1, Numbers DEF DocInv
<1>2. CASE Assemble
  <2>1. /\ runNo' = runNo /\ step' = step /\ step = 1 /\ phase' = "write"
        /\ docs' = docs /\ pub' = pub /\ complete' = complete
    BY <1>2 DEF Assemble, files, DocInv
  <2> QED  BY <2>1 DEF DocInv
<1>3. CASE WriteDoc
  <2>1. /\ phase = "write" /\ runNo' = runNo /\ pub' = pub
        /\ docs' = [docs EXCEPT ![Docs[step]] = runNo]
    BY <1>3 DEF WriteDoc, WriteDocOver
  <2>2. Docs[step] \in DocNames /\ step \in Nat
    BY Numbers DEF DocInv, DocNames
  <2>3. docs' \in [DocNames -> Nat] /\ docs'[Docs[step]] = runNo
    BY <2>1, <2>2 DEF DocInv
  <2>4. ASSUME NEW k \in 1 .. step PROVE docs'[Docs[k]] = runNo
    <3>1. CASE k = step
      BY <2>3, <3>1
    <3>2. CASE k # step
      <4>1. k \in 1 .. step - 1 /\ Docs[k] \in DocNames
        BY <2>2, <3>2, Numbers DEF DocInv, DocNames
      <4>2. docs[Docs[k]] = runNo
        BY <2>1, <4>1 DEF DocInv
      <4> QED  BY <2>1, <2>2, <4>1, <4>2 DEF DocInv
    <3> QED  BY <3>1, <3>2
  <2>5. CASE step = Len(Docs)
    <3>1. phase' = "publish" /\ step' = 1 /\ complete' = complete \cup {runNo}
      BY <1>3, <2>5 DEF WriteDoc, WriteDocOver
    <3>2. \A d \in DocNames : docs'[d] = runNo
      BY <2>4, <2>5, Numbers DEF DocNames
    <3> QED  BY <2>1, <2>3, <3>1, <3>2, Numbers DEF DocInv
  <2>6. CASE step # Len(Docs)
    <3>1. phase' = "write" /\ step' = step + 1 /\ complete' = complete
      BY <1>3, <2>1, <2>6 DEF WriteDoc, WriteDocOver
    <3>2. step + 1 \in 1 .. Len(Docs) /\ 1 .. (step + 1) - 1 = 1 .. step
      <4>1. step \in 1 .. Len(Docs)
        BY DEF DocInv
      <4> QED  BY <4>1, <2>6, Numbers, NotLast
    <3>3. \A k \in 1 .. step' - 1 : docs'[Docs[k]] = runNo'
      BY <2>1, <2>4, <3>1, <3>2
    <3>4. step' \in 1 .. Len(Docs)
      BY <3>1, <3>2
    <3> QED  BY <2>1, <2>3, <3>1, <3>3, <3>4 DEF DocInv
  <2> QED  BY <2>5, <2>6
<1>4. CASE Publish
  <2>1. /\ phase = "publish" /\ runNo' = runNo /\ docs' = docs /\ complete' = complete
        /\ pub' = [pub EXCEPT ![Docs[step]] = docs[Docs[step]]]
    BY <1>4 DEF Publish
  <2>2. Docs[step] \in DocNames
    BY Numbers DEF DocInv, DocNames
  <2>3. docs[Docs[step]] = runNo /\ runNo \in complete
    BY <2>1, <2>2 DEF DocInv
  <2>4. pub' \in [DocNames -> Nat] /\ \A d \in DocNames : pub'[d] # 0 => pub'[d] \in complete
    BY <2>1, <2>2, <2>3 DEF DocInv
  <2>5. step' \in 1 .. Len(Docs) /\ phase' \in {"publish", "idle"}
    <3>1. CASE step = Len(Docs)
      BY <1>4, <3>1, Numbers DEF Publish
    <3>2. CASE step # Len(Docs)
      <4>1. step \in 1 .. Len(Docs)
        BY DEF DocInv
      <4>2. step + 1 \in 1 .. Len(Docs)
        BY <3>2, <4>1, Numbers, NotLast
      <4> QED  BY <1>4, <3>2, <4>2 DEF Publish
    <3> QED  BY <3>1, <3>2
  <2> QED  BY <2>1, <2>4, <2>5 DEF DocInv
<1>5. CASE Idles
  BY <1>5 DEF Idles, DocInv
<1> QED
  BY <1>1, <1>2, <1>3, <1>4, <1>5, DocSteps

\* Whatever raises, is interrupted or killed, the published directory holds
\* only documents of runs that wrote all of theirs (publish, called last).
THEOREM WholeRunsPublished == Spec => []PublishedWhole
<1>1. Init => DocInv
  BY DocInit
<1>2. DocInv /\ [Next]_vars => DocInv'
  BY DocStep
<1>3. DocInv => PublishedWhole
  BY DEF DocInv, PublishedWhole
<1> QED
  BY <1>1, <1>2, <1>3, PTL DEF Spec

-----------------------------------------------------------------------------
(* Types of the state.                                                     *)

\* A name that is a target has a last target.
LEMMA LastTarget ==
  ASSUME NEW n \in {Targets[i] : i \in Ids}
  PROVE  LiveRecord(n) \in {result[i] : i \in Ids}
<1> DEFINE S == {j \in Ids : Targets[j] = n}
           after == {Len(Targets) - j : j \in S}
           Smaller == OpToRel(<, Nat)
           Last(j) == Targets[j] = n /\ \A k \in Ids : Targets[k] = n => k <= j
<1>1. Len(Targets) \in Nat /\ Ids = 1 .. Len(Targets)
  BY DiscoveryAssumption DEF Ids
<1>2. after \subseteq Nat
  <2> SUFFICES ASSUME NEW j \in S PROVE Len(Targets) - j \in Nat
    OBVIOUS
  <2>1. j \in 1 .. Len(Targets)
    BY <1>1
  <2> QED
    BY <1>1, <2>1
<1>3. PICK i \in S : TRUE
  OBVIOUS
<1>4. Len(Targets) - i \in after
  OBVIOUS
<1>5. \A x \in Nat, y \in Nat : <<y, x>> \in Smaller <=> y < x
  <2>1. Smaller = {ss \in Nat \X Nat : ss[1] < ss[2]}
    BY Zenon DEF OpToRel
  <2> QED
    BY <2>1
<1>6. IsWellFoundedOn(Smaller, Nat)
  BY NatLessThanWellFounded, Zenon
<1> HIDE DEF Smaller
<1>7. PICK x \in after : \A y \in after : ~(<<y, x>> \in Smaller)
  <2> HIDE DEF after
  <2> QED
    BY <1>2, <1>4, <1>6, WFMin
<1>8. PICK j \in S : x = Len(Targets) - j
  OBVIOUS
<1>9. \A k \in S : k <= j
  <2> SUFFICES ASSUME NEW k \in S PROVE k <= j
    OBVIOUS
  <2>1. Len(Targets) - k \in after /\ j \in Ids /\ k \in Ids
    OBVIOUS
  <2>2. ~(Len(Targets) - k < Len(Targets) - j)
    <3> HIDE DEF after
    <3> QED
      BY <1>2, <1>5, <1>7, <1>8, <2>1
  <2> QED
    BY <1>1, <2>1, <2>2
<1>10. j \in Ids /\ Last(j)
  BY <1>9
<1>11. (CHOOSE m \in Ids : Last(m)) \in Ids
  <2> HIDE DEF Last
  <2> QED
    BY <1>10
<1>12. LiveRecord(n) = result[CHOOSE m \in Ids : Last(m)]
  BY DEF LiveRecord
<1> HIDE DEF Last
<1> QED
  BY <1>11, <1>12

\* The reads, the captures and the records.
NextRange == next \in [Ids -> 1 .. Len(Rpcs) + 1]
RawType ==
  /\ DOMAIN raw \subseteq Names
  /\ \A n \in DOMAIN raw : raw[n] # {} /\ raw[n] \subseteq Files
RecordsType == DOMAIN records \subseteq Names /\ \A n \in DOMAIN records : records[n] \in Result

LEMMA CapturedType ==
  ASSUME RawType, NEW i \in Ids, NEW f \in Files, raw' = WithFile(Targets[i], f)
  PROVE  RawType'
<1>1. Targets[i] \in Names
  BY DEF Names
<1>2. DOMAIN raw' = DOMAIN raw \cup {Targets[i]}
  BY DEF WithFile
<1>3. \A n \in DOMAIN raw' :
        \/ n \in DOMAIN raw /\ raw'[n] = raw[n]
        \/ n \in DOMAIN raw /\ raw'[n] = raw[n] \cup {f}
        \/ raw'[n] = {f}
  BY DEF WithFile
<1> QED
  BY <1>1, <1>2, <1>3 DEF RawType

LEMMA CapturesTypeStep ==
  ASSUME ThreadType, NextType, NextRange, RawType, [Next]_vars
  PROVE  NextRange' /\ RawType'
<1>1. CASE StartLive
  BY <1>1, Numbers DEF StartLive, NextRange, RawType
<1>2. CASE Cancel \/ Stay
  BY <1>2 DEF Cancel, Stay, NextRange, RawType
<1>3. ASSUME NEW i \in Ids,
             Take(i) \/ ProbeNetconf(i) \/ FallBack(i) \/ CliConnect(i) \/ Drop(i)
      PROVE  NextRange' /\ RawType'
  BY <1>3 DEF Take, ProbeNetconf, FallBack, CliConnect, Drop, files, NextRange, RawType
<1>4. ASSUME NEW i \in Ids, Connect(i)
      PROVE  NextRange' /\ RawType'
  <2>1. CASE raw' = raw
    BY <1>4, <2>1 DEF Connect, NextRange, RawType
  <2>2. CASE raw' = WithFile(Targets[i], "hello")
    <3>1. RawType'
      BY <2>2, CapturedType, ReadsAreFiles
    <3> QED
      BY <1>4, <3>1 DEF Connect, NextRange
  <2> QED
    BY <1>4, <2>1, <2>2 DEF Connect
<1>5. ASSUME NEW i \in Ids, Read(i)
      PROVE  NextRange' /\ RawType'
  <2>1. /\ next' = [next EXCEPT ![i] = next[i] + 1] /\ next[i] \in 1 .. Len(Rpcs)
        /\ raw' = raw \/ raw' = WithFile(Targets[i], Rpcs[next[i]])
    BY <1>5 DEF Read, NextType
  <2>2. next[i] + 1 \in 1 .. Len(Rpcs) + 1
    BY <2>1, Numbers
  <2>3. NextRange'
    BY <2>1, <2>2 DEF NextRange
  <2>4. Rpcs[next[i]] \in Files
    BY <2>1, ReadsAreFiles
  <2>5. RawType'
    <3>1. CASE raw' = raw
      BY <3>1 DEF RawType
    <3>2. CASE raw' = WithFile(Targets[i], Rpcs[next[i]])
      BY <2>4, <3>2, CapturedType
    <3> QED
      BY <2>1, <3>1, <3>2
  <2> QED
    BY <2>3, <2>5
<1> QED
  BY <1>1, <1>2, <1>3, <1>4, <1>5, WorkerSteps DEF Discover

LEMMA RecordsTypeStep ==
  ASSUME ThreadType, RawType, RecordsType, [Next]_vars
  PROVE  RecordsType'
<1>1. CASE Assemble
  <2>1. CASE mode = "live"
    <3>1. records' = [n \in {Targets[i] : i \in Ids} |-> LiveRecord(n)]
      BY <1>1, <2>1 DEF Assemble
    <3>2. \A n \in {Targets[i] : i \in Ids} : n \in Names /\ LiveRecord(n) \in Result
      BY LastTarget DEF Names, ThreadType
    <3> QED
      BY <3>1, <3>2 DEF RecordsType
  <2>2. CASE mode # "live"
    <3>1. records' = [n \in DOMAIN raw |-> Replayed(n)]
      BY <1>1, <2>2 DEF Assemble
    <3>2. ASSUME NEW n \in DOMAIN raw PROVE n \in Names /\ Replayed(n) \in Result
      <4>1. n \in Names /\ raw[n] \ {"hello"} \in SUBSET Files
        BY DEF RawType
      <4> QED
        BY <4>1, UnreadType DEF Replayed, Result
    <3> QED
      BY <3>1, <3>2 DEF RecordsType
  <2> QED
    BY <2>1, <2>2
<1>2. CASE StartLive \/ Reanalyse
  BY <1>2 DEF StartLive, Reanalyse, RecordsType
<1>3. CASE MapDone \/ MapRaises \/ AbortEnds \/ MainRaises
  BY <1>3 DEF MapDone, MapRaises, Abort, AbortEnds, MainRaises, mainVars, RecordsType
<1>4. CASE WriteDoc \/ Publish
  BY <1>4 DEF WriteDoc, WriteDocOver, Publish, RecordsType
<1>5. ASSUME NEW i \in Ids, Discover(i) \/ Drop(i)
      PROVE  RecordsType'
  BY <1>5 DEF Discover, Take, ProbeNetconf, Connect, Read, FallBack, CliConnect, Drop,
              mainVars, RecordsType
<1>6. CASE Interrupt \/ Kill \/ DiskFails
  BY <1>6 DEF Interrupt, Abort, Kill, DiskFails, mainVars, RecordsType
<1>7. CASE UNCHANGED vars
  BY <1>7 DEF vars, RecordsType
<1> QED
  BY <1>1, <1>2, <1>3, <1>4, <1>5, <1>6, <1>7 DEF Next, Main

\* The sessions and the disk.
SessionType == session \in [Ids -> {"none", "up", "dead"}] /\ readOnly \in BOOLEAN

LEMMA SessionTypeStep ==
  ASSUME SessionType, [Next]_vars
  PROVE  SessionType'
<1>1. CASE StartLive \/ Kill
  BY <1>1 DEF StartLive, Kill, SessionType
<1>2. CASE DiskFails
  BY <1>2 DEF DiskFails, workerVars, SessionType
<1>3. ASSUME NEW i \in Ids, Connect(i) \/ Drop(i)
      PROVE  SessionType'
  BY <1>3 DEF Connect, Drop, SessionType
<1>4. ASSUME NEW i \in Ids, Read(i)
      PROVE  SessionType'
  <2>1. \/ session' = [session EXCEPT ![i] = "none"]
        \/ session' = [session EXCEPT ![i] = session[i]]
    BY <1>4 DEF Read
  <2>2. readOnly' = readOnly
    BY <1>4 DEF Read
  <2> QED
    BY <2>1, <2>2 DEF SessionType
<1>5. ASSUME NEW i \in Ids, Take(i) \/ ProbeNetconf(i) \/ FallBack(i) \/ CliConnect(i)
      PROVE  SessionType'
  BY <1>5 DEF Take, ProbeNetconf, FallBack, CliConnect, SessionType
<1>6. CASE Reanalyse
  BY <1>6 DEF Reanalyse, workerVars, SessionType
<1>7. CASE Main
  <2>1. CASE MapDone \/ MapRaises \/ AbortEnds \/ Assemble
    BY <2>1 DEF MapDone, MapRaises, Abort, AbortEnds, Assemble, workerVars, SessionType
  <2>2. CASE WriteDoc \/ Publish \/ MainRaises
    BY <2>2 DEF WriteDoc, WriteDocOver, Publish, MainRaises, workerVars, SessionType
  <2> QED
    BY <1>7, <2>1, <2>2 DEF Main
<1>8. CASE Interrupt
  BY <1>8 DEF Interrupt, Abort, workerVars, SessionType
<1>9. CASE UNCHANGED vars
  BY <1>9 DEF vars, SessionType
<1> QED
  BY <1>1, <1>2, <1>3, <1>4, <1>5, <1>6, <1>7, <1>8, <1>9 DEF Next, Discover

\* main(): its phase, the mode and the exit code.
MainType ==
  /\ sees \in Wirings
  /\ phase \in {"idle", "pool", "abort", "assemble", "write", "publish"}
  /\ mode \in {"live", "reanalyse"} /\ exit \in {"none", "clean", "attention", "aborted"}

LEMMA MainTypeStep ==
  ASSUME MainType, [Next]_vars
  PROVE  MainType'
<1>1. CASE StartLive \/ Reanalyse
  BY <1>1 DEF StartLive, Reanalyse, MainType
<1>2. CASE MapDone \/ MapRaises \/ AbortEnds \/ Assemble
  BY <1>2 DEF MapDone, MapRaises, Abort, AbortEnds, Assemble, mainVars, MainType
<1>3. CASE WriteDoc \/ Publish \/ MainRaises
  BY <1>3 DEF WriteDoc, WriteDocOver, Publish, MainRaises, MainType
<1>4. ASSUME NEW i \in Ids, Discover(i) \/ Drop(i)
      PROVE  MainType'
  BY <1>4 DEF Discover, Take, ProbeNetconf, Connect, Read, FallBack, CliConnect, Drop,
              mainVars, MainType
<1>5. CASE Interrupt \/ Kill \/ DiskFails
  BY <1>5 DEF Interrupt, Abort, Kill, DiskFails, mainVars, MainType
<1>6. CASE UNCHANGED vars
  BY <1>6 DEF vars, MainType
<1> QED
  BY <1>1, <1>2, <1>3, <1>4, <1>5, <1>6 DEF Next, Main

\* The runs are numbered up to MaxRuns, and a number is given before main()
\* leaves "idle": the documents carry such numbers.
RunRange ==
  /\ runNo \in 0 .. MaxRuns /\ (phase # "idle" => runNo # 0)
  /\ docs \in [DocNames -> 0 .. MaxRuns] /\ pub \in [DocNames -> 0 .. MaxRuns]
  /\ complete \subseteq 1 .. MaxRuns

LEMMA RunRangeStep ==
  ASSUME RunRange, DocInv, [Next]_vars
  PROVE  RunRange'
<1>1. CASE StartLive \/ Reanalyse
  <2>1. runNo' \in 0 .. MaxRuns /\ runNo' # 0
    BY <1>1, DiscoveryAssumption DEF StartLive, Reanalyse
  <2>2. docs' = docs /\ pub' = pub /\ complete' = complete
    BY <1>1 DEF StartLive, Reanalyse, files
  <2> QED
    BY <2>1, <2>2 DEF RunRange
<1>2. CASE Assemble
  BY <1>2 DEF Assemble, files, RunRange
<1>3. CASE WriteDoc
  <2>1. runNo \in 1 .. MaxRuns
    BY <1>3, DiscoveryAssumption DEF WriteDoc, WriteDocOver, RunRange
  <2>2. /\ runNo' = runNo /\ pub' = pub /\ docs' = [docs EXCEPT ![Docs[step]] = runNo]
        /\ complete' = complete \/ complete' = complete \cup {runNo}
    BY <1>3 DEF WriteDoc, WriteDocOver
  <2>3. runNo \in 0 .. MaxRuns /\ runNo # 0
    BY <2>1, DiscoveryAssumption
  <2>4. docs' \in [DocNames -> 0 .. MaxRuns]
    BY <2>2, <2>3 DEF RunRange
  <2>5. complete' \subseteq 1 .. MaxRuns
    BY <2>1, <2>2 DEF RunRange
  <2> QED
    BY <2>2, <2>3, <2>4, <2>5 DEF RunRange
<1>4. CASE Publish
  <2>1. /\ phase = "publish" /\ runNo' = runNo /\ docs' = docs /\ complete' = complete
        /\ pub' = [pub EXCEPT ![Docs[step]] = docs[Docs[step]]]
    BY <1>4 DEF Publish
  <2>2. Docs[step] \in DocNames
    BY Numbers DEF DocInv, DocNames
  <2>3. docs[Docs[step]] \in 0 .. MaxRuns
    BY <2>2 DEF RunRange
  <2> QED
    BY <2>1, <2>3 DEF RunRange
<1>5. CASE Idles
  BY <1>5 DEF Idles, RunRange
<1> QED
  BY <1>1, <1>2, <1>3, <1>4, <1>5, DocSteps

TypeInv ==
  /\ ThreadType /\ NextType /\ NextRange /\ RawType /\ RecordsType
  /\ SessionType /\ MainType /\ RunRange /\ DocInv

LEMMA TypeInit == Init => TypeInv
<1> SUFFICES ASSUME Init PROVE TypeInv
  OBVIOUS
<1>1. ThreadType /\ NextType /\ DocInv
  BY TypesInit, DocInit
<1>2. NextRange
  BY Numbers DEF Init, NextRange
<1>3. RawType /\ RecordsType
  <2>1. DOMAIN raw = {} /\ DOMAIN records = {}
    BY DEF Init
  <2> QED
    BY <2>1 DEF RawType, RecordsType
<1>4. SessionType /\ MainType
  BY DEF Init, SessionType, MainType
<1>5. RunRange
  BY DiscoveryAssumption DEF Init, RunRange
<1> QED
  BY <1>1, <1>2, <1>3, <1>4, <1>5 DEF TypeInv

\* The state keeps its types over every run: a record is made of the result of
\* the last target of its name (records[name] = ... of main), whose existence
\* is the part that takes an argument, and a number of a document is one of a
\* run that was started.
THEOREM TypeCorrect == Spec => []TypeOK
<1>1. TypeInv /\ [Next]_vars => TypeInv'
  BY ThreadTypeStep, NextTypeStep, CapturesTypeStep, RecordsTypeStep, SessionTypeStep,
     MainTypeStep, RunRangeStep, DocStep DEF TypeInv
<1>2. TypeInv => TypeOK
  <2> SUFFICES ASSUME TypeInv PROVE TypeOK
    OBVIOUS
  <2>1. step \in DOMAIN Docs
    BY Numbers DEF TypeInv, DocInv
  <2> QED
    BY <2>1 DEF TypeInv, ThreadType, NextRange, RawType, RecordsType, SessionType,
                MainType, RunRange, TypeOK
<1> QED
  BY <1>1, <1>2, TypeInit, PTL DEF Spec
=============================================================================
