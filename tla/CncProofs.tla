----------------------------- MODULE CncProofs ------------------------------
(***************************************************************************)
(* Theorems about CncInput and the records below it, for every set of      *)
(* switches, every state of their hardware and every choice of commands    *)
(* and rows lost that the assumptions allow.                               *)
(***************************************************************************)
EXTENDS CncInput, OrderedProofs, FiniteSetTheorems, TLAPS

-----------------------------------------------------------------------------
(* What the command line says.                                             *)

\* The rows of the interface table are those that were understood, and where none
\* but the last ones are missing a row's position is its interface's number.
LEMMA TableRows ==
  ASSUME NEW r \in CliReading
  PROVE  /\ Len(Interfaces) \in Nat /\ DOMAIN Interfaces = 1 .. Len(Interfaces)
         /\ DOMAIN Table(r) = 1 .. Cardinality(r.kept) /\ Cardinality(r.kept) \in Nat
         /\ \A k \in DOMAIN Table(r) : Table(r)[k] \in r.kept
         /\ \A k \in DOMAIN Table(r) : Table(r)[k] \in DOMAIN Interfaces
         /\ \A i \in r.kept : \E k \in DOMAIN Table(r) : Table(r)[k] = i
         /\ r.kept = 1 .. Cardinality(r.kept) \/ Len(Interfaces) \in DOMAIN Table(r) =>
              \A k \in DOMAIN Table(r) : Table(r)[k] = k
<1>1. Len(Interfaces) \in Nat /\ DOMAIN Interfaces = 1 .. Len(Interfaces)
  BY InterfacesAssumption
<1>2. r.kept \subseteq 1 .. Len(Interfaces)
  BY <1>1 DEF CliReading, Rows
<1>3. /\ DOMAIN Table(r) = 1 .. Cardinality(r.kept) /\ Cardinality(r.kept) \in Nat
      /\ \A k \in DOMAIN Table(r) : Table(r)[k] \in r.kept
      /\ \A i \in r.kept : \E k \in DOMAIN Table(r) : Table(r)[k] = i
  BY <1>1, <1>2, InOrderLists DEF Table
<1>4. ASSUME r.kept = 1 .. Cardinality(r.kept)
      PROVE  \A k \in DOMAIN Table(r) : Table(r)[k] = k
  <2>1. Cardinality(r.kept) \in Nat /\ Cardinality(r.kept) >= Cardinality(r.kept)
        /\ r.kept \subseteq 1 .. Cardinality(r.kept)
    BY <1>3, <1>4
  <2>2. \A k \in 1 .. Cardinality(r.kept) : InOrder(r.kept)[k] = k
    BY <2>1, InOrderAll
  <2> QED
    BY <1>3, <2>2 DEF Table
<1>5. ASSUME Len(Interfaces) \in DOMAIN Table(r)
      PROVE  r.kept = 1 .. Cardinality(r.kept)
  <2>1. Cardinality(r.kept) >= Len(Interfaces)
    BY <1>1, <1>3, <1>5
  <2>2. r.kept = 1 .. Len(Interfaces)
    BY <1>1, <1>2, <2>1, InOrderAll
  <2> DEFINE L == Len(Interfaces)
  <2>3. L \in Nat /\ r.kept = 1 .. L
    BY <1>1, <2>2
  <2> HIDE DEF L
  <2>4. Cardinality(1 .. L) = L
    BY <2>3, FS_Interval
  <2>5. Cardinality(r.kept) = L
    BY <2>3, <2>4, Zenon
  <2> QED
    BY <2>3, <2>5, Zenon
<1>6. \A k \in DOMAIN Table(r) : Table(r)[k] \in DOMAIN Interfaces
  BY <1>1, <1>2, <1>3
<1>7. r.kept = 1 .. Cardinality(r.kept) \/ Len(Interfaces) \in DOMAIN Table(r) =>
        \A k \in DOMAIN Table(r) : Table(r)[k] = k
  BY <1>4, <1>5, Zenon
<1> QED
  BY <1>1, <1>3, <1>6, <1>7

-----------------------------------------------------------------------------
(* The inductive invariant: each record is that of its switch as it was    *)
(* read, and the document is the one built from the records.               *)

Built == [bridges |-> [n \in Names |-> Bridge(n)], envelope |-> Envelope,
          support |-> [f \in Features |-> [all |-> AllSupport(f), any |-> AnySupport(f)]],
          gaps |-> Gaps]

RecordInv ==
  /\ DOMAIN case = DOMAIN records /\ DOMAIN case \subseteq Names
  /\ \A n \in DOMAIN case : case[n] \in Cases[n] /\ records[n] = RecordOf(case[n])

CncInv == RecordInv /\ (doc # None => doc = Built)

THEOREM Invariance == Spec => []CncInv
<1>1. Init => CncInv
  <2> SUFFICES ASSUME Init PROVE CncInv
    OBVIOUS
  <2>1. DOMAIN case = {} /\ DOMAIN records = {} /\ doc = None
    BY DEF Init
  <2> QED
    BY <2>1 DEF CncInv, RecordInv
<1>2. CncInv /\ [Next]_vars => CncInv'
  <2> SUFFICES ASSUME CncInv, [Next]_vars PROVE CncInv'
    OBVIOUS
  <2>1. CASE \E n \in Names : ReadSwitch(n)
    <3>1. PICK n \in Names : ReadSwitch(n)
      BY <2>1
    <3>2. PICK c \in Cases[n] : case' = Added(case, n, c)
                                /\ records' = Added(records, n, RecordOf(c))
      BY <3>1 DEF ReadSwitch
    <3>3. doc' = None /\ n \notin DOMAIN records
      BY <3>1 DEF ReadSwitch
    <3>4. /\ DOMAIN case' = {n} \cup DOMAIN case
          /\ DOMAIN records' = {n} \cup DOMAIN records
          /\ case'[n] = c /\ records'[n] = RecordOf(c)
          /\ \A m \in DOMAIN case : m # n => case'[m] = case[m]
          /\ \A m \in DOMAIN records : m # n => records'[m] = records[m]
      BY <3>2 DEF Added
    <3>5. RecordInv'
      BY <3>3, <3>4 DEF CncInv, RecordInv
    <3> QED
      BY <3>3, <3>5 DEF CncInv
  <2>2. CASE Document
    <3>1. case' = case /\ records' = records /\ doc' = Built
      BY <2>2 DEF Document, Built
    <3>2. RecordInv'
      BY <3>1 DEF CncInv, RecordInv
    <3>3. Built' = Built
      BY <3>1 DEF Built, Bridge, DocPort, PortsOf, Envelope, QbvPorts, Reachable,
               AllSupport, AnySupport, Gaps, PtpGap, PtpAbsent, PtpViaCli, CliBridges,
               Untrusted, NonIdentity
    <3> QED
      BY <3>1, <3>2, <3>3 DEF CncInv
  <2>3. CASE UNCHANGED vars
    <3>1. case' = case /\ records' = records /\ doc' = doc
      BY <2>3 DEF vars
    <3>2. Built' = Built
      BY <3>1 DEF Built, Bridge, DocPort, PortsOf, Envelope, QbvPorts, Reachable,
               AllSupport, AnySupport, Gaps, PtpGap, PtpAbsent, PtpViaCli, CliBridges,
               Untrusted, NonIdentity
    <3> QED
      BY <3>1, <3>2 DEF CncInv, RecordInv
  <2> QED
    BY <2>1, <2>2, <2>3 DEF Next
<1> QED
  BY <1>1, <1>2, PTL DEF Spec

-----------------------------------------------------------------------------
(* The cases.                                                              *)

LEMMA CaseFacts ==
  ASSUME CncInv, NEW n \in DOMAIN case
  PROVE  LET c == case[n] IN
         /\ n \in Names /\ c.mode \in Mode /\ c.got \in BOOLEAN
         /\ Switch(c.sw) /\ c.r \in CliReading /\ Honest(c.sw, c.r)
         /\ records[n] = RecordOf(c)
BY CncAssumption DEF CncInv, RecordInv

LEMMA ModeRecord ==
  ASSUME CncInv, NEW n \in DOMAIN case
  PROVE  LET c == case[n] IN
         /\ c.mode = "cli" => records[n] = CliRecord(c.sw, c.r)
         /\ c.mode = "netconf" => records[n] = NetconfRecord(c.sw, c.got)
         /\ c.mode = "unreachable" => records[n] = NoRecord
BY CaseFacts DEF RecordOf

\* The fields of the records.
LEMMA RecordFields ==
  ASSUME NEW s, NEW r, NEW got
  PROVE  /\ NetconfRecord(s, got).feats = MatchFeatures(s)
         /\ CliRecord(s, r).feats = BuildFeatures(r, PtpBuild(PtpReading(s, r)))
         /\ CliRecord(s, r).ptp = PtpBuild(PtpReading(s, r))
<1>1. NetconfRecord(s, got).feats = MatchFeatures(s)
  BY DEF NetconfRecord
<1>2. CliRecord(s, r).feats = BuildFeatures(r, PtpBuild(PtpReading(s, r)))
  BY DEF CliRecord
<1>3. CliRecord(s, r).ptp = PtpBuild(PtpReading(s, r))
  BY DEF CliRecord
<1> QED
  BY <1>1, <1>2, <1>3

\* What a command that was not refused and not lost shows of the firmware.
LEMMA AcceptedIsEvidence ==
  ASSUME NEW s, NEW r \in CliReading, Honest(s, r), NEW f \in DOMAIN Command,
         Supported(r, Command[f])
  PROVE  f \in s.feats \/ (f = "qav" /\ Read(r, "qos--"))
<1>1. /\ Command["bridge"] = "vlan" /\ Command["qbv"] = "tas" /\ Command["qbu"] = "fp"
      /\ Command["qci"] = "psfp" /\ Command["lldp"] = "lldp" /\ Command["qav"] = "qos"
      /\ PerInterface["qos"] = "qos--"
  BY DEF Command, PerInterface
<1>2. {"vlan", "tas", "fp", "psfp", "lldp", "qos"} \subseteq Keys
  BY DEF Keys, PerInterface
<1>3. {"vlan", "tas", "fp", "psfp", "lldp", "qos"} \cap Range(PerInterface) = {}
  BY DEF PerInterface, Range
<1>4. \A k \in {"vlan", "tas", "fp", "psfp", "lldp", "qos"} : r.cap[k] = "unissued" <=> k = "qos"
  BY <1>2, <1>3 DEF CliReading
<1>5. \A k : Supported(r, k) => Capture(r, k) = "ok"
  BY NoneAssumption DEF Supported, CaptureOk
<1>6. Capture(r, Command[f]) = "ok"
  BY <1>5
<1>7. CASE f = "qav"
  <2>1. Capture(r, "qos") = r.cap["qos--"]
    BY <1>1, <1>4 DEF Capture
  <2> QED
    BY <1>1, <1>6, <1>7, <2>1 DEF Read
<1>8. CASE f # "qav"
  <2>1. f \in {"bridge", "qbv", "qbu", "qci", "lldp"}
    BY <1>8 DEF Command
  <2>2. Command[f] \in {"vlan", "tas", "fp", "psfp", "lldp"}
    BY <1>1, <2>1
  <2>3. r.cap[Command[f]] = "ok"
    BY <1>4, <1>6, <2>2 DEF Capture
  <2>4. f \in Features /\ Command[f] \in Evidence[f]
    BY <1>1, <2>1 DEF Features, Evidence
  <2> QED
    BY <2>3, <2>4 DEF Honest
<1> QED
  BY <1>7, <1>8

\* Support that a record claims is support the firmware has, but for the two
\* features that the command line is taken to show with less.
LEMMA FeatureEvidence ==
  ASSUME CncInv, NEW n \in DOMAIN case, NEW f \in Features, records[n].reachable,
         records[n].feats[f]
  PROVE  \/ f \in case[n].sw.feats
         \/ ByCli(n) /\ f = "qav" /\ Read(case[n].r, "qos--")
         \/ ByCli(n) /\ f = "ptp"
<1> DEFINE c == case[n]
<1>1. CASE c.mode = "netconf"
  <2>1. records[n].feats = MatchFeatures(c.sw)
    BY <1>1, ModeRecord, RecordFields
  <2>2. MatchFeatures(c.sw)[f] => f \in c.sw.feats
    BY DEF MatchFeatures
  <2> QED
    BY <2>1, <2>2
<1>2. CASE c.mode = "cli"
  <2> DEFINE ptp == PtpBuild(PtpReading(c.sw, c.r))
  <2>1. records[n].feats = BuildFeatures(c.r, ptp)
    BY <1>2, ModeRecord, RecordFields
  <2>2. ByCli(n)
    BY <1>2 DEF ByCli
  <2> HIDE DEF ptp
  <2>3. ASSUME f \notin {"ptp", "qcc"} PROVE Supported(c.r, Command[f])
    <3>1. BuildFeatures(c.r, ptp)[f] = Supported(c.r, Command[f])
      BY <2>3 DEF BuildFeatures
    <3> QED
      BY <2>1, <3>1
  <2>4. f # "qcc"
    <3>1. BuildFeatures(c.r, ptp)["qcc"] = FALSE
      BY DEF BuildFeatures, Features
    <3> QED
      BY <2>1, <3>1
  <2>5. CASE f = "ptp"
    BY <2>2, <2>5
  <2>6. CASE f # "ptp"
    <3>1. f \in DOMAIN Command
      BY <2>4, <2>6 DEF Features, Command
    <3>2. f \in c.sw.feats \/ (f = "qav" /\ Read(c.r, "qos--"))
      BY <2>3, <2>4, <2>6, <3>1, CaseFacts, AcceptedIsEvidence
    <3> QED
      BY <2>2, <3>2
  <2> QED
    BY <2>5, <2>6
<1>3. CASE c.mode = "unreachable"
  BY <1>3, ModeRecord DEF NoRecord
<1> QED
  BY <1>1, <1>2, <1>3, CaseFacts DEF Mode

\* The document claims support of a feature by all bridges only with evidence
\* (SupportEvidenced).
THEOREM SupportIsEvidenced == Spec => []SupportEvidenced
<1>1. CncInv => SupportEvidenced
  <2> SUFFICES ASSUME CncInv, doc # None, NEW f \in Features, doc.support[f].all
               PROVE  /\ Reachable # {}
                      /\ \A n \in Reachable :
                           \/ f \in case[n].sw.feats
                           \/ ByCli(n) /\ f = "qav" /\ Read(case[n].r, "qos--")
                           \/ ByCli(n) /\ f = "ptp"
    BY DEF SupportEvidenced
  <2>1. AllSupport(f)
    BY DEF CncInv, Built
  <2>2. Reachable # {} /\ \A n \in Reachable : records[n].feats[f]
    BY <2>1 DEF AllSupport
  <2> QED
    BY <2>2, FeatureEvidence DEF Reachable, CncInv, RecordInv
<1> QED
  BY <1>1, Invariance, PTL

-----------------------------------------------------------------------------
(* The verdict on the time base.                                           *)

LEMMA PtpFields ==
  ASSUME NEW rd
  PROVE  /\ PtpBuild(rd).lock = LockAssessment(rd)
         /\ PtpBuild(rd).ports = ObservedPorts(rd)
         /\ PtpBuild(rd).warned = (~NotConfigured(rd) /\ Unmatched(rd) # {})
         /\ PtpBuild(rd).ieee1588 = ProjectIeee1588(ObservedPorts(rd))
         /\ PtpBuild(rd).dot1as = ProjectDot1as(ObservedPorts(rd))
<1>1. PtpBuild(rd).lock = LockAssessment(rd)
  BY DEF PtpBuild
<1>2. PtpBuild(rd).ports = ObservedPorts(rd)
  BY DEF PtpBuild
<1>3. PtpBuild(rd).warned = (~NotConfigured(rd) /\ Unmatched(rd) # {})
  BY DEF PtpBuild
<1>4. PtpBuild(rd).ieee1588 = ProjectIeee1588(ObservedPorts(rd))
  BY DEF PtpBuild
<1>5. PtpBuild(rd).dot1as = ProjectDot1as(ObservedPorts(rd))
  BY DEF PtpBuild
<1> QED
  BY <1>1, <1>2, <1>3, <1>4, <1>5

\* Of readings with the same ports and all of the clock, a safe verdict is kept.
LEMMA MoreIsSafe ==
  ASSUME NEW rd, NEW all,
         ObservedPorts(all) = ObservedPorts(rd),
         all.own # None, all.gm # None, all.offset # None,
         all.steps = 0 <=> all.own = all.gm,
         rd.own \in {None, all.own}, rd.gm \in {None, all.gm},
         rd.offset \in {None, all.offset}, rd.steps \in {None, all.steps},
         SafeToSchedule(LockAssessment(rd))
  PROVE  SafeToSchedule(LockAssessment(all))
<1> DEFINE obs == ObservedPorts(rd)
           states == {PortStates(obs)[x] : x \in DOMAIN PortStates(obs)}
<1>1. ~NotConfigured(all) /\ ~(all.offset = None /\ states = {})
  BY DEF NotConfigured
<1>2. CASE all.own = all.gm
  <2>1. IsGrandmaster(all)
    BY <1>2 DEF IsGrandmaster
  <2>2. LockAssessment(all) = "grandmaster"
    BY <1>1, <2>1 DEF LockAssessment
  <2> QED
    BY <2>2 DEF SafeToSchedule
<1>3. CASE all.own # all.gm
  <2>1. ~IsGrandmaster(all)
    BY <1>3 DEF IsGrandmaster
  <2>2. ~IsGrandmaster(rd)
    <3>1. rd.steps # 0
      BY <1>3, NoneAssumption
    <3> QED
      BY <1>3, <3>1 DEF IsGrandmaster
  <2>3. /\ ~(states # {} /\ states \subseteq {"disabled", "initializing", "faulty"})
        /\ ~(rd.offset # None /\ Abs(rd.offset) > Threshold)
        /\ SyncPorts(obs) \cap Incapable(obs) = {}
        /\ rd.offset # None
    BY <2>2 DEF LockAssessment, SafeToSchedule
  <2>4. rd.offset = all.offset
    BY <2>3
  <2>5. LockAssessment(all) = "locked"
    BY <1>1, <2>1, <2>3, <2>4 DEF LockAssessment
  <2> QED
    BY <2>5 DEF SafeToSchedule
<1> QED
  BY <1>2, <1>3

\* The ports that are observed do not depend on the clock's commands.
LEMMA SamePorts ==
  ASSUME NEW s, NEW r, NEW q, q.kept = r.kept,
         \A f \in {"states", "capable", "portStates", "portCapable"} : q[f] = r[f],
         Read(q, "running-config") <=> Read(r, "running-config")
  PROVE  ObservedPorts(PtpReading(s, q)) = ObservedPorts(PtpReading(s, r))
<1> DEFINE a == PtpReading(s, q)
           b == PtpReading(s, r)
<1>1. Table(q) = Table(r)
  BY DEF Table
<1>1a. /\ q.states = r.states /\ q.capable = r.capable
      /\ q.portStates = r.portStates /\ q.portCapable = r.portCapable
  OBVIOUS
<1>2. a.table = b.table
  BY <1>1 DEF PtpReading
<1>3. a.wide = b.wide
  BY <1>1a DEF PtpReading
<1>4. a.single = b.single
  BY <1>1a DEF PtpReading
<1>5. a.cfg = b.cfg
  BY DEF PtpReading
<1> HIDE DEF a, b
<1>6. RowsRead(a) = RowsRead(b)
  BY <1>2, <1>3, <1>4, <1>5 DEF RowsRead, Joined, ByNumber
<1>7. \A rows : ConfiguredOnly(a, rows) = ConfiguredOnly(b, rows)
  BY <1>2, <1>5 DEF ConfiguredOnly
<1>8. ObservedPorts(a) = ObservedPorts(b)
  BY <1>6, <1>7 DEF ObservedPorts
<1> QED
  BY <1>8 DEF a, b

\* A verdict that lets a schedule be trusted would be given with all of the
\* clock's data sets read as well (lock_assessment, _is_grandmaster).
THEOREM SafeWithoutARead == Spec => []LosingAReadIsSafe
<1>1. CncInv => LosingAReadIsSafe
  <2> DEFINE clock == {"ptp-default", "ptp-parent", "ptp-current"}
             full(r) == [r EXCEPT !.cap = [k \in Keys |-> IF k \in clock THEN "ok" ELSE @[k]]]
  <2> SUFFICES ASSUME CncInv, NEW n \in Names, ByCli(n),
                      SafeToSchedule(records[n].ptp.lock)
               PROVE  SafeToSchedule(LockAssessment(PtpReading(case[n].sw, full(case[n].r))))
    BY DEF LosingAReadIsSafe
  <2> DEFINE s == case[n].sw
             r == case[n].r
             all == full(r)
  <2>1. n \in DOMAIN case /\ case[n].mode = "cli"
    BY DEF ByCli
  <2>2. Switch(s) /\ r \in CliReading
    BY <2>1, CaseFacts
  <2>3. SafeToSchedule(LockAssessment(PtpReading(s, r)))
    BY <2>1, ModeRecord, RecordFields, PtpFields
  <2>4. /\ all.kept = r.kept
        /\ \A f \in {"states", "capable", "portStates", "portCapable"} : all[f] = r[f]
        /\ \A k \in clock : Read(all, k)
        /\ \A k \in Keys \ clock : Read(all, k) <=> Read(r, k)
    <3>1. /\ all.kept = r.kept /\ all.states = r.states /\ all.capable = r.capable
          /\ all.portStates = r.portStates /\ all.portCapable = r.portCapable
          /\ all.cap = [k \in Keys |-> IF k \in clock THEN "ok" ELSE r.cap[k]]
      BY <2>2 DEF CliReading
    <3>2. clock \subseteq Keys
      BY DEF Keys
    <3> HIDE DEF clock, all
    <3> QED
      BY <3>1, <3>2 DEF Read
  <2>5. /\ PtpReading(s, all).own = s.own /\ PtpReading(s, all).gm = s.gm
        /\ PtpReading(s, all).offset = s.offset /\ PtpReading(s, all).steps = s.steps
    BY <2>4 DEF PtpReading
  <2>6. /\ PtpReading(s, r).own \in {None, s.own} /\ PtpReading(s, r).gm \in {None, s.gm}
        /\ PtpReading(s, r).offset \in {None, s.offset}
        /\ PtpReading(s, r).steps \in {None, s.steps}
    BY DEF PtpReading
  <2>7. s.own # None /\ s.gm # None /\ s.offset # None /\ (s.steps = 0 <=> s.own = s.gm)
    BY <2>2, NoneAssumption DEF Switch
  <2>8. ObservedPorts(PtpReading(s, all)) = ObservedPorts(PtpReading(s, r))
    <3>1. "running-config" \in Keys \ clock
      BY DEF Keys
    <3> HIDE DEF all, clock
    <3> QED
      BY <2>4, <3>1, SamePorts
  <2> HIDE DEF all
  <2>9. SafeToSchedule(LockAssessment(PtpReading(s, all)))
    BY <2>3, <2>5, <2>6, <2>7, <2>8, MoreIsSafe
  <2> QED
    BY <2>9 DEF all
<1> QED
  BY <1>1, Invariance, PTL

-----------------------------------------------------------------------------
(* The schedules.                                                          *)

\* A warning of one port is one of the switch.
LEMMA NetconfWarns ==
  ASSUME NEW s, NEW i \in DOMAIN Interfaces, NetconfPort(s, i).qbv.warned
  PROVE  NetconfRecord(s, TRUE).warned
<1> DEFINE ports == [k \in DOMAIN Interfaces |-> NetconfPort(s, k)]
<1>1. NetconfRecord(s, TRUE).warned =
        \E k, j \in DOMAIN ports :
           \/ ports[k].qbv.warned
           \/ ports[k].qbv.present /\ LimitsDiffer(ports[k].qbv, ports[j].qbv)
  BY DEF NetconfRecord
<1>2. i \in DOMAIN ports /\ ports[i].qbv.warned
  OBVIOUS
<1> QED
  BY <1>1, <1>2

LEMMA CliWarns ==
  ASSUME NEW s, NEW r \in CliReading, NEW i \in r.kept, TasStatusToQbv(s.ports[i], r).warned
  PROVE  CliRecord(s, r).warned
<1> DEFINE ports == [k \in DOMAIN Table(r) |-> CliPort(s, r, k)]
<1>1. CliRecord(s, r).warned = \E k \in DOMAIN ports : ports[k].qbv.warned
  BY DEF CliRecord
<1>2. PICK k \in DOMAIN Table(r) : Table(r)[k] = i
  BY TableRows
<1>3. CliPort(s, r, k).qbv = TasStatusToQbv(s.ports[i], r)
  BY <1>2 DEF CliPort
<1>4. k \in DOMAIN ports /\ ports[k].qbv.warned
  BY <1>3
<1> QED
  BY <1>1, <1>4

\* The switch's state of a port is of the types of Port.
LEMMA PortType ==
  ASSUME NEW s, Switch(s), NEW i \in DOMAIN Interfaces
  PROVE  /\ s.ports[i] \in Port
         /\ s.ports[i].gclMax # None /\ s.ports[i].gclMax \in Nat
         /\ s.ports[i].list \in Seq(Nat) /\ s.ports[i].cycle \in Nat
         /\ s.ports[i].cycleMax \in Nat
         /\ s.ports[i].state \in States /\ s.ports[i].asCap \in BOOLEAN
         /\ HasTasLines(s.ports[i]) => "qbv" \in s.feats
<1>1. s.ports[i] \in Port
  BY DEF Switch
<1>2. HasTasLines(s.ports[i]) => "qbv" \in s.feats
  BY DEF Switch
<1> QED
  BY <1>1, <1>2, NoneAssumption DEF Port

\* What the command line makes of a running gate.
LEMMA CliGate ==
  ASSUME NEW p \in Port, NEW r \in CliReading, p.gate
  PROVE  /\ /\ p.list # << >> /\ p.cycle > 0 /\ Total(p.list) # p.cycle
            /\ TasBlock(r) \/ Read(r, "running-config")
            => TasStatusToQbv(p, r).warned
         /\ Len(p.list) > p.gclMax /\ TasBlock(r) => TasStatusToQbv(p, r).warned
<1> DEFINE limit == IF TasBlock(r) THEN p.gclMax ELSE None
           list == EffectiveList(p, r)
<1>1. p.gate = TRUE /\ p.list \in Seq(Nat) /\ p.cycle \in Nat /\ p.gclMax \in Nat
      /\ p.gclMax # None
  BY NoneAssumption DEF Port
<1>2. ASSUME TasBlock(r) \/ Read(r, "running-config")
      PROVE  /\ GateEnabled(p, r)
             /\ TasStatusToQbv(p, r).warned =
                  (\/ GateEnabled(p, r) /\ Faults(list, EffectiveCycle(p, r), limit)
                   \/ TooManyEntries(list, limit))
  <2>1. GateEnabled(p, r)
    BY <1>1, <1>2 DEF GateEnabled
  <2>2. HasTasLines(p)
    BY <1>1 DEF HasTasLines
  <2> QED
    BY <1>2, <2>1, <2>2 DEF TasStatusToQbv
<1>3. ASSUME p.list # << >>, p.cycle > 0, Total(p.list) # p.cycle,
             TasBlock(r) \/ Read(r, "running-config")
      PROVE  TasStatusToQbv(p, r).warned
  <2>1. list = p.list
    BY <1>1, <1>3 DEF EffectiveList, OperList, AdminList
  <2>2. EffectiveCycle(p, r) = p.cycle
    BY <1>1, <1>3 DEF EffectiveCycle, OperCycle, AdminCycle
  <2> QED
    BY <1>2, <1>3, <2>1, <2>2 DEF Faults
<1>4. ASSUME Len(p.list) > p.gclMax, TasBlock(r)
      PROVE  TasStatusToQbv(p, r).warned
  <2>1. p.list # << >>
    BY <1>1, <1>4
  <2>2. list = p.list
    BY <1>1, <1>4, <2>1 DEF EffectiveList, OperList
  <2> QED
    BY <1>1, <1>2, <1>4, <2>2 DEF TooManyEntries
<1> QED
  BY <1>3, <1>4

\* A schedule that runs and cannot be what was meant is warned of, whichever
\* half of the port's data was read, over either transport.
THEOREM FaultsAreTold == Spec => []FaultyScheduleTold
<1>1. CncInv => FaultyScheduleTold
  <2> SUFFICES ASSUME CncInv, NEW n \in DOMAIN case, NEW i \in DOMAIN Interfaces,
                      case[n].sw.ports[i].gate
               PROVE  LET c == case[n]  p == c.sw.ports[i]
                          netconf == c.mode = "netconf" /\ c.got
                          cli == c.mode = "cli" /\ i \in c.r.kept IN
                      /\ p.list # << >> /\ p.cycle > 0 /\ Total(p.list) # p.cycle
                         /\ (netconf \/ (cli /\ (TasBlock(c.r) \/ Read(c.r, "running-config"))))
                         => records[n].warned
                      /\ Len(p.list) > p.gclMax /\ (netconf \/ (cli /\ TasBlock(c.r)))
                         => records[n].warned
    BY DEF FaultyScheduleTold
  <2> DEFINE c == case[n]
             p == c.sw.ports[i]
  <2>1. Switch(c.sw) /\ c.r \in CliReading /\ c.got \in BOOLEAN
    BY CaseFacts
  <2>2. p \in Port /\ p.gclMax # None /\ HasTasLines(p) /\ "qbv" \in c.sw.feats
    BY <2>1, PortType DEF HasTasLines
  <2>3. ASSUME c.mode = "netconf", c.got,
               \/ p.list # << >> /\ p.cycle > 0 /\ Total(p.list) # p.cycle
               \/ Len(p.list) > p.gclMax
        PROVE  records[n].warned
    <3>1. ExtractQbv(p).warned =
            (\/ p.gate /\ Faults(p.list, p.cycle, p.gclMax)
             \/ TooManyEntries(p.list, p.gclMax)
             \/ p.gate /\ p.cycleMax > 0 /\ p.cycle > p.cycleMax)
      BY DEF ExtractQbv
    <3>2. Faults(p.list, p.cycle, p.gclMax) \/ TooManyEntries(p.list, p.gclMax)
      BY <2>2, <2>3 DEF Faults, TooManyEntries
    <3>3. ExtractQbv(p).warned
      BY <3>1, <3>2
    <3>4. NetconfPort(c.sw, i).qbv = ExtractQbv(p)
      BY <2>2 DEF NetconfPort
    <3>5. NetconfRecord(c.sw, TRUE).warned
      BY <3>3, <3>4, NetconfWarns
    <3>6. c.got = TRUE
      BY <2>1, <2>3
    <3> QED
      BY <2>3, <3>5, <3>6, ModeRecord
  <2>4. ASSUME c.mode = "cli", i \in c.r.kept, TasStatusToQbv(p, c.r).warned
        PROVE  records[n].warned
    BY <2>1, <2>4, CliWarns, ModeRecord
  <2>5. /\ /\ p.list # << >> /\ p.cycle > 0 /\ Total(p.list) # p.cycle
           /\ TasBlock(c.r) \/ Read(c.r, "running-config")
           => TasStatusToQbv(p, c.r).warned
        /\ Len(p.list) > p.gclMax /\ TasBlock(c.r) => TasStatusToQbv(p, c.r).warned
    BY <2>1, <2>2, CliGate
  <2> HIDE DEF c, p
  <2> QED
    BY <2>3, <2>4, <2>5 DEF c, p
<1> QED
  BY <1>1, Invariance, PTL

\* What the command line makes of a port when all of its commands were read.
LEMMA CliPortRead ==
  ASSUME NEW s, Switch(s), NEW r \in CliReading, Honest(s, r), NEW i \in DOMAIN Interfaces,
         \A k \in {"running-config", "tas", "fp", "qos--"} : Read(r, k)
  PROVE  LET v == TasStatusToQbv(s.ports[i], r)  q == NetconfPort(s, i) IN
         /\ v.present = q.qbv.present /\ v.gate = q.qbv.gate /\ v.total = q.qbv.total
         /\ v.cycle = q.qbv.cycle /\ v.entries = q.qbv.entries /\ v.gclMax = q.qbv.gclMax
         /\ FpStatusToQbu(s.ports[i], r) = q.qbu
<1> DEFINE p == s.ports[i]
           v == TasStatusToQbv(p, r)
<1>1. p \in Port /\ p.list \in Seq(Nat) /\ p.cycle \in Nat
  BY PortType
<1>2. "qbv" \in s.feats /\ "qbu" \in s.feats
  <2>1. r.cap["tas"] = "ok" /\ r.cap["fp"] = "ok"
    BY DEF Read
  <2> QED
    BY <2>1 DEF Honest, Features, Evidence
<1>3. TasBlock(r) /\ Read(r, "running-config")
  BY DEF TasBlock, ReadFor
<1>4. EffectiveList(p, r) = p.list
  BY <1>3 DEF EffectiveList, OperList, AdminList
<1>5. /\ v.present = TRUE /\ v.gate = GateEnabled(p, r) /\ v.total = Total(p.list)
      /\ v.cycle = AdminCycle(p, r) /\ v.entries = Len(AdminList(p, r))
      /\ v.gclMax = p.gclMax
  BY <1>3, <1>4 DEF TasStatusToQbv
<1>6. /\ GateEnabled(p, r) = p.gate /\ AdminCycle(p, r) = p.cycle
      /\ AdminList(p, r) = p.list
  <2>1. p.gate \in BOOLEAN
    BY <1>1 DEF Port
  <2>2. GateEnabled(p, r) <=> p.gate
    BY <1>3 DEF GateEnabled
  <2>3. GateEnabled(p, r) \in BOOLEAN
    BY DEF GateEnabled
  <2> QED
    BY <1>3, <2>1, <2>2, <2>3 DEF AdminCycle, AdminList
<1>7. NetconfPort(s, i).qbv = ExtractQbv(p) /\ NetconfPort(s, i).qbu = ExtractQbu(p)
  BY <1>2 DEF NetconfPort
<1>8. LET q == ExtractQbv(p) IN
      /\ q.present = TRUE /\ q.gate = p.gate /\ q.total = Total(p.list)
      /\ q.cycle = p.cycle /\ q.entries = Len(p.list) /\ q.gclMax = p.gclMax
  BY DEF ExtractQbv
<1>9. FpStatusToQbu(p, r) = ExtractQbu(p)
  <2>1. ReadFor(r, "fp", "fp--") /\ Queues(p, r) = p.queues /\ RegenMap(p, r) = p.regen
    BY DEF ReadFor, Queues, RegenMap
  <2>2. FpStatusToQbu(p, r) =
          [present |-> TRUE, preemptable |-> {q \in Priorities : p.regen[q] \in p.queues}]
    BY <2>1 DEF FpStatusToQbu
  <2> QED
    BY <2>2 DEF ExtractQbu
<1> QED
  BY <1>5, <1>6, <1>7, <1>8, <1>9

\* The command line and NETCONF tell the same of a port that was read.
THEOREM TransportsAgree == Spec => []SameOverTransports
<1>1. CncInv => SameOverTransports
  <2> SUFFICES ASSUME CncInv, NEW n \in Names, ByCli(n),
                      \A k \in {"running-config", "tas", "fp", "qos--"} : Read(case[n].r, k),
                      NEW p \in PortsOf(n)
               PROVE  LET i == CHOOSE j \in DOMAIN Interfaces : Interfaces[j] = p.name
                          q == NetconfPort(case[n].sw, i) IN
                      /\ \A f \in {"present", "gate", "total", "cycle", "entries", "gclMax"} :
                           p.qbv[f] = q.qbv[f]
                      /\ p.qbu = q.qbu
    BY DEF SameOverTransports
  <2> DEFINE s == case[n].sw
             r == case[n].r
  <2>1. n \in DOMAIN case /\ Switch(s) /\ r \in CliReading /\ Honest(s, r)
        /\ records[n] = CliRecord(s, r)
    BY CaseFacts, ModeRecord DEF ByCli
  <2>2. CliRecord(s, r).ports = [k \in DOMAIN Table(r) |-> CliPort(s, r, k)]
    BY DEF CliRecord
  <2>3. PICK k \in DOMAIN Table(r) : p = CliPort(s, r, k)
    BY <2>1, <2>2 DEF PortsOf, ToSet
  <2> DEFINE i == Table(r)[k]
  <2>4. i \in DOMAIN Interfaces
    BY <2>1, TableRows
  <2>5. p.name = Interfaces[i] /\ p.qbv = TasStatusToQbv(s.ports[i], r)
        /\ p.qbu = FpStatusToQbu(s.ports[i], r)
    BY <2>3 DEF CliPort
  <2> HIDE DEF i
  <2>6. (CHOOSE j \in DOMAIN Interfaces : Interfaces[j] = p.name) = i
    BY <2>4, <2>5, InterfacesAssumption
  <2>7. LET v == TasStatusToQbv(s.ports[i], r)  q == NetconfPort(s, i) IN
        /\ v.present = q.qbv.present /\ v.gate = q.qbv.gate /\ v.total = q.qbv.total
        /\ v.cycle = q.qbv.cycle /\ v.entries = q.qbv.entries /\ v.gclMax = q.qbv.gclMax
        /\ FpStatusToQbu(s.ports[i], r) = q.qbu
    BY <2>1, <2>4, CliPortRead
  <2> QED
    BY <2>5, <2>6, <2>7
<1> QED
  BY <1>1, Invariance, PTL

-----------------------------------------------------------------------------
(* The document.                                                           *)

\* A set of numbers has a least one.
LEMMA Least ==
  ASSUME NEW S, S \subseteq Nat, S # {}
  PROVE  \E x \in S : \A y \in S : x <= y
<1> DEFINE Smaller == OpToRel(<, Nat)
<1>1. Smaller = {ss \in Nat \X Nat : ss[1] < ss[2]}
  BY Zenon DEF OpToRel
<1>2. \A x \in S : \A y \in S : <<y, x>> \in Smaller <=> y < x
  BY <1>1
<1>3. IsWellFoundedOn(Smaller, Nat)
  BY NatLessThanWellFounded, Zenon
<1> HIDE DEF Smaller
<1>4. \E x \in S : \A y \in S : ~(<<y, x>> \in Smaller)
  BY <1>3, WFMin
<1>5. PICK x \in S : \A y \in S : ~(y < x)
  BY <1>2, <1>4
<1> QED
  BY <1>5

LEMMA MinIsNumber ==
  ASSUME NEW vs, vs \subseteq Nat \cup {None}
  PROVE  MinOrNone(vs) = None \/ MinOrNone(vs) \in Nat
<1> DEFINE given == vs \ {None}
<1>1. CASE given = {}
  BY <1>1 DEF MinOrNone
<1>2. CASE given # {}
  <2>1. given \subseteq Nat
    OBVIOUS
  <2>2. \E v \in given : \A w \in given : v <= w
    BY <1>2, <2>1, Least
  <2>3. MinOrNone(vs) = CHOOSE v \in given : \A w \in given : v <= w
    BY <1>2 DEF MinOrNone
  <2> HIDE DEF given
  <2> QED
    BY <2>1, <2>2, <2>3
<1> QED
  BY <1>1, <1>2

\* A port of a record has a limit that is a number, or none.
LEMMA LimitTypes ==
  ASSUME CncInv, NEW n \in DOMAIN records, NEW p \in PortsOf(n)
  PROVE  {p.qbv.cycleMax, p.qbv.gclMax} \subseteq Nat \cup {None}
<1> DEFINE c == case[n]
<1>1. n \in DOMAIN case
  BY DEF CncInv, RecordInv
<1>2. Switch(c.sw) /\ c.r \in CliReading /\ c.got \in BOOLEAN /\ c.mode \in Mode
  BY <1>1, CaseFacts
<1>3. NoQbv.gclMax = None /\ NoQbv.cycleMax = None
  BY DEF NoQbv
<1>4. CASE c.mode = "netconf"
  <2>1. records[n].ports = IF c.got THEN [i \in DOMAIN Interfaces |-> NetconfPort(c.sw, i)]
                           ELSE << >>
    <3>1. NetconfRecord(c.sw, c.got).ports =
            IF c.got THEN [i \in DOMAIN Interfaces |-> NetconfPort(c.sw, i)] ELSE << >>
      BY DEF NetconfRecord
    <3> QED
      BY <1>1, <1>4, <3>1, ModeRecord
  <2>2. PICK i \in DOMAIN Interfaces : p = NetconfPort(c.sw, i)
    BY <2>1 DEF PortsOf, ToSet
  <2>3. p.qbv = IF "qbv" \in c.sw.feats THEN ExtractQbv(c.sw.ports[i]) ELSE NoQbv
    BY <2>2 DEF NetconfPort
  <2>4. ExtractQbv(c.sw.ports[i]).gclMax = c.sw.ports[i].gclMax
        /\ ExtractQbv(c.sw.ports[i]).cycleMax = c.sw.ports[i].cycleMax
    BY DEF ExtractQbv
  <2> QED
    BY <1>2, <1>3, <2>3, <2>4, PortType
<1>5. CASE c.mode = "cli"
  <2>1. records[n].ports = [k \in DOMAIN Table(c.r) |-> CliPort(c.sw, c.r, k)]
    <3>1. CliRecord(c.sw, c.r).ports = [k \in DOMAIN Table(c.r) |-> CliPort(c.sw, c.r, k)]
      BY DEF CliRecord
    <3> QED
      BY <1>1, <1>5, <3>1, ModeRecord
  <2>2. PICK k \in DOMAIN Table(c.r) : p = CliPort(c.sw, c.r, k)
    BY <2>1 DEF PortsOf, ToSet
  <2>3. Table(c.r)[k] \in DOMAIN Interfaces
    BY <1>2, TableRows
  <2> DEFINE w == c.sw.ports[Table(c.r)[k]]
  <2>4. p.qbv = TasStatusToQbv(w, c.r) /\ w.gclMax \in Nat
    BY <1>2, <2>2, <2>3, PortType DEF CliPort
  <2>5. TasStatusToQbv(w, c.r).gclMax \in {None, w.gclMax}
        /\ TasStatusToQbv(w, c.r).cycleMax = None
    BY <1>3 DEF TasStatusToQbv
  <2> QED
    BY <2>4, <2>5
<1>6. CASE c.mode = "unreachable"
  <2>1. NoRecord.ports = << >>
    BY DEF NoRecord
  <2>2. records[n].ports = << >>
    BY <1>1, <1>6, <2>1, ModeRecord
  <2> QED
    BY <2>2 DEF PortsOf, ToSet
<1> QED
  BY <1>2, <1>4, <1>5, <1>6 DEF Mode

\* Types: the document has every switch, an envelope of numbers, and gaps that
\* name switches which answered.
THEOREM TypeCorrect == Spec => []TypeOK
<1>1. CncInv => TypeOK
  <2> SUFFICES ASSUME CncInv PROVE TypeOK
    OBVIOUS
  <2>1. ASSUME doc # None
        PROVE  /\ DOMAIN doc.bridges = Names
               /\ doc.envelope.cycle = Envelope.cycle /\ doc.envelope.gcl = Envelope.gcl
               /\ doc.gaps = Gaps
    <3>1. doc = Built
      BY <2>1 DEF CncInv
    <3>2. Built.bridges = [n \in Names |-> Bridge(n)] /\ Built.envelope = Envelope
          /\ Built.gaps = Gaps
      BY DEF Built
    <3> QED
      BY <3>1, <3>2
  <2>2. \A v \in {Envelope.cycle, Envelope.gcl} : v = None \/ v \in Nat
    <3>1. \A p \in QbvPorts : {p.qbv.cycleMax, p.qbv.gclMax} \subseteq Nat \cup {None}
      BY LimitTypes DEF QbvPorts, Reachable
    <3>2. /\ Envelope.cycle = MinOrNone({p.qbv.cycleMax : p \in QbvPorts})
          /\ Envelope.gcl = MinOrNone({p.qbv.gclMax : p \in QbvPorts})
      BY DEF Envelope
    <3>3. /\ {p.qbv.cycleMax : p \in QbvPorts} \subseteq Nat \cup {None}
          /\ {p.qbv.gclMax : p \in QbvPorts} \subseteq Nat \cup {None}
      BY <3>1
    <3> QED
      BY <3>2, <3>3, MinIsNumber
  <2>3. ASSUME NEW g \in Gaps, g.impact \in {"degraded", "degraded-read-only",
                                             "blocking-for-verification"}
        PROVE  g.affects # {} /\ g.affects \subseteq Reachable
    <3>1. \A a, b, c : Gap(a, b, c).impact = b /\ Gap(a, b, c).affects = c
      BY DEF Gap
    <3>2. \A P, x : \A y \in Where(P, x) : P /\ y = x
      BY DEF Where
    <3>3. \/ g \in PtpGap
          \/ g \in Where(CliBridges # {}, Gap("transport", "degraded", CliBridges))
      <4> DEFINE A == PtpGap
                 B == Where(CliBridges # {}, Gap("transport", "degraded", CliBridges))
                 C == UNION {Where(~AnySupport(f), Gap(f, "feature-unavailable", {})) :
                               f \in {"qci", "qav"}}
                 Q == Where(~AnySupport("qcc"), Gap("qcc", "expected", {}))
                 D == Where(Untrusted # {}, Gap("ingress-classification",
                                                "blocking-for-scheduling", Untrusted))
                 E == Where(NonIdentity # {},
                            Gap("priority-regeneration", "operational", NonIdentity))
                 F == Gap("datastore-coherence", "operational", {})
      <4>1. Gaps = A \cup B \cup C \cup Q \cup D \cup E \cup {F}
        BY DEF Gaps
      <4>2. g \notin C
        BY <2>3, <3>1, <3>2
      <4>2a. g \notin Q
        BY <2>3, <3>1, <3>2
      <4>3. g \notin D
        BY <2>3, <3>1, <3>2
      <4>4. g \notin E
        BY <2>3, <3>1, <3>2
      <4>5. g # F
        BY <2>3, <3>1
      <4> HIDE DEF A, B, C, D, E, F, Q
      <4>6. g \in A \/ g \in B
        BY <2>3, <4>1, <4>2, <4>3, <4>4, <4>5, <4>2a
      <4> QED
        BY <4>6 DEF A, B
    <3>4. CASE g \in PtpGap
      <4>1. \/ PtpAbsent # {} /\ g = Gap("ptp", "blocking-for-verification", PtpAbsent)
            \/ PtpViaCli # {} /\ g = Gap("ptp", "degraded-read-only", PtpViaCli)
        BY <3>4 DEF PtpGap
      <4> QED
        BY <3>1, <4>1 DEF PtpAbsent, PtpViaCli
    <3>5. CASE g \in Where(CliBridges # {}, Gap("transport", "degraded", CliBridges))
      <4>1. CliBridges # {} /\ g = Gap("transport", "degraded", CliBridges)
        BY <3>2, <3>5
      <4>2. g.affects = CliBridges
        BY <3>1, <4>1
      <4> QED
        BY <4>1, <4>2 DEF CliBridges
    <3> QED
      BY <3>3, <3>4, <3>5
  <2>4. /\ DOMAIN case = DOMAIN records /\ DOMAIN case \subseteq Names
        /\ \A n \in DOMAIN case : case[n] \in Cases[n]
    BY DEF CncInv, RecordInv
  <2> QED
    BY <2>1, <2>2, <2>3, <2>4 DEF TypeOK
<1> QED
  BY <1>1, Invariance, PTL

-----------------------------------------------------------------------------
(* The ports of a PTP record.                                              *)

\* A function on 1 .. n is a sequence, and what two of them hold one after the
\* other each of them holds.
LEMMA Joining ==
  ASSUME NEW m \in Nat, NEW n \in Nat, NEW s, NEW t,
         s = [k \in 1 .. m |-> s[k]], t = [k \in 1 .. n |-> t[k]]
  PROVE  /\ ToSet(s \o t) = ToSet(s) \cup ToSet(t)
         /\ DOMAIN (s \o t) = 1 .. m + n
         /\ s \o t = [k \in 1 .. m + n |-> (s \o t)[k]]
<1> DEFINE S == {s[k] : k \in 1 .. m} \cup {t[k] : k \in 1 .. n}
<1>1. s \in Seq(S) /\ Len(s) = m /\ DOMAIN s = 1 .. m
  <2>1. s \in [1 .. m -> S] /\ DOMAIN s = 1 .. m
    OBVIOUS
  <2> HIDE DEF S
  <2>2. s \in Seq(S)
    BY <2>1
  <2> QED
    BY <2>1, <2>2
<1>2. t \in Seq(S) /\ Len(t) = n /\ DOMAIN t = 1 .. n
  <2>1. t \in [1 .. n -> S] /\ DOMAIN t = 1 .. n
    OBVIOUS
  <2> HIDE DEF S
  <2>2. t \in Seq(S)
    BY <2>1
  <2> QED
    BY <2>1, <2>2
<1> HIDE DEF S
<1>3. /\ DOMAIN (s \o t) = 1 .. m + n
      /\ \A k \in 1 .. m : (s \o t)[k] = s[k]
      /\ \A k \in 1 .. n : (s \o t)[m + k] = t[k]
      /\ s \o t = [k \in 1 .. m + n |-> (s \o t)[k]]
  <2>1. s \o t \in Seq(S) /\ Len(s \o t) = m + n
    BY <1>1, <1>2
  <2>2. DOMAIN (s \o t) = 1 .. m + n
    BY <2>1
  <2>3. \A k \in 1 .. m : (s \o t)[k] = s[k]
    BY <1>1, <1>2
  <2>4. \A k \in 1 .. n : (s \o t)[m + k] = t[k]
    <3>1. SUFFICES ASSUME NEW k \in 1 .. n PROVE (s \o t)[m + k] = t[k]
      OBVIOUS
    <3>2. m + k \in 1 .. m + n /\ m + k > m /\ (m + k) - m = k
      OBVIOUS
    <3> QED
      BY <1>1, <1>2, <3>2
  <2>5. s \o t = [k \in 1 .. m + n |-> (s \o t)[k]]
    BY <2>1, <2>2
  <2> QED
    BY <2>2, <2>3, <2>4, <2>5
<1>4. \A k \in 1 .. m + n : k \in 1 .. m \/ \E j \in 1 .. n : k = m + j
  <2>1. SUFFICES ASSUME NEW k \in 1 .. m + n, k \notin 1 .. m
                 PROVE  \E j \in 1 .. n : k = m + j
    OBVIOUS
  <2>2. k - m \in 1 .. n /\ k = m + (k - m)
    BY <2>1
  <2> QED
    BY <2>2
<1>5. ASSUME NEW x \in ToSet(s \o t) PROVE x \in ToSet(s) \cup ToSet(t)
  <2>1. PICK k \in 1 .. m + n : x = (s \o t)[k]
    BY <1>3 DEF ToSet
  <2>2. CASE k \in 1 .. m
    BY <1>1, <1>3, <2>1, <2>2 DEF ToSet
  <2>3. CASE k \notin 1 .. m
    <3>1. PICK j \in 1 .. n : k = m + j
      BY <1>4, <2>3
    <3> QED
      BY <1>2, <1>3, <2>1, <3>1 DEF ToSet
  <2> QED
    BY <2>2, <2>3
<1>6. \A k \in 1 .. m : k \in 1 .. m + n
  OBVIOUS
<1>7. \A k \in 1 .. n : m + k \in 1 .. m + n
  OBVIOUS
<1>8. ToSet(s) \subseteq ToSet(s \o t)
  BY <1>1, <1>3, <1>6 DEF ToSet
<1>9. ToSet(t) \subseteq ToSet(s \o t)
  BY <1>2, <1>3, <1>7 DEF ToSet
<1> QED
  BY <1>3, <1>5, <1>8, <1>9

IsSequence(s) == \E n \in Nat : s = [k \in 1 .. n |-> s[k]]

\* FirstOnly drops rows and adds none.
LEMMA FirstAreRows ==
  ASSUME NEW rows, IsSequence(rows)
  PROVE  IsSequence(FirstOnly(rows)) /\ ToSet(FirstOnly(rows)) \subseteq ToSet(rows)
<1> DEFINE first(k) == \A j \in 1 .. k - 1 :
                         <<rows[j].number, rows[j].iface>> # <<rows[k].number, rows[k].iface>>
           at == InOrder({k \in DOMAIN rows : first(k)})
<1>1. PICK n \in Nat : DOMAIN rows = 1 .. n
  BY DEF IsSequence
<1>2. PICK m \in Nat : DOMAIN at = 1 .. m /\ \A k \in DOMAIN at : at[k] \in DOMAIN rows
  <2>1. {k \in DOMAIN rows : first(k)} \subseteq 1 .. n
    BY <1>1
  <2> HIDE DEF first
  <2> QED
    BY <2>1, InOrderLists
<1>3. FirstOnly(rows) = [k \in DOMAIN at |-> rows[at[k]]]
  BY DEF FirstOnly
<1> HIDE DEF at
<1>4. IsSequence(FirstOnly(rows))
  BY <1>2, <1>3 DEF IsSequence
<1> QED
  BY <1>2, <1>3, <1>4 DEF ToSet

\* A port that is only configured has no state.
LEMMA ConfiguredHaveNoState ==
  ASSUME NEW rd, IsSequence(rd.table), NEW rows
  PROVE  /\ IsSequence(ConfiguredOnly(rd, rows))
         /\ \A p \in ToSet(ConfiguredOnly(rd, rows)) : p.state = None /\ p.asCap = None
<1> DEFINE S == {n \in DOMAIN rd.table :
                   rd.table[n] \in rd.cfg /\ n \notin {x.number : x \in ToSet(rows)}}
           at == InOrder(S)
<1>1. PICK n \in Nat : DOMAIN rd.table = 1 .. n
  BY DEF IsSequence
<1>2. PICK m \in Nat : DOMAIN at = 1 .. m
  <2>1. S \subseteq 1 .. n
    BY <1>1
  <2> HIDE DEF S
  <2> QED
    BY <2>1, InOrderLists
<1>3. ConfiguredOnly(rd, rows) =
        [k \in DOMAIN at |-> [number |-> at[k], iface |-> rd.table[at[k]],
                              state |-> None, asCap |-> None, configured |-> TRUE]]
  BY DEF ConfiguredOnly
<1> HIDE DEF at
<1>4. IsSequence(ConfiguredOnly(rd, rows))
  BY <1>2, <1>3 DEF IsSequence
<1> QED
  BY <1>3, <1>4 DEF ToSet

\* What a row says of interface i of switch s, where it says something.
Says(s, p, i) ==
  /\ p.number = i /\ p.state \in {None, s.ports[i].state}
  /\ p.asCap \in {None, s.ports[i].asCap}

\* Each row read is of an interface; one of the per-interface form has its name,
\* and one of the switch-wide form the name at its position in the table.
LEMMA RowsAreOfInterfaces ==
  ASSUME NEW s, NEW r \in CliReading
  PROVE  LET rd == PtpReading(s, r)  rows == RowsRead(rd) IN
         /\ IsSequence(rd.table) /\ IsSequence(rows)
         /\ \A p \in ToSet(rows) : \E i \in DOMAIN Interfaces :
              /\ Says(s, p, i)
              /\ \/ p.iface = Interfaces[i]
                 \/ i \in r.states \cup r.capable /\ p.iface = ByNumber(rd, i)
         /\ \A i \in r.states \cup r.capable :
              \E p \in ToSet(rows) : p.number = i /\ p.iface = ByNumber(rd, i)
<1> DEFINE rd == PtpReading(s, r)
           numbers == InOrder(r.states \cup r.capable)
           asked == InOrder({n \in DOMAIN rd.table : rd.single[rd.table[n]] # None})
           given(k) == rd.table[asked[k]]
           A == [k \in DOMAIN rd.wide |-> Joined(rd, rd.wide[k], None)]
           B == [k \in DOMAIN asked |-> Joined(rd, rd.single[given(k)], given(k))]
<1>1. /\ rd.table = [k \in DOMAIN Table(r) |-> Interfaces[Table(r)[k]]]
      /\ rd.wide = [k \in DOMAIN numbers |-> Row(s, numbers[k], r.states, r.capable)]
      /\ rd.single = [n \in ToSet(Interfaces) |->
                        LET i == CHOOSE j \in DOMAIN Interfaces : Interfaces[j] = n IN
                        IF i \in r.portStates \cup r.portCapable
                        THEN Row(s, i, r.portStates, r.portCapable) ELSE None]
  BY DEF PtpReading
<1>2. RowsRead(rd) = A \o B
  BY DEF RowsRead
<1>3. /\ DOMAIN rd.table = 1 .. Cardinality(r.kept) /\ Cardinality(r.kept) \in Nat
      /\ \A k \in DOMAIN rd.table : \E i \in DOMAIN Interfaces : rd.table[k] = Interfaces[i]
  BY <1>1, TableRows
<1>4. IsSequence(rd.table)
  BY <1>1, <1>3 DEF IsSequence
<1> HIDE DEF rd
<1>4a. /\ \A k \in DOMAIN numbers : numbers[k] \in r.states \cup r.capable
       /\ \A i \in r.states \cup r.capable : \E k \in DOMAIN numbers : numbers[k] = i
       /\ \E m \in Nat : DOMAIN numbers = 1 .. m
       /\ r.states \cup r.capable \subseteq DOMAIN Interfaces
  <2>1. Len(Interfaces) \in Nat /\ DOMAIN Interfaces = 1 .. Len(Interfaces)
    BY TableRows
  <2>2. r.states \cup r.capable \subseteq 1 .. Len(Interfaces)
    BY <2>1 DEF CliReading, Rows
  <2> QED
    BY <2>1, <2>2, InOrderLists
<1> HIDE DEF numbers
<1>5. PICK m \in Nat : DOMAIN rd.wide = 1 .. m
  BY <1>1, <1>4a
<1>6. PICK n \in Nat : DOMAIN asked = 1 .. n /\
        \A k \in DOMAIN asked : asked[k] \in DOMAIN rd.table /\ rd.single[given(k)] # None
  <2> DEFINE S == {k \in DOMAIN rd.table : rd.single[rd.table[k]] # None}
  <2>1. S \subseteq 1 .. Cardinality(r.kept) /\ Cardinality(r.kept) \in Nat
    BY <1>3
  <2>2. \A k \in S : k \in DOMAIN rd.table /\ rd.single[rd.table[k]] # None
    OBVIOUS
  <2> HIDE DEF S
  <2>3. /\ DOMAIN InOrder(S) = 1 .. Cardinality(S) /\ Cardinality(S) \in Nat
        /\ \A k \in DOMAIN InOrder(S) : InOrder(S)[k] \in S
    BY <2>1, InOrderLists
  <2> QED
    BY <2>2, <2>3 DEF S
<1> HIDE DEF asked
<1>7. A = [k \in 1 .. m |-> A[k]] /\ B = [k \in 1 .. n |-> B[k]]
  BY <1>5, <1>6
<1>8. IsSequence(A \o B) /\ ToSet(A \o B) = ToSet(A) \cup ToSet(B)
  <2> HIDE DEF A, B
  <2>1. m \in Nat /\ n \in Nat /\ m + n \in Nat
    OBVIOUS
  <2>2. /\ ToSet(A \o B) = ToSet(A) \cup ToSet(B)
        /\ A \o B = [k \in 1 .. m + n |-> (A \o B)[k]]
    <3>1. A = [k \in 1 .. m |-> A[k]]
      BY <1>7
    <3>2. B = [k \in 1 .. n |-> B[k]]
      BY <1>7
    <3> HIDE <1>7
    <3> QED
      BY <2>1, <3>1, <3>2, Joining
  <2> QED
    BY <2>1, <2>2 DEF IsSequence
<1>9. \A row, x : /\ Joined(rd, row, x).number = row.number
                  /\ Joined(rd, row, x).state = row.state
                  /\ Joined(rd, row, x).asCap = row.asCap
                  /\ Joined(rd, row, x).iface = IF x # None THEN x ELSE ByNumber(rd, row.number)
  BY DEF Joined
<1>10. \A i, st, as : /\ Row(s, i, st, as).number = i
                      /\ Row(s, i, st, as).state \in {None, s.ports[i].state}
                      /\ Row(s, i, st, as).asCap \in {None, s.ports[i].asCap}
  BY DEF Row
<1>11. ASSUME NEW p \in ToSet(A)
       PROVE  \E i \in r.states \cup r.capable : Says(s, p, i) /\ p.iface = ByNumber(rd, i)
  <2>1. PICK k \in DOMAIN rd.wide : p = Joined(rd, rd.wide[k], None)
    BY DEF ToSet
  <2>2. numbers[k] \in r.states \cup r.capable
        /\ rd.wide[k] = Row(s, numbers[k], r.states, r.capable)
    BY <1>1, <1>4a, <2>1
  <2> QED
    BY <1>9, <1>10, <2>1, <2>2 DEF Says
<1>12. ASSUME NEW p \in ToSet(B)
       PROVE  \E i \in DOMAIN Interfaces : Says(s, p, i) /\ p.iface = Interfaces[i]
  <2>1. PICK k \in DOMAIN asked : p = Joined(rd, rd.single[given(k)], given(k))
    BY DEF ToSet
  <2>2. PICK i \in DOMAIN Interfaces : given(k) = Interfaces[i]
    BY <1>3, <1>6, <2>1
  <2>3. given(k) # None
    BY <2>2, InterfacesAssumption, NoneAssumption
  <2>4. given(k) \in ToSet(Interfaces)
    BY <2>2 DEF ToSet
  <2>5. (CHOOSE j \in DOMAIN Interfaces : Interfaces[j] = given(k)) = i
    BY <2>2, InterfacesAssumption
  <2>6. rd.single[given(k)] = Row(s, i, r.portStates, r.portCapable)
    BY <1>1, <1>6, <2>1, <2>4, <2>5
  <2> HIDE DEF given
  <2> QED
    BY <1>9, <1>10, <2>1, <2>2, <2>3, <2>6 DEF Says
<1>13. ASSUME NEW i \in r.states \cup r.capable
       PROVE  \E p \in ToSet(A) : p.number = i /\ p.iface = ByNumber(rd, i)
  <2>1. PICK k \in DOMAIN rd.wide : rd.wide[k] = Row(s, i, r.states, r.capable)
    BY <1>1, <1>4a
  <2>2. Joined(rd, rd.wide[k], None) \in ToSet(A)
    BY <2>1 DEF ToSet
  <2> QED
    BY <1>9, <1>10, <2>1, <2>2
<1> HIDE DEF A, B
<1> QED
  BY <1>2, <1>4, <1>8, <1>11, <1>12, <1>13, <1>4a DEF rd

\* The observed ports that have a state are rows that were read.
LEMMA ObservedRows ==
  ASSUME NEW rd, IsSequence(rd.table), IsSequence(RowsRead(rd))
  PROVE  /\ IsSequence(ObservedPorts(rd))
         /\ \A p \in ToSet(ObservedPorts(rd)) :
              p.state # None \/ p.asCap # None => p \in ToSet(RowsRead(rd))
<1> DEFINE first == FirstOnly(RowsRead(rd))
           more == ConfiguredOnly(rd, first)
<1>1. IsSequence(first) /\ ToSet(first) \subseteq ToSet(RowsRead(rd))
  BY FirstAreRows
<1> HIDE DEF first
<1>2. IsSequence(more) /\ \A x \in ToSet(more) : x.state = None /\ x.asCap = None
  BY ConfiguredHaveNoState
<1> HIDE DEF more
<1>3. PICK m \in Nat : first = [k \in 1 .. m |-> first[k]]
  BY <1>1 DEF IsSequence
<1>4. PICK n \in Nat : more = [k \in 1 .. n |-> more[k]]
  BY <1>2 DEF IsSequence
<1>5. /\ ToSet(first \o more) = ToSet(first) \cup ToSet(more)
      /\ first \o more = [k \in 1 .. m + n |-> (first \o more)[k]]
  BY <1>3, <1>4, Joining
<1>6. m + n \in Nat
  OBVIOUS
<1>7. ObservedPorts(rd) = first \o more
  BY DEF ObservedPorts, first, more
<1>8. IsSequence(first \o more)
  BY <1>5, <1>6 DEF IsSequence
<1> QED
  BY <1>1, <1>2, <1>5, <1>7, <1>8

\* Without a warning, and where the numbers tell, an observed port that has a
\* state is an interface, under its own name: all its rows have a name, so that
\* each switch-wide row has the name at its number in the interface table.
LEMMA PortsAreInterfaces ==
  ASSUME NEW s, NEW r \in CliReading, NumbersTell(r), ~PtpBuild(PtpReading(s, r)).warned,
         NEW p \in ToSet(ObservedPorts(PtpReading(s, r))),
         p.state # None \/ p.asCap # None
  PROVE  \E i \in DOMAIN Interfaces : Says(s, p, i) /\ p.iface = Interfaces[i]
<1> DEFINE rd == PtpReading(s, r)
           rows == RowsRead(rd)
<1>1. /\ rd.table = [k \in DOMAIN Table(r) |-> Interfaces[Table(r)[k]]]
      /\ IsSequence(rd.table) /\ IsSequence(rows)
      /\ \A i \in r.states \cup r.capable :
           \E x \in ToSet(rows) : x.number = i /\ x.iface = ByNumber(rd, i)
  <2>1. rd.table = [k \in DOMAIN Table(r) |-> Interfaces[Table(r)[k]]]
    BY DEF PtpReading
  <2> QED
    BY <2>1, RowsAreOfInterfaces
<1>2. \A x \in ToSet(rows) : \E i \in DOMAIN Interfaces :
        /\ Says(s, x, i)
        /\ \/ x.iface = Interfaces[i]
           \/ i \in r.states \cup r.capable /\ x.iface = ByNumber(rd, i)
  BY RowsAreOfInterfaces
<1>3. ~NotConfigured(rd)
  <2>1. NotConfigured(rd) => ObservedPorts(rd) = << >>
    BY DEF NotConfigured
  <2>2. ToSet(<< >>) = {}
    BY DEF ToSet
  <2> QED
    BY <2>1, <2>2
<1>4. Unmatched(rd) = {}
  BY <1>3, PtpFields
<1>5. \A x \in ToSet(rows) : x.iface # None
  BY <1>4 DEF Unmatched
<1>6. p \in ToSet(rows)
  <2>1. p \in ToSet(ObservedPorts(rd))
    OBVIOUS
  <2>2. IsSequence(rd.table) /\ IsSequence(RowsRead(rd))
    BY <1>1
  <2> HIDE DEF rd
  <2> QED
    BY <2>1, <2>2, ObservedRows
<1> HIDE DEF rd, rows
<1>7. PICK i \in DOMAIN Interfaces :
        /\ Says(s, p, i)
        /\ \/ p.iface = Interfaces[i]
           \/ i \in r.states \cup r.capable /\ p.iface = ByNumber(rd, i)
  BY <1>2, <1>6
<1>8. i \in r.states \cup r.capable => ByNumber(rd, i) = Interfaces[i]
  <2> SUFFICES ASSUME i \in r.states \cup r.capable PROVE ByNumber(rd, i) = Interfaces[i]
    OBVIOUS
  <2>1. \A j \in r.states \cup r.capable : ByNumber(rd, j) # None
    BY <1>1, <1>5
  <2>2. r.states \cup r.capable \subseteq DOMAIN rd.table
    BY <2>1 DEF ByNumber
  <2>3. DOMAIN rd.table = DOMAIN Table(r)
    BY <1>1
  <2>4. r.kept = 1 .. Cardinality(r.kept) \/ Len(Interfaces) \in DOMAIN Table(r)
    BY <2>2, <2>3 DEF NumbersTell
  <2>5. i \in DOMAIN Table(r) /\ Table(r)[i] = i
    BY <2>2, <2>3, <2>4, TableRows
  <2> QED
    BY <1>1, <2>3, <2>5 DEF ByNumber
<1> QED
  BY <1>7, <1>8

\* Where the numbers tell, PTP state is never given to the wrong interface in
\* silence (PtpAttributed).
THEOREM StateIsAttributed == Spec => []PtpAttributed
<1>1. CncInv => PtpAttributed
  <2> SUFFICES ASSUME CncInv, NEW n \in Names, ByCli(n), NumbersTell(case[n].r),
                      ~records[n].ptp.warned,
                      NEW p \in ToSet(records[n].ptp.ports), p.iface # None
               PROVE  /\ p.state \in {None, Hardware(n, p.iface).state}
                      /\ p.asCap \in {None, Hardware(n, p.iface).asCap}
    BY DEF PtpAttributed
  <2> DEFINE s == case[n].sw
             r == case[n].r
  <2>1. n \in DOMAIN case /\ case[n].mode = "cli"
    BY DEF ByCli
  <2>2. r \in CliReading /\ NumbersTell(r)
    BY <2>1, CaseFacts
  <2>3. records[n].ptp = PtpBuild(PtpReading(s, r))
    BY <2>1, ModeRecord, RecordFields
  <2> HIDE DEF s, r
  <2>4. CASE p.state = None /\ p.asCap = None
    BY <2>4
  <2>5. p \in ToSet(ObservedPorts(PtpReading(s, r)))
    BY <2>3, PtpFields
  <2>6. CASE p.state # None \/ p.asCap # None
    <3>1. PICK i \in DOMAIN Interfaces : Says(s, p, i) /\ p.iface = Interfaces[i]
      BY <2>2, <2>3, <2>5, <2>6, PortsAreInterfaces
    <3>2. (CHOOSE j \in DOMAIN Interfaces : Interfaces[j] = p.iface) = i
      BY <3>1, InterfacesAssumption
    <3>3. Hardware(n, p.iface) = s.ports[i]
      BY <3>2 DEF Hardware, s
    <3> QED
      BY <3>1, <3>3 DEF Says
  <2> QED
    BY <2>4, <2>6
<1> QED
  BY <1>1, Invariance, PTL

\* Of the ports of one key, all with one number, one stands: the last of them.
LEMMA OneStands ==
  ASSUME NEW obs, IsSequence(obs), NEW S \in SUBSET DOMAIN obs, NEW k \in S,
         NEW x \in Nat, \A j \in S : Key(obs[j]) = Key(obs[k]) => obs[j].number = x
  PROVE  \E m \in Latest(obs, S) : Key(obs[m]) = Key(obs[k])
<1>1. PICK n \in Nat : obs = [j \in 1 .. n |-> obs[j]]
  BY DEF IsSequence
<1>2. DOMAIN obs = 1 .. n
  BY <1>1
<1> DEFINE same == {j \in S : Key(obs[j]) = Key(obs[k])}
           after == {n - j : j \in same}
<1>3. same \subseteq 1 .. n /\ k \in same
  BY <1>2
<1>4. after \subseteq Nat /\ n - k \in after
  <2>1. \A j \in same : n - j \in Nat
    <3> SUFFICES ASSUME NEW j \in same PROVE n - j \in Nat
      OBVIOUS
    <3>1. j \in 1 .. n
      BY <1>3
    <3> QED
      BY <3>1
  <2> QED
    BY <1>3, <2>1
<1>5. PICK y \in after : \A z \in after : y <= z
  <2> HIDE DEF after
  <2> QED
    BY <1>4, Least
<1>6. PICK m \in same : y = n - m
  OBVIOUS
<1>7. \A j \in same : j <= m
  <2> SUFFICES ASSUME NEW j \in same PROVE j <= m
    OBVIOUS
  <2>1. n - j \in after
    OBVIOUS
  <2>2. n - m <= n - j
    BY <1>5, <1>6, <2>1
  <2>3. j \in 1 .. n /\ m \in 1 .. n
    BY <1>3
  <2> QED
    BY <2>2, <2>3
<1>8. m \in Latest(obs, S)
  <2> SUFFICES ASSUME NEW j \in S, Key(obs[j]) = Key(obs[m])
               PROVE  obs[j].number = obs[m].number /\ j <= m
    BY <1>6 DEF Latest
  <2>1. j \in same
    BY <1>6
  <2> QED
    BY <1>6, <1>7, <2>1
<1> QED
  BY <1>6, <1>8

\* The port whose value is entered under key x.
Entry(obs, ks, x) == CHOOSE j \in ks : Key(obs[j]) = x

\* Where the ports with a property that is read from the hardware are interfaces,
\* the entry of an interface is what the hardware says.
LEMMA EntryOfInterface ==
  ASSUME NEW s, NEW obs, IsSequence(obs), NEW S \in SUBSET DOMAIN obs,
         \A j \in S : \E i \in DOMAIN Interfaces :
           Says(s, obs[j], i) /\ obs[j].iface = Interfaces[i],
         NEW i \in DOMAIN Interfaces, NEW k \in S, obs[k].iface = Interfaces[i]
  PROVE  LET ks == Latest(obs, S)
             x == <<Interfaces[i], 0>>
             m == Entry(obs, ks, x) IN
         x \in {Key(obs[j]) : j \in ks} /\ m \in S /\ Says(s, obs[m], i)
<1> DEFINE x == <<Interfaces[i], 0>>
           ks == Latest(obs, S)
<1>1. ks \subseteq S
  BY DEF Latest
<1>2. \A j \in S : Key(obs[j]) = <<obs[j].iface, 0>>
  BY InterfacesAssumption, NoneAssumption DEF Key
<1>3. \A j \in S : Key(obs[j]) = x => Says(s, obs[j], i)
  <2> SUFFICES ASSUME NEW j \in S, Key(obs[j]) = x PROVE Says(s, obs[j], i)
    OBVIOUS
  <2>1. PICK h \in DOMAIN Interfaces : Says(s, obs[j], h) /\ obs[j].iface = Interfaces[h]
    OBVIOUS
  <2>2. <<obs[j].iface, 0>> = <<Interfaces[i], 0>>
    BY <1>2
  <2>3. h = i
    BY <2>1, <2>2, InterfacesAssumption
  <2> QED
    BY <2>1, <2>3
<1>4. Key(obs[k]) = x
  BY <1>2
<1>5. i \in Nat
  BY InterfacesAssumption
<1>6. \A j \in S : Key(obs[j]) = Key(obs[k]) => obs[j].number = i
  BY <1>3, <1>4 DEF Says
<1> HIDE DEF x
<1>7. \E j \in ks : Key(obs[j]) = x
  BY <1>4, <1>5, <1>6, OneStands
<1> HIDE DEF ks
<1> DEFINE m == Entry(obs, ks, x)
<1>8. m \in ks /\ Key(obs[m]) = x
  BY <1>7 DEF Entry
<1>9. x \in {Key(obs[j]) : j \in ks} /\ m \in S /\ Says(s, obs[m], i)
  BY <1>1, <1>3, <1>8
<1> QED
  BY <1>9 DEF x, ks

\* The ports that the verdict weighs.
LEMMA FollowersAreWeighed ==
  ASSUME NEW s, NEW obs, IsSequence(obs), NEW i \in DOMAIN Interfaces,
         \A p \in ToSet(obs) : p.state # None \/ p.asCap # None =>
           \E h \in DOMAIN Interfaces : Says(s, p, h) /\ p.iface = Interfaces[h]
  PROVE  /\ \A j \in DOMAIN obs :
              obs[j].iface = Interfaces[i] /\ obs[j].state \in {"slave", "time-receiver"}
              => <<Interfaces[i], 0>> \in SyncPorts(obs)
         /\ \A j \in DOMAIN obs :
              obs[j].iface = Interfaces[i] /\ obs[j].asCap = FALSE
              => <<Interfaces[i], 0>> \in Incapable(obs)
<1> DEFINE x == <<Interfaces[i], 0>>
<1>1. \A j \in DOMAIN obs : obs[j] \in ToSet(obs)
  BY DEF ToSet
<1>2. ASSUME NEW j \in DOMAIN obs, obs[j].iface = Interfaces[i],
             obs[j].state \in {"slave", "time-receiver"}
      PROVE  x \in SyncPorts(obs)
  <2> DEFINE S == {k \in DOMAIN obs : obs[k].state # None}
             ks == Latest(obs, S)
             m == Entry(obs, ks, x)
  <2>1. j \in S
    BY <1>2, NoneAssumption DEF States
  <2>2. \A k \in S : \E h \in DOMAIN Interfaces :
          Says(s, obs[k], h) /\ obs[k].iface = Interfaces[h]
    BY <1>1
  <2>3. PICK h \in DOMAIN Interfaces : Says(s, obs[j], h) /\ obs[j].iface = Interfaces[h]
    BY <2>1, <2>2
  <2>4. h = i
    BY <1>2, <2>3, InterfacesAssumption
  <2>5. PortStates(obs) = [y \in {Key(obs[k]) : k \in ks} |->
                             obs[Entry(obs, ks, y)].state]
    BY DEF PortStates, Entry
  <2>6. S \in SUBSET DOMAIN obs
    OBVIOUS
  <2> HIDE DEF S
  <2>7. x \in {Key(obs[k]) : k \in ks} /\ m \in S /\ Says(s, obs[m], i)
    BY <1>2, <2>1, <2>2, <2>6, EntryOfInterface
  <2>7a. obs[m].state # None /\ obs[j].state # None
    BY <2>1, <2>7 DEF S
  <2> HIDE DEF ks, x
  <2>8. x \in DOMAIN PortStates(obs) /\ PortStates(obs)[x] = obs[m].state
    BY <2>5, <2>7
  <2>9. PortStates(obs)[x] = obs[j].state
    <3>1. obs[m].state = s.ports[i].state
      BY <2>7, <2>7a DEF Says
    <3>2. obs[j].state = s.ports[i].state
      BY <2>3, <2>4, <2>7a DEF Says
    <3> QED
      BY <2>8, <3>1, <3>2
  <2> QED
    BY <1>2, <2>8, <2>9 DEF SyncPorts
<1>3. ASSUME NEW j \in DOMAIN obs, obs[j].iface = Interfaces[i], obs[j].asCap = FALSE
      PROVE  x \in Incapable(obs)
  <2> DEFINE S == {k \in DOMAIN obs : obs[k].asCap # None}
             ks == Latest(obs, S)
             m == Entry(obs, ks, x)
  <2>1. j \in S
    BY <1>3, NoneAssumption
  <2>2. \A k \in S : \E h \in DOMAIN Interfaces :
          Says(s, obs[k], h) /\ obs[k].iface = Interfaces[h]
    BY <1>1
  <2>3. PICK h \in DOMAIN Interfaces : Says(s, obs[j], h) /\ obs[j].iface = Interfaces[h]
    BY <2>1, <2>2
  <2>4. h = i
    BY <1>3, <2>3, InterfacesAssumption
  <2>5. AsCapable(obs) = [y \in {Key(obs[k]) : k \in ks} |->
                            obs[Entry(obs, ks, y)].asCap]
    BY DEF AsCapable, Entry
  <2>6. S \in SUBSET DOMAIN obs
    OBVIOUS
  <2> HIDE DEF S
  <2>7. x \in {Key(obs[k]) : k \in ks} /\ m \in S /\ Says(s, obs[m], i)
    <3>1. obs[j].iface = Interfaces[i]
      BY <1>3
    <3> HIDE <1>3
    <3> QED
      BY <2>1, <2>2, <2>6, <3>1, EntryOfInterface
  <2>7a. obs[m].asCap # None /\ obs[j].asCap # None
    BY <2>1, <2>7 DEF S
  <2> HIDE DEF ks, x
  <2>8. x \in DOMAIN AsCapable(obs) /\ AsCapable(obs)[x] = obs[m].asCap
    BY <2>5, <2>7
  <2>9. AsCapable(obs)[x] = obs[j].asCap
    <3>1. obs[m].asCap = s.ports[i].asCap
      BY <2>7, <2>7a DEF Says
    <3>2. obs[j].asCap = s.ports[i].asCap
      BY <2>3, <2>4, <2>7a DEF Says
    <3> QED
      BY <2>8, <3>1, <3>2
  <2> QED
    BY <1>3, <2>8, <2>9 DEF Incapable
<1> QED
  BY <1>2, <1>3

\* A time base judged locked has, in no model, a port that follows a master and
\* is not capable of gPTP (SafeInEveryModel).
THEOREM ModelsAgreeWithVerdict == Spec => []SafeInEveryModel
<1>1. CncInv => SafeInEveryModel
  <2> SUFFICES ASSUME CncInv, NEW n \in Names, ByCli(n), NumbersTell(case[n].r),
                      records[n].ptp.lock = "locked", ~records[n].ptp.warned,
                      NEW j \in DOMAIN records[n].ptp.ieee1588,
                      NEW k \in DOMAIN records[n].ptp.dot1as,
                      records[n].ptp.ieee1588[j].iface = records[n].ptp.dot1as[k].iface,
                      records[n].ptp.dot1as[k].iface # None,
                      records[n].ptp.ieee1588[j].state = "time-receiver",
                      records[n].ptp.dot1as[k].asCapable = FALSE
               PROVE  FALSE
    BY DEF SafeInEveryModel
  <2> DEFINE s == case[n].sw
             r == case[n].r
             rd == PtpReading(s, r)
             obs == ObservedPorts(rd)
  <2>1. n \in DOMAIN case /\ case[n].mode = "cli"
    BY DEF ByCli
  <2>2. r \in CliReading /\ NumbersTell(r)
    BY <2>1, CaseFacts
  <2>3. records[n].ptp = PtpBuild(rd)
    BY <2>1, ModeRecord, RecordFields
  <2> HIDE DEF s, r
  <2>4. /\ LockAssessment(rd) = "locked" /\ ~PtpBuild(rd).warned
        /\ records[n].ptp.ieee1588 = ProjectIeee1588(obs)
        /\ records[n].ptp.dot1as = ProjectDot1as(obs)
    BY <2>3, PtpFields
  <2>5. IsSequence(obs)
    BY <2>2, RowsAreOfInterfaces, ObservedRows
  <2>6. \A p \in ToSet(obs) : p.state # None \/ p.asCap # None =>
          \E i \in DOMAIN Interfaces : Says(s, p, i) /\ p.iface = Interfaces[i]
    BY <2>2, <2>4, PortsAreInterfaces
  <2> HIDE DEF rd
  <2>7. SyncPorts(obs) \cap Incapable(obs) = {}
    BY <2>4 DEF LockAssessment
  <2> HIDE DEF obs
  <2>8. /\ j \in DOMAIN obs /\ obs[j].iface = records[n].ptp.ieee1588[j].iface
        /\ Renamed2019(obs[j].state) = "time-receiver"
    BY <2>4 DEF ProjectIeee1588
  <2>9. obs[j].state \in {"slave", "time-receiver"}
    BY <2>8 DEF Renamed2019
  <2>10. k \in DOMAIN obs /\ obs[k].iface = obs[j].iface /\ obs[k].asCap = FALSE
    <3>1. k \in DOMAIN obs /\ obs[k].iface = records[n].ptp.dot1as[k].iface
      BY <2>4 DEF ProjectDot1as
    <3>2. obs[k].asCap = records[n].ptp.dot1as[k].asCapable
      BY <2>4, <3>1 DEF ProjectDot1as
    <3> QED
      BY <2>8, <3>1, <3>2
  <2>11. obs[k] \in ToSet(obs) /\ obs[k].asCap # None
    BY <2>10, NoneAssumption DEF ToSet
  <2>12. PICK i \in DOMAIN Interfaces : obs[k].iface = Interfaces[i]
    BY <2>6, <2>11
  <2>13. <<Interfaces[i], 0>> \in SyncPorts(obs) /\ <<Interfaces[i], 0>> \in Incapable(obs)
    BY <2>5, <2>6, <2>8, <2>9, <2>10, <2>12, FollowersAreWeighed
  <2> QED
    BY <2>7, <2>13
<1> QED
  BY <1>1, Invariance, PTL
=============================================================================
