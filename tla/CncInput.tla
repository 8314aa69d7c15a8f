------------------------------ MODULE CncInput ------------------------------
(***************************************************************************)
(* Switches are read one after the other, over NETCONF, over the command   *)
(* line or not at all, and their records become the document a central     *)
(* network controller plans with (tsn_discovery/cnc.py): what every bridge *)
(* supports, the envelope of all ports, and the gaps.                      *)
(***************************************************************************)
EXTENDS SwitchRecord

CONSTANTS
  Names,     \* the switches
  Links,     \* links of the topology: [a, b : [node, port]]
  Cases      \* Cases[n]: what switch n may be and how it may be read

\* How a switch is read: got and r matter for their transport only.
Mode == {"netconf", "cli", "unreachable"}

\* Commands that are accepted only by a firmware that has the feature.  There is
\* none for Qav, as the qos command shows a port's priorities on every firmware,
\* and the features without a command have none.
Evidence == [bridge |-> {"vlan"}, qbv |-> {"tas", "tas--"}, qbu |-> {"fp", "fp--"},
             qci |-> {"psfp"}, lldp |-> {"lldp"}, qav |-> {}, qcc |-> {}, ptp |-> {}]
Honest(s, r) == \A f \in Features \ s.feats : \A k \in Evidence[f] : r.cap[k] # "ok"

\* A port without a feature is not configured for it, and a clock is its own
\* grandmaster when it is no step away from it.
Switch(s) ==
  /\ s.feats \subseteq Features /\ s.ports \in [DOMAIN Interfaces -> Port]
  /\ \A i \in DOMAIN Interfaces :
       /\ "qbv" \in s.feats \/ ~HasTasLines(s.ports[i])
       /\ "qbu" \in s.feats \/ s.ports[i].queues = {}
  /\ \A clock \in {s.own, s.gm} : clock # None
  /\ {s.offset, s.steps} \subseteq Int /\ (s.steps = 0 <=> s.own = s.gm)

ASSUME CncAssumption ==
  \A n \in Names : \A c \in Cases[n] :
    /\ c.mode \in Mode /\ c.got \in BOOLEAN
    /\ Switch(c.sw) /\ c.r \in CliReading /\ Honest(c.sw, c.r)

VARIABLES
  case,      \* case[n]: the switch and how it was read, once it was read
  records,   \* records[n]: its record
  doc        \* the document, or None

vars == <<case, records, doc>>

Init == case = << >> /\ records = << >> /\ doc = None

RecordOf(c) ==
  CASE c.mode = "netconf"     -> NetconfRecord(c.sw, c.got)
    [] c.mode = "cli"         -> CliRecord(c.sw, c.r)
    [] c.mode = "unreachable" -> NoRecord

Added(f, n, v) == [m \in DOMAIN f \cup {n} |-> IF m = n THEN v ELSE f[m]]

ReadSwitch(n) ==
  /\ doc = None /\ n \notin DOMAIN records
  /\ \E c \in Cases[n] :
       /\ case' = Added(case, n, c)
       /\ records' = Added(records, n, RecordOf(c))
  /\ UNCHANGED doc

-----------------------------------------------------------------------------
(* cnc.build                                                               *)

\* _min_or_none: values that were not reported are left out.
MinOrNone(vs) ==
  LET given == vs \ {None} IN
  IF given = {} THEN None ELSE CHOOSE v \in given : \A w \in given : v <= w

\* _port_role: the neighbour of a port, if it has a link.
PortRole(n, p) ==
  LET ends == {e \in UNION {{<<l.a, l.b>>, <<l.b, l.a>>} : l \in Links} :
                 e[1] = [node |-> n, port |-> p]} IN
  IF ends = {} THEN "unused"
  ELSE IF (CHOOSE e \in ends : TRUE)[2].node \in Names THEN "inter-switch" ELSE "edge"

Reachable == {n \in DOMAIN records : records[n].reachable}

PortsOf(n) == ToSet(records[n].ports)

DocPort(n, p) ==
  [name |-> p.name, role |-> PortRole(n, p.name), qbv |-> p.qbv, qbu |-> p.qbu,
   regen |-> p.qos.regen]
Bridge(n) ==
  [reachable |-> records[n].reachable, transport |-> records[n].transport,
   capabilities |-> records[n].feats, ptp |-> records[n].ptp.status,
   warned |-> records[n].warned, ports |-> {DocPort(n, p) : p \in PortsOf(n)}]

\* _all_support and _any_support: of the bridges that answered.
AllSupport(f) == Reachable # {} /\ \A n \in Reachable : records[n].feats[f]
AnySupport(f) == \E n \in Reachable : records[n].feats[f]

PtpViaCli == {n \in Reachable : records[n].ptp.status = "available-via-cli"}
\* Mutant: bridges that did not answer have no PTP either.
PtpAbsentAnywhere == {n \in DOMAIN records : records[n].ptp.status # "available-via-cli"}
PtpAbsent == {n \in Reachable : records[n].ptp.status \notin {"available", "available-via-cli"}}
CliBridges == {n \in Reachable : records[n].transport = "cli"}

\* Ports whose tags are not trusted, and whose classes are not the identity.
Untrusted == {<<e[1], e[2].name>> : e \in
                {e \in UNION {{n} \X PortsOf(n) : n \in DOMAIN records} :
                   e[2].qos.trust = FALSE}}
NonIdentity == {<<e[1], e[2].name>> : e \in
                  {e \in UNION {{n} \X PortsOf(n) : n \in DOMAIN records} :
                     /\ e[2].qos.values # None
                     /\ \E q \in Priorities : e[2].qos.values[q] # q}}

Gap(capability, impact, affects) ==
  [capability |-> capability, impact |-> impact, affects |-> affects]
Where(cond, gap) == IF cond THEN {gap} ELSE {}

\* One PTP gap: of the bridges read over the CLI where there are any.
PtpGap ==
  CASE PtpAbsent # {} /\ PtpViaCli = {} ->
         {Gap("ptp", "blocking-for-verification", PtpAbsent)}
    [] PtpViaCli # {} -> {Gap("ptp", "degraded-read-only", PtpViaCli)}
    [] OTHER -> {}

Gaps ==
  PtpGap
  \cup Where(CliBridges # {}, Gap("transport", "degraded", CliBridges))
  \cup (UNION {Where(~AnySupport(f), Gap(f, "feature-unavailable", {})) : f \in {"qci", "qav"}})
  \cup Where(~AnySupport("qcc"), Gap("qcc", "expected", {}))
  \cup Where(Untrusted # {},
             Gap("ingress-classification", "blocking-for-scheduling", Untrusted))
  \cup Where(NonIdentity # {}, Gap("priority-regeneration", "operational", NonIdentity))
  \cup {Gap("datastore-coherence", "operational", {})}

\* The smallest limits of the ports that report one.
QbvPorts == {p \in UNION {PortsOf(n) : n \in Reachable} : p.qbv.present}
Envelope == [cycle |-> MinOrNone({p.qbv.cycleMax : p \in QbvPorts}),
             gcl   |-> MinOrNone({p.qbv.gclMax : p \in QbvPorts})]

Document ==
  /\ doc = None /\ DOMAIN records = Names
  /\ doc' = [bridges |-> [n \in Names |-> Bridge(n)], envelope |-> Envelope,
             support |-> [f \in Features |-> [all |-> AllSupport(f), any |-> AnySupport(f)]],
             gaps |-> Gaps]
  /\ UNCHANGED <<case, records>>

Next == (\E n \in Names : ReadSwitch(n)) \/ Document
Spec == Init /\ [][Next]_vars

-----------------------------------------------------------------------------
(* Properties                                                              *)

\* Type invariant: what is known of a switch is known of all of it, and the
\* gaps are those of bridges that answered.
TypeOK ==
  /\ DOMAIN case = DOMAIN records /\ DOMAIN case \subseteq Names
  /\ \A n \in DOMAIN case : case[n] \in Cases[n]
  /\ doc # None =>
       /\ DOMAIN doc.bridges = Names
       /\ \A v \in {doc.envelope.cycle, doc.envelope.gcl} : v = None \/ v \in Nat
       /\ \A g \in doc.gaps : g.impact \in {"degraded", "degraded-read-only",
                                           "blocking-for-verification"}
                             => g.affects # {} /\ g.affects \subseteq Reachable

Hardware(n, iface) == case[n].sw.ports[CHOOSE i \in DOMAIN Interfaces : Interfaces[i] = iface]
ByCli(n) == n \in DOMAIN case /\ case[n].mode = "cli"

\* The position in the interface table is the number in the PTP tables, or the
\* difference shows: the interface table lost its last rows only, or no
\* switch-wide PTP row was read, or the row of the last port was.  Outside of
\* this a PTP table that ends early and a lost interface row give a port's
\* state to another interface, and _observe finds no number without a name.
NumbersTell(r) ==
  LET wide == r.states \cup r.capable IN
  r.kept = 1 .. Cardinality(r.kept) \/ wide = {} \/ Len(Interfaces) \in wide

\* Where the numbers tell, PTP state is never given to the wrong interface in
\* silence: a row of the interface table that is lost shifts the number that
\* joins the two tables, and the PTP record then carries a warning (_observe).
PtpAttributed ==
  \A n \in Names : ByCli(n) /\ NumbersTell(case[n].r) /\ ~records[n].ptp.warned =>
    \A p \in ToSet(records[n].ptp.ports) : p.iface # None =>
      /\ p.state \in {None, Hardware(n, p.iface).state}
      /\ p.asCap \in {None, Hardware(n, p.iface).asCap}

\* Whichever of the three YANG models a consumer takes, a time base that was
\* judged locked shows no port that follows a master and is not gPTP-capable,
\* also where state and capability come from different rows: where the numbers
\* tell, verdict (lock_assessment) and models agree on the same readings.
SafeInEveryModel ==
  \A n \in Names : ByCli(n) /\ NumbersTell(case[n].r) =>
    LET P == records[n].ptp IN
    P.lock = "locked" /\ ~P.warned =>
      \A j \in DOMAIN P.ieee1588, k \in DOMAIN P.dot1as :
        /\ P.ieee1588[j].iface = P.dot1as[k].iface /\ P.dot1as[k].iface # None
        /\ P.ieee1588[j].state = "time-receiver"
        => P.dot1as[k].asCapable # FALSE

\* A command that failed never makes a switch look safe: where the verdict lets
\* a schedule be trusted, so does the one with the clock, parent and current
\* data sets all read (lock_assessment and the fallback of _is_grandmaster).
LosingAReadIsSafe ==
  \A n \in Names : ByCli(n) /\ SafeToSchedule(records[n].ptp.lock) =>
    LET clock == {"ptp-default", "ptp-parent", "ptp-current"}
        all == [case[n].r EXCEPT !.cap = [k \in Keys |-> IF k \in clock THEN "ok" ELSE @[k]]]
    IN  SafeToSchedule(LockAssessment(PtpReading(case[n].sw, all)))

\* The two transports tell the same of a port whose schedule is in force: the
\* command line and NETCONF name the same gate, cycle, entries and preemptable
\* priorities, although the switch prints queues and the model has priorities
\* (_tas_status_to_qbv and _fp_status_to_qbu against extract_qbv, extract_qbu).
SameOverTransports ==
  \A n \in Names :
    ByCli(n) /\ (\A k \in {"running-config", "tas", "fp", "qos--"} : Read(case[n].r, k)) =>
      \A p \in PortsOf(n) :
        LET i == CHOOSE j \in DOMAIN Interfaces : Interfaces[j] = p.name
            q == NetconfPort(case[n].sw, i) IN
        /\ \A f \in {"present", "gate", "total", "cycle", "entries", "gclMax"} :
             p.qbv[f] = q.qbv[f]
        /\ p.qbu = q.qbu

\* A schedule that runs and cannot be what was meant - its intervals do not sum
\* to the cycle, or it has more entries than the port takes - is warned of,
\* whatever half of the port's data was read, over either transport.
FaultyScheduleTold ==
  \A n \in DOMAIN case : \A i \in DOMAIN Interfaces :
    LET c == case[n]  p == c.sw.ports[i]
        netconf == c.mode = "netconf" /\ c.got
        cli == c.mode = "cli" /\ i \in c.r.kept IN
    p.gate =>
      /\ p.list # << >> /\ p.cycle > 0 /\ Total(p.list) # p.cycle
         /\ (netconf \/ (cli /\ (TasBlock(c.r) \/ Read(c.r, "running-config"))))
         => records[n].warned
      /\ Len(p.list) > p.gclMax /\ (netconf \/ (cli /\ TasBlock(c.r)))
         => records[n].warned

\* The document says that all bridges support a feature only if each bridge
\* that answered has it: a reply that was lost is no evidence (build_features).
\* Two features are claimed on less over the command line: Qav where the qos
\* command was accepted, and PTP of every switch, also if all its replies about
\* PTP were lost.
SupportEvidenced ==
  doc # None => \A f \in Features : doc.support[f].all =>
    /\ Reachable # {}
    /\ \A n \in Reachable :
         \/ f \in case[n].sw.feats
         \/ ByCli(n) /\ f = "qav" /\ Read(case[n].r, "qos--")
         \/ ByCli(n) /\ f = "ptp"

\* The note of the envelope: a schedule that fits it fits every port of the
\* bridges that were reached.
EnvelopeFits ==
  doc # None /\ doc.envelope.cycle # None =>
    \A n \in Reachable : \A i \in DOMAIN Interfaces :
      "qbv" \in case[n].sw.feats => doc.envelope.cycle <= case[n].sw.ports[i].cycleMax
=============================================================================
