---------------------------- MODULE SwitchRecord ----------------------------
(***************************************************************************)
(* One switch, and the record of it that either transport yields: NETCONF  *)
(* (capabilities.py, from the interfaces reply) or the command line        *)
(* (istax_parse.py and cli_record.py, from the captures that succeeded).   *)
(*                                                                         *)
(* A switch s is what the hardware is: feats, the features its firmware    *)
(* has; own, gm, offset, steps, the state of its clock; and for each port  *)
(* its schedule, preemption, classification and PTP state.  A reading r    *)
(* says what became of each command (or, for NETCONF, of the reply).       *)
(***************************************************************************)
EXTENDS Integers, SequencesExt, Functions, PtpRecord

CONSTANT Interfaces    \* the interface names, in the order of the hardware

ASSUME InterfacesAssumption ==
  /\ Interfaces \in Seq(STRING)
  /\ \A i, j \in DOMAIN Interfaces : Interfaces[i] = Interfaces[j] => i = j

Priorities == 0 .. 1
\* The features of a record that the document takes over (FEATURE_MODULES).
Features == {"bridge", "qbv", "qbu", "qci", "qav", "qcc", "lldp", "ptp"}

\* What a port of the hardware has.
Port == [gate : BOOLEAN, list : Seq(Nat), cycle : Nat, gclMax : Nat, cycleMax : Nat,
         queues : SUBSET Priorities, regen : [Priorities -> Priorities],
         trust : BOOLEAN, state : States, asCap : BOOLEAN]

\* Commands, switch-wide and per interface ("--"), and what became of each; those
\* of one per-interface command all end alike.  Qos has no switch-wide form.
PerInterface == [tas |-> "tas--", fp |-> "fp--", qos |-> "qos--"]
Keys == {"running-config", "vlan", "lldp", "psfp", "ptp-default", "ptp-parent", "ptp-current"}
          \cup DOMAIN PerInterface \cup Range(PerInterface)
Outcome == {"ok", "rejected", "lost", "unissued"}

\* kept: the positions of the interface table whose rows were understood; states
\* and capable: the ports whose rows of the switch-wide PTP table and 802.1AS
\* table were; portStates and portCapable: those of the per-interface form.
Rows == SUBSET DOMAIN Interfaces
CliReading ==
  {r \in [cap : [Keys -> Outcome], kept : Rows, states : Rows, capable : Rows,
          portStates : Rows, portCapable : Rows] :
     /\ \A k \in Keys \ Range(PerInterface) : r.cap[k] = "unissued" <=> k = "qos"
     /\ r.kept = {} => \A k \in Range(PerInterface) : r.cap[k] = "unissued"}

Total(list) == SumFunction(list)

-----------------------------------------------------------------------------
(* NETCONF: extract_qbv, extract_qbu, extract_qos                          *)

\* Mutant: only a list that is too short is reported.
FaultsIfShort(list, cycle, limit) ==
  (list # << >> /\ cycle > 0 /\ Total(list) < cycle)
    \/ (limit # None /\ Len(list) > limit)

\* The consistency checks that both transports apply to a running gate.  On a
\* gate that is not running the first is only a note.
Faults(list, cycle, limit) ==
  (list # << >> /\ cycle > 0 /\ Total(list) # cycle)
    \/ (limit # None /\ Len(list) > limit)
TooManyEntries(list, limit) == limit # None /\ Len(list) > limit

ExtractQbv(p) ==
  [present |-> TRUE, gate |-> p.gate, total |-> Total(p.list), cycle |-> p.cycle,
   entries |-> Len(p.list), gclMax |-> p.gclMax, cycleMax |-> p.cycleMax,
   warned |-> \/ p.gate /\ Faults(p.list, p.cycle, p.gclMax)
              \/ TooManyEntries(p.list, p.gclMax)
              \/ p.gate /\ p.cycleMax > 0 /\ p.cycle > p.cycleMax]

\* The switch keeps preemption per priority in this model: a priority is
\* preemptable when its traffic class is a preemptable queue.
ExtractQbu(p) ==
  [present |-> TRUE, preemptable |-> {q \in Priorities : p.regen[q] \in p.queues}]

ExtractQos(p) == [trust |-> None, values |-> None, regen |-> p.regen]

-----------------------------------------------------------------------------
(* The command line: _tas_status_to_qbv, _fp_status_to_qbu, _parse_qos     *)

Read(r, key) == r.cap[key] = "ok"
\* The per-interface form is asked for where the switch-wide one gave nothing.
ReadFor(r, key, perPort) == Read(r, key) \/ Read(r, perPort)

\* parse_tas_config_lines: is there a schedule in the running-config?
HasTasLines(p) == p.gate \/ p.list # << >> \/ p.cycle > 0

TasBlock(r) == ReadFor(r, "tas", "tas--")
OperList(p, r)   == IF TasBlock(r) /\ p.gate THEN p.list ELSE << >>
OperCycle(p, r)  == IF TasBlock(r) /\ p.gate THEN p.cycle ELSE 0
AdminList(p, r)  == IF Read(r, "running-config") THEN p.list ELSE << >>
AdminCycle(p, r) == IF Read(r, "running-config") THEN p.cycle ELSE 0

EffectiveList(p, r)  == IF OperList(p, r) # << >> THEN OperList(p, r) ELSE AdminList(p, r)
EffectiveCycle(p, r) == IF OperCycle(p, r) > 0 THEN OperCycle(p, r) ELSE AdminCycle(p, r)
GateEnabled(p, r) == (TasBlock(r) \/ Read(r, "running-config")) /\ p.gate

NoQbv == [present |-> FALSE, gate |-> FALSE, total |-> 0, cycle |-> 0, entries |-> 0,
          gclMax |-> None, cycleMax |-> None, warned |-> FALSE]
TasStatusToQbv(p, r) ==
  LET limit == IF TasBlock(r) THEN p.gclMax ELSE None
      list == EffectiveList(p, r) IN
  IF ~TasBlock(r) /\ ~(Read(r, "running-config") /\ HasTasLines(p)) THEN NoQbv
  ELSE [present |-> TRUE, gate |-> GateEnabled(p, r), total |-> Total(list),
        cycle |-> AdminCycle(p, r), entries |-> Len(AdminList(p, r)),
        gclMax |-> limit, cycleMax |-> None,
        warned |-> \/ GateEnabled(p, r) /\ Faults(list, EffectiveCycle(p, r), limit)
                   \/ TooManyEntries(list, limit)]

Queues(p, r) == IF Read(r, "running-config") THEN p.queues ELSE {}

\* Mutant: queue N is read as priority N.
RegenIdentity(p, r) == [q \in Priorities |-> q]
RegenMap(p, r) == IF Read(r, "qos--") THEN p.regen ELSE [q \in Priorities |-> q]

FpStatusToQbu(p, r) ==
  LET present == ReadFor(r, "fp", "fp--") \/ Queues(p, r) # {} IN
  [present |-> present,
   preemptable |-> IF ~present THEN {}
                   ELSE {q \in Priorities : RegenMap(p, r)[q] \in Queues(p, r)}]

\* trust_tag, and the regeneration map: it is put under qos/values, and over
\* NETCONF under qos/priority_regeneration.
ParseQos(p, r) ==
  IF Read(r, "qos--") THEN [trust |-> p.trust, values |-> p.regen, regen |-> None]
  ELSE [trust |-> None, values |-> None, regen |-> None]

\* _capture_ok: the switch-wide capture decides where there is one, and the
\* first of the per-interface ones where there is none.
Capture(r, key) ==
  IF r.cap[key] = "unissued" THEN r.cap[PerInterface[key]] ELSE r.cap[key]
CaptureOk(r, key) == CASE Capture(r, key) = "ok" -> TRUE
                       [] Capture(r, key) = "rejected" -> FALSE
                       [] OTHER -> None

\* Mutant: only a refusal counts against a feature.
SupportedUnlessRejected(r, key) == CaptureOk(r, key) # FALSE
Supported(r, key) == CaptureOk(r, key) = TRUE

\* _FEATURE_EVIDENCE: the command whose fate decides a feature.
Command == [bridge |-> "vlan", qbv |-> "tas", qbu |-> "fp", qci |-> "psfp", qav |-> "qos",
            lldp |-> "lldp"]

\* PTP is counted as supported also where nothing of it was read.
BuildFeatures(r, ptp) ==
  [f \in Features |-> CASE f = "ptp" -> ptp.status \in {"available-via-cli", "not-configured"}
                        [] f = "qcc" -> FALSE
                        [] OTHER -> Supported(r, Command[f])]

-----------------------------------------------------------------------------
(* The records: cli_record.build and capabilities.build                    *)

\* parse_interfaces: the rows of the table, numbered by their position.
Table(r) == InOrder(r.kept)

\* What the two PTP tables say of port i, of the rows that were understood.
Row(s, i, states, capable) ==
  [number |-> i, state |-> IF i \in states THEN s.ports[i].state ELSE None,
   asCap |-> IF i \in capable THEN s.ports[i].asCap ELSE None]

\* The switch-wide PTP table has numbers and no names, so collect asks for the
\* per-interface form of every listed interface as well.
PtpReading(s, r) ==
  LET table == Table(r)
      numbers == InOrder(r.states \cup r.capable) IN
  [table  |-> [k \in DOMAIN table |-> Interfaces[table[k]]],
   wide   |-> [k \in DOMAIN numbers |-> Row(s, numbers[k], r.states, r.capable)],
   single |-> [n \in ToSet(Interfaces) |->
                 LET i == CHOOSE j \in DOMAIN Interfaces : Interfaces[j] = n IN
                 IF i \in r.portStates \cup r.portCapable
                 THEN Row(s, i, r.portStates, r.portCapable) ELSE None],
   cfg    |-> IF Read(r, "running-config") THEN {Interfaces[i] : i \in r.kept} ELSE {},
   global |-> Read(r, "running-config"),
   own    |-> IF Read(r, "ptp-default") THEN s.own ELSE None,
   gm     |-> IF Read(r, "ptp-parent") THEN s.gm ELSE None,
   offset |-> IF Read(r, "ptp-current") THEN s.offset ELSE None,
   steps  |-> IF Read(r, "ptp-current") THEN s.steps ELSE None]

CliPort(s, r, k) ==
  LET i == Table(r)[k] IN
  [name |-> Interfaces[i], number |-> k, qbv |-> TasStatusToQbv(s.ports[i], r),
   qbu |-> FpStatusToQbu(s.ports[i], r), qos |-> ParseQos(s.ports[i], r)]

CliRecord(s, r) ==
  LET ports == [k \in DOMAIN Table(r) |-> CliPort(s, r, k)]
      ptp == PtpBuild(PtpReading(s, r)) IN
  [reachable |-> TRUE, transport |-> "cli", feats |-> BuildFeatures(r, ptp), ports |-> ports,
   ptp |-> ptp,
   warned |-> \E k \in DOMAIN ports : ports[k].qbv.warned]

\* probe: a feature is supported if one of its modules is advertised, and the
\* modules are those of the firmware's features; none of them is PTP.
MatchFeatures(s) == [f \in Features |-> f \in s.feats \ {"ptp"}]

NoPtp == [status |-> "not-exposed-via-netconf", warned |-> FALSE, ports |-> << >>,
          ieee1588 |-> << >>, ietf |-> << >>, dot1as |-> << >>, lock |-> "unknown"]
NetconfPort(s, i) ==
  [name |-> Interfaces[i], number |-> i,
   qbv |-> IF "qbv" \in s.feats THEN ExtractQbv(s.ports[i]) ELSE NoQbv,
   qbu |-> IF "qbu" \in s.feats THEN ExtractQbu(s.ports[i])
           ELSE [present |-> FALSE, preemptable |-> {}],
   qos |-> ExtractQos(s.ports[i])]

\* _common: the limits are reported once, and a difference is warned of.
LimitsDiffer(q1, q2) == q1.gclMax # q2.gclMax \/ q1.cycleMax # q2.cycleMax

\* got: did the interfaces reply arrive?
NetconfRecord(s, got) ==
  LET ports == IF got THEN [i \in DOMAIN Interfaces |-> NetconfPort(s, i)] ELSE << >> IN
  [reachable |-> TRUE, transport |-> "netconf",
   feats |-> MatchFeatures(s), ports |-> ports, ptp |-> NoPtp,
   warned |-> \E i, j \in DOMAIN ports :
                \/ ports[i].qbv.warned
                \/ ports[i].qbv.present /\ LimitsDiffer(ports[i].qbv, ports[j].qbv)]

NoRecord == [reachable |-> FALSE, transport |-> "netconf",
             feats |-> [f \in Features |-> FALSE], ports |-> << >>, ptp |-> NoPtp,
             warned |-> FALSE]
=============================================================================
