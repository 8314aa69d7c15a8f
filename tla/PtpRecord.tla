----------------------------- MODULE PtpRecord ------------------------------
(***************************************************************************)
(* The PTP part of a switch's record (tsn_discovery/ptp.py): what the show *)
(* ptp commands and the running-config say is observed once, joined to the *)
(* interfaces by a port number that is only a position in the interface    *)
(* table, projected into three YANG models, and judged.                    *)
(*                                                                         *)
(* A reading rd has the fields                                             *)
(*   table   the interface names in the order of show interface * status   *)
(*   wide    rows of show ptp 0 port-state, << >> if none was read         *)
(*   single  [interface -> row or None], the per-interface form            *)
(*   cfg     the interfaces with ptp lines in the running-config           *)
(*   global  whether the running-config has a ptp 0 mode line              *)
(*   own, gm clock identity of the switch and of its grandmaster, or None  *)
(*   offset, steps  of show ptp 0 current, or None                         *)
(* and a row is [number, state, asCap]: what the PTP table and the 802.1AS *)
(* table say of one port, merged by its number; either may not list it.    *)
(***************************************************************************)
EXTENDS Integers, SequencesExt, Ordered

CONSTANTS None,        \* what was not read
          Threshold    \* lock_assessment's threshold_ns

States == {"master", "slave", "listening", "disabled"}
Abs(n) == IF n < 0 THEN -n ELSE n

\* None is no value a reading can have, and no state in any of the YANG models.
ASSUME NoneAssumption ==
  /\ None \notin Int /\ None \notin BOOLEAN /\ None \notin STRING
  /\ None \notin States \cup {"time-transmitter", "time-receiver"}
  /\ None \notin [number : Nat, state : States \cup {None}, asCap : BOOLEAN \cup {None}]

-----------------------------------------------------------------------------
(* _observe                                                                *)

\* Mutant: a port beyond the table is taken for its last one.
ByNumberOrLast(rd, n) ==
  IF rd.table = << >> THEN None
  ELSE rd.table[IF n \in DOMAIN rd.table THEN n ELSE Len(rd.table)]

\* The bridge port number of an interface is its position in the table.
ByNumber(rd, n) == IF n \in DOMAIN rd.table THEN rd.table[n] ELSE None

\* One row of a port-state table; given is the interface it was asked for.
Joined(rd, row, given) ==
  LET at == ByNumber(rd, row.number) IN
  [number |-> row.number, iface |-> IF given # None THEN given ELSE at,
   state |-> row.state, asCap |-> row.asCap,
   configured |-> at # None /\ at \in rd.cfg]

\* The switch-wide rows first, then those of each interface.
RowsRead(rd) ==
  LET asked == InOrder({n \in DOMAIN rd.table : rd.single[rd.table[n]] # None})
      given(k) == rd.table[asked[k]] IN
  [k \in DOMAIN rd.wide |-> Joined(rd, rd.wide[k], None)]
    \o [k \in DOMAIN asked |-> Joined(rd, rd.single[given(k)], given(k))]

\* A second row of the same number and interface is dropped.
FirstOnly(rows) ==
  LET first(k) == \A j \in 1 .. k - 1 :
                    <<rows[j].number, rows[j].iface>> # <<rows[k].number, rows[k].iface>>
      at == InOrder({k \in DOMAIN rows : first(k)})
  IN  [k \in DOMAIN at |-> rows[at[k]]]

\* Numbers in the PTP tables that the interface table does not account for.
Unmatched(rd) == {n \in {r.number : r \in ToSet(RowsRead(rd))} :
                    \E r \in ToSet(RowsRead(rd)) : r.number = n /\ r.iface = None}

\* Interfaces with a configuration and no state are ports as well.
ConfiguredOnly(rd, rows) ==
  LET at == InOrder({n \in DOMAIN rd.table :
                       rd.table[n] \in rd.cfg /\ n \notin {r.number : r \in ToSet(rows)}})
  IN  [k \in DOMAIN at |-> [number |-> at[k], iface |-> rd.table[at[k]],
                            state |-> None, asCap |-> None, configured |-> TRUE]]

ObservedPorts(rd) == LET rows == FirstOnly(RowsRead(rd)) IN rows \o ConfiguredOnly(rd, rows)

-----------------------------------------------------------------------------
(* Projections: one entry per observed port in each model; the data sets   *)
(* of the clock are renamed unchanged and left out                         *)

ProjectIetfPtp(obs) ==
  [k \in DOMAIN obs |-> [iface |-> obs[k].iface, number |-> obs[k].number,
                         state |-> obs[k].state]]

\* PORT_STATE_2019: the roles have new names, other states keep theirs.
Renamed2019(state) ==
  CASE state = "master" -> "time-transmitter"
    [] state = "slave"  -> "time-receiver"
    [] OTHER            -> state

ProjectIeee1588(obs) ==
  [k \in DOMAIN obs |-> [iface |-> obs[k].iface, number |-> obs[k].number,
                         state |-> Renamed2019(obs[k].state)]]

ProjectDot1as(obs) ==
  [k \in DOMAIN obs |-> [iface |-> obs[k].iface, number |-> obs[k].number,
                         asCapable |-> obs[k].asCap]]

-----------------------------------------------------------------------------
(* build, _is_grandmaster and lock_assessment                              *)

\* The key of a port in the summary: its interface, or else its number.
Key(p) == IF p.iface # None THEN <<p.iface, 0>> ELSE <<None, p.number>>

\* The entries are sorted by number, and the last one of a key stands.
Latest(obs, ks) ==
  {k \in ks : \A j \in ks : Key(obs[j]) = Key(obs[k]) =>
                \/ obs[j].number < obs[k].number
                \/ obs[j].number = obs[k].number /\ j <= k}

PortStates(obs) ==
  LET ks == Latest(obs, {k \in DOMAIN obs : obs[k].state # None}) IN
  [x \in {Key(obs[k]) : k \in ks} |-> obs[CHOOSE k \in ks : Key(obs[k]) = x].state]

\* Mutant: the 802.1AS table is kept by port number.
AsCapableByNumber(obs) ==
  LET ks == {k \in DOMAIN obs : obs[k].asCap # None} IN
  [x \in {<<None, obs[k].number>> : k \in ks} |->
     obs[CHOOSE k \in ks : <<None, obs[k].number>> = x].asCap]

AsCapable(obs) ==
  LET ks == Latest(obs, {k \in DOMAIN obs : obs[k].asCap # None}) IN
  [x \in {Key(obs[k]) : k \in ks} |-> obs[CHOOSE k \in ks : Key(obs[k]) = x].asCap]

\* Mutant: two identities that were not read are the same identity.
SameIdentity(rd) == rd.own = rd.gm

\* By identity; by the steps removed where an identity is missing.
IsGrandmaster(rd) ==
  IF rd.own = None \/ rd.gm = None THEN rd.steps = 0 ELSE rd.own = rd.gm

NotConfigured(rd) ==
  /\ ~rd.global /\ rd.own = None /\ rd.gm = None
  /\ rd.offset = None /\ rd.steps = None /\ ObservedPorts(rd) = << >>

\* The ports the switch synchronises through.
SyncPorts(obs) == {x \in DOMAIN PortStates(obs) :
                     PortStates(obs)[x] \in {"slave", "time-receiver"}}
Incapable(obs) == {x \in DOMAIN AsCapable(obs) : AsCapable(obs)[x] = FALSE}

LockAssessment(rd) ==
  LET obs == ObservedPorts(rd)
      states == {PortStates(obs)[x] : x \in DOMAIN PortStates(obs)} IN
  IF NotConfigured(rd) \/ (rd.offset = None /\ states = {}) THEN "unknown"
  ELSE IF IsGrandmaster(rd) THEN "grandmaster"
  ELSE IF states # {} /\ states \subseteq {"disabled", "initializing", "faulty"}
       THEN "not-synchronised"
  ELSE IF rd.offset # None /\ Abs(rd.offset) > Threshold THEN "out-of-tolerance"
  ELSE IF SyncPorts(obs) \cap Incapable(obs) # {} THEN "inconsistent"
  ELSE IF rd.offset = None THEN "running" ELSE "locked"

SafeToSchedule(verdict) == verdict \in {"grandmaster", "locked"}

PtpBuild(rd) ==
  LET obs == ObservedPorts(rd) IN
  [status   |-> IF NotConfigured(rd) THEN "not-configured" ELSE "available-via-cli",
   warned   |-> ~NotConfigured(rd) /\ Unmatched(rd) # {},
   ports    |-> obs,
   ieee1588 |-> ProjectIeee1588(obs), ietf |-> ProjectIetfPtp(obs),
   dot1as   |-> ProjectDot1as(obs),
   lock     |-> LockAssessment(rd)]
=============================================================================
