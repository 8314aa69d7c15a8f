------------------------------ MODULE Topology ------------------------------
(***************************************************************************)
(* TopologyBuilder of topology.py: from the LLDP neighbours and filtering  *)
(* databases of the switches that answered, and the device list of         *)
(* SYSTEM.md, to the nodes and links of the network and the cross-check.   *)
(*                                                                         *)
(* The model knows the real cables, so that the result can be compared     *)
(* with the truth.  Each cable end at a switch may be reported or not, with*)
(* more or fewer of the identities the far end has; the entries are taken  *)
(* in any order.                                                           *)
(***************************************************************************)
EXTENDS Naturals, Sequences, FiniteSetsExt

CONSTANTS
  Cables,       \* set of {<<device, port>>, <<device, port>>}
  Listed,       \* the devices of SYSTEM.md, in its order
  Endpoints,    \* those of them that are no switches
  Mac,          \* [device -> the address it announces (chassis, bridge, NIC)]
  ListedMac,    \* [listed device -> its address in SYSTEM.md]
  Oui,          \* [address -> its first three octets]
  Host,         \* [device -> its system name]
  PortId,       \* [port -> what stands in for its description]
  Paths,        \* <<switch, port, endpoint>>: frames of endpoint arrive at port
  Unanswering,  \* switches that may give no record of themselves
  Forms,        \* what an LLDP entry says: sets of "mac", "name", "ip", "desc"
  Copies        \* how many entries (remote-index) there may be for one cable end

Known    == {Listed[k] : k \in DOMAIN Listed}
Switches == Known \ Endpoints
AllEnds  == UNION Cables
Ends     == {e \in AllEnds : e[1] \in Switches}       \* cable ends at switches
FarEnd   == [e \in AllEnds |-> CHOOSE f \in AllEnds : {e, f} \in Cables /\ e # f]
Far(e)   == FarEnd[e]
Devices  == {e[1] : e \in AllEnds}

ASSUME TopologyAssumption ==
  /\ \A c \in Cables : \E e, f \in c : e # f /\ c = {e, f}
  /\ \A e \in AllEnds : e = <<e[1], e[2]>>
  /\ \A c, d \in Cables : c # d => c \cap d = {}
  /\ Listed \in Seq(DOMAIN ListedMac)
  /\ Endpoints \subseteq Known /\ Unanswering \subseteq Switches
  /\ Known \cup Devices \subseteq DOMAIN Mac \cap DOMAIN Host
  /\ Paths \subseteq {<<e[1], e[2], d>> : e \in Ends, d \in Endpoints}
  /\ Copies \in Nat \ {0}
  \* a neighbour gives its chassis or its name
  /\ \A says \in Forms : says \cap {"mac", "name"} # {}
  \* addresses and names, those announced and those listed, identify one device
  /\ \A d, e \in DOMAIN Mac : Mac[d] = Mac[e] => d = e
  /\ \A d \in Known, e \in DOMAIN Mac : ListedMac[d] = Mac[e] => d = e
  /\ \A d, e \in DOMAIN Host : Host[d] = Host[e] => d = e
  /\ \A d \in Known, e \in DOMAIN Host : Host[e] = d => d = e
  /\ \A d \in DOMAIN Mac : Mac[d] \notin Known
  \* nor does the id of a port name another port of its device
  /\ \A e, f \in AllEnds : e[1] = f[1] /\ PortId[e[2]] = f[2] => e = f

VARIABLES
  answered,     \* switches with a record
  heard,        \* LLDP entries: [at : cable end, says : a form, index]
  learned,      \* filtering entries: <<switch, port, device whose address it is>>
  phase,        \* "lldp", "fdb" or "done"
  todo,         \* entries of the phase not yet taken
  found,        \* nodes with n.discovered
  links,        \* [{end, end} -> [method, confirmed, how]]
  unresolved,   \* LLDP entries that matched no device
  noted         \* filtering entries on a port LLDP has claimed

vars == <<answered, heard, learned, phase, todo, found, links, unresolved, noted>>
inputs == <<answered, heard, learned>>

Init ==
  /\ \E gone \in SUBSET Unanswering : answered = Switches \ gone
  /\ \E reported \in SUBSET {e \in Ends : e[1] \in answered} :
     \E says \in [reported -> Forms], copies \in [reported -> 1 .. Copies] :
       heard = UNION {{[at |-> e, says |-> says[e], index |-> k] :
                        k \in 1 .. copies[e]} : e \in reported}
  /\ learned \in SUBSET {p \in Paths : p[1] \in answered}
  /\ phase = "lldp" /\ todo = heard
  /\ found = answered         \* seed_from_discovery; SYSTEM.md marks no node
  /\ links = << >> /\ unresolved = {} /\ noted = {}

-----------------------------------------------------------------------------
(* Who is at the far end of an LLDP entry                                  *)

ByOui(mac) ==
  LET same == {k \in DOMAIN Listed : Oui[ListedMac[Listed[k]]] = Oui[mac]}
  IN  IF same = {} THEN {} ELSE {Listed[Min(same)]}

\* resolve_remote: the ways to match a device d that says so much, by rank.
Matches(d, says) ==
  << {n \in answered : "mac"  \in says /\ Mac[n] = Mac[d]},
     {n \in Known    : "mac"  \in says /\ ListedMac[n] = Mac[d]},
     {n \in answered : "name" \in says /\ Host[n] = Host[d]},
     {n \in Known    : "name" \in says /\ n = Host[d]},
     {n \in Known    : "ip"   \in says /\ n = d},
     IF "mac" \in says THEN ByOui(Mac[d]) ELSE {} >>
Weak == 6
Ranks(d, says) == {k \in 1 .. Weak : Matches(d, says)[k] # {}}

AllStrong(rank) == "strong"      \* mutant: the vendor prefix is as good as a name
How(rank) == IF rank = Weak THEN "weak" ELSE "strong"

ResolveRemote(d, says) ==
  IF Ranks(d, says) = {}
    THEN [node |-> IF "name" \in says THEN Host[d] ELSE Mac[d], how |-> "unresolved"]
    ELSE LET k == Min(Ranks(d, says)) IN
         [node |-> CHOOSE n \in Matches(d, says)[k] : TRUE, how |-> How(k)]

Remote(h) == ResolveRemote(Far(h.at)[1], h.says)
PortIdOnly(h) == PortId[Far(h.at)[2]]       \* mutant: port_desc is ignored
RemotePort(h) == IF "desc" \in h.says THEN Far(h.at)[2] ELSE PortId[Far(h.at)[2]]

\* The two ends, in no order.
LinkOf(h) == {h.at, <<Remote(h).node, RemotePort(h)>>}

-----------------------------------------------------------------------------
(* add_lldp_links                                                          *)

Put(l, rec) == [k \in DOMAIN links \cup {l} |-> IF k = l THEN rec ELSE links[k]]

FirstSeen(h) == [method |-> "lldp", confirmed |-> FALSE, how |-> Remote(h).how]
MergeNothing(h) == Put(LinkOf(h), FirstSeen(h))     \* mutant: no merge
Merge(h) ==
  LET l == LinkOf(h) IN
  Put(l, IF l \in DOMAIN links THEN [links[l] EXCEPT !.confirmed = TRUE]
                               ELSE FirstSeen(h))

KnownOnly(h) == found \cup ({Remote(h).node} \cap Known)   \* mutant
FoundWith(h) == found \cup {Remote(h).node}

Unmatched(h) == IF Remote(h).how = "unresolved" THEN unresolved \cup {h} ELSE unresolved

AddLldpLink(h) ==
  /\ phase = "lldp" /\ h \in todo
  /\ todo' = todo \ {h}
  /\ found' = FoundWith(h) /\ unresolved' = Unmatched(h)
  /\ links' = Merge(h)
  /\ UNCHANGED <<inputs, phase, noted>>

LldpDone ==
  /\ phase = "lldp" /\ todo = {}
  /\ phase' = "fdb" /\ todo' = learned
  /\ UNCHANGED <<inputs, found, links, unresolved, noted>>

-----------------------------------------------------------------------------
(* add_fdb_attachments                                                     *)

LldpLinks == {l \in DOMAIN links : links[l].method = "lldp"}
ClaimedHere(e) ==                   \* mutant: only what the switch itself reports
  \E h \in heard : h.at = e /\ LinkOf(h) \in LldpLinks
ClaimedSwitch(e) ==                 \* mutant: by switch instead of by port
  \E l \in LldpLinks : \E f \in l : f[1] = e[1]
Claimed(e) == \E l \in LldpLinks : e \in l
Attachment(e, d) == {e, <<d, "">>}

Paired(e, d) == \E l \in LldpLinks : e \in l /\ \E f \in l \ {e} : f[1] = d

\* by_mac: the device of SYSTEM.md that has the address of d.
ByMac(d) == {n \in Known : ListedMac[n] = Mac[d]}

AddFdbAttachment(p) ==
  LET e == <<p[1], p[2]>> IN
  /\ phase = "fdb" /\ p \in todo
  /\ todo' = todo \ {p}
  /\ \/ /\ ByMac(p[3]) \cap Endpoints = {}
        /\ UNCHANGED <<found, links, noted>>
     \/ \E d \in ByMac(p[3]) \cap Endpoints :
          \/ /\ Paired(e, d)
             /\ UNCHANGED <<found, links, noted>>
          \/ /\ ~Paired(e, d) /\ Claimed(e)
             /\ noted' = noted \cup {<<p[1], p[2], d>>}
             /\ UNCHANGED <<found, links>>
          \/ /\ ~Paired(e, d) /\ ~Claimed(e)
             /\ found' = found \cup {d}
             /\ links' = Put(Attachment(e, d),
                             [method |-> "fdb", confirmed |-> FALSE, how |-> "strong"])
             /\ noted' = noted
  /\ UNCHANGED <<inputs, phase, unresolved>>

FdbDone ==
  /\ phase = "fdb" /\ todo = {}
  /\ phase' = "done"
  /\ UNCHANGED <<inputs, todo, found, links, unresolved, noted>>

Next == \/ \E h \in heard : AddLldpLink(h)
        \/ \E p \in learned : AddFdbAttachment(p)
        \/ LldpDone \/ FdbDone

Spec == Init /\ [][Next]_vars

-----------------------------------------------------------------------------
(* crosscheck and silent_link_up_ports, of the finished topology           *)

Missing     == Switches \ found
Extra       == found \ Known
Unreachable == Switches \ answered
SwitchesOnly == Unreachable = {} /\ Missing = {}               \* mutant
Agreement   == Unreachable = {} /\ Missing = {} /\ Extra = {} /\ unresolved = {}

AttachedAtA == {e \in Ends : \E h \in heard : h.at = e}       \* mutant
Attached    == {e \in Ends : \E l \in DOMAIN links : e \in l}
SilentLinkUpPorts == {e \in Ends : e[1] \in answered} \ Attached

-----------------------------------------------------------------------------
(* Properties                                                              *)

Link == [method : {"lldp", "fdb"}, confirmed : BOOLEAN, how : {"strong", "weak", "unresolved"}]

TypeOK ==
  /\ answered \subseteq Switches /\ phase \in {"lldp", "fdb", "done"}
  /\ \A h \in heard : h.at \in Ends /\ h.says \in Forms /\ h.index \in 1 .. Copies
  /\ learned \subseteq Paths
  /\ todo \subseteq IF phase = "lldp" THEN heard ELSE learned
  /\ unresolved \subseteq heard
  /\ \A l \in DOMAIN links : links[l] \in Link /\ \A e \in l : e[1] \in found
  /\ \A p \in noted : p \in Paths

Reported(e) == \E h \in heard : h.at = e

\* Both switches of a cable report it with the port's own name and are told
\* apart by more than the vendor prefix: it becomes one link, confirmed, though
\* its two entries come from different switches ("A link seen from both ends").
Well(h) == "desc" \in h.says /\ Remote(h).how = "strong"
BothEndsConfirmed ==
  phase = "done" =>
    \A h, g \in heard : g.at = Far(h.at) /\ Well(h) /\ Well(g) =>
      /\ {h.at, g.at} \in DOMAIN links
      /\ links[{h.at, g.at}].confirmed

\* Every link LLDP yields is a cable, between the right devices, unless it is
\* marked as resolved by the vendor prefix: SYSTEM.md "never creates a link".
LinksAreCables ==
  \A l \in LldpLinks : links[l].how # "weak" =>
    \E e \in l : \E f \in l \ {e} :
      /\ e \in Ends
      /\ f[1] \in {Far(e)[1], Host[Far(e)[1]], Mac[Far(e)[1]]}
      /\ f[2] \in {Far(e)[2], PortId[Far(e)[2]]}

\* An endpoint is attached to a port between two switches only where neither of
\* them told of the other in a way that names that port: "a MAC learned on a
\* trunk port arrived through the trunk".
TrunkNotAttached ==
  \A l \in DOMAIN links : links[l].method = "fdb" =>
    \A e \in l \cap Ends : Far(e)[1] \in Switches =>
      /\ ~Reported(e)
      /\ ~\E h \in heard : h.at = Far(e) /\ Well(h)

\* SYSTEM.md lists the endpoint of a filtering entry with the address it has.
Recognised(p) == ListedMac[p[3]] = Mac[p[3]]

\* An endpoint learned on the port it is plugged into is linked to that port,
\* unless a link by vendor prefix has taken the port for itself, or a link to
\* the endpoint itself, reported by a name that SYSTEM.md does not list.
EndpointShown ==
  phase = "done" =>
    \A p \in learned : Recognised(p) /\ Far(<<p[1], p[2]>>)[1] = p[3] =>
      \E l \in DOMAIN links :
        /\ <<p[1], p[2]>> \in l
        /\ \/ \E f \in l : f[1] = p[3]
           \/ links[l].how = "weak"
           \/ links[l].how = "unresolved" /\ Host[p[3]] # p[3]

\* No LLDP entry tells of the port of a filtering entry.
Unclaimed(p) == \A h \in heard : <<p[1], p[2]>> \notin LinkOf(h)

\* The result does not depend on the order in which the switches and their
\* entries are taken: it is what the entries say as a set.
OrderFree ==
  phase = "done" =>
    /\ LldpLinks = {LinkOf(h) : h \in heard}
    /\ \A l \in LldpLinks :
         links[l].confirmed <=> \E h, g \in heard : h # g /\ LinkOf(h) = l /\ LinkOf(g) = l
    /\ found = answered \cup {Remote(h).node : h \in heard}
                 \cup {p[3] : p \in {q \in learned : Recognised(q) /\ Unclaimed(q)}}

\* When the topology agrees with SYSTEM.md, every device that was reported is
\* listed there, or a link marked as weak betrays it.
AgreementTold ==
  phase = "done" /\ Agreement =>
    \A h \in heard : Far(h.at)[1] \in Known \/ Remote(h).how = "weak"

\* A port reported as silent is one of which nobody said anything: no entry and
\* no listed address at the port, and no entry at the other switch.
SilentMeansUnheard ==
  phase = "done" =>
    \A e \in SilentLinkUpPorts :
      /\ ~Reported(e)
      /\ \A p \in learned : Recognised(p) => <<p[1], p[2]>> # e
      /\ ~\E h \in heard : h.at = Far(e) /\ Well(h)

-----------------------------------------------------------------------------
(* What the code's documentation says, and the code does not do            *)

\* A link is confirmed only if it was seen from both ends (topology.py, "A link
\* seen from both ends is marked confirmed").
ConfirmedFromBothEnds ==
  \A l \in DOMAIN links : links[l].confirmed => \A e \in l : Reported(e)
=============================================================================
