--------------------------- MODULE TopologyProofs ---------------------------
(***************************************************************************)
(* Theorems about Topology, for every network, device list, choice of      *)
(* reported identities and learned addresses that TopologyAssumption       *)
(* allows, and every order of the entries.                                 *)
(***************************************************************************)
EXTENDS Topology, WellFoundedInduction, TLAPS

-----------------------------------------------------------------------------
(* The cables.                                                             *)

\* A cable end has one other end, of which it is the other end.
LEMMA FarEnds ==
  ASSUME NEW e \in AllEnds
  PROVE  /\ Far(e) \in AllEnds /\ Far(e) # e /\ Far(Far(e)) = e
         /\ e = <<e[1], e[2]>>
         /\ e[1] \in DOMAIN Mac /\ e[1] \in DOMAIN Host
<1>1. ASSUME NEW x \in AllEnds
      PROVE  Far(x) \in AllEnds /\ {x, Far(x)} \in Cables /\ x # Far(x)
  <2>1. PICK c \in Cables : x \in c
    BY DEF AllEnds
  <2>2. PICK f \in c : f # x /\ c = {x, f}
    BY <2>1, TopologyAssumption
  <2>3. f \in AllEnds /\ {x, f} \in Cables
    BY <2>2 DEF AllEnds
  <2> QED
    BY <2>2, <2>3 DEF Far, FarEnd
<1>2. Far(Far(e)) = e
  <2>1. {e, Far(e)} \in Cables /\ {Far(e), Far(Far(e))} \in Cables
        /\ Far(e) # Far(Far(e))
    BY <1>1
  <2>2. {e, Far(e)} = {Far(e), Far(Far(e))}
    <3>1. {e, Far(e)} \cap {Far(e), Far(Far(e))} # {}
      OBVIOUS
    <3> QED
      BY <2>1, <3>1, TopologyAssumption
  <2> QED
    BY <2>1, <2>2
<1>3. e[1] \in Devices
  BY DEF Devices
<1>4. e = <<e[1], e[2]>> /\ e[1] \in DOMAIN Mac /\ e[1] \in DOMAIN Host
  BY <1>3, TopologyAssumption
<1> QED
  BY <1>1, <1>2, <1>4

-----------------------------------------------------------------------------
(* Who an LLDP entry is taken for.                                         *)

\* A set of numbers has a least one.
LEMMA Least ==
  ASSUME NEW S, S \subseteq Nat, S # {}
  PROVE  Min(S) \in S /\ \A y \in S : Min(S) <= y
<1> DEFINE Smaller == OpToRel(<, Nat)
<1>1. Smaller = {ss \in Nat \X Nat : ss[1] < ss[2]}
  BY Zenon DEF OpToRel
<1>2. \A x \in S : \A y \in S : <<y, x>> \in Smaller <=> y < x
  BY <1>1
<1>3. IsWellFoundedOn(Smaller, Nat)
  BY NatLessThanWellFounded, Zenon
<1> HIDE DEF Smaller
<1>4. \E x \in S : \A y \in S : ~(<<y, x>> \in Smaller)
  BY <1>3, WFMin
<1>5. PICK x \in S : \A y \in S : ~(y < x)
  BY <1>2, <1>4
<1>6. \A y \in S : x <= y
  BY <1>5
<1> QED
  BY <1>6 DEF Min

\* The vendor prefix leads to listed devices only.
LEMMA OuiIsListed == \A mac : ByOui(mac) \subseteq Known
<1> SUFFICES ASSUME NEW mac PROVE ByOui(mac) \subseteq Known
  OBVIOUS
<1> DEFINE same == {k \in DOMAIN Listed : Oui[ListedMac[Listed[k]]] = Oui[mac]}
<1>1. CASE same = {}
  BY <1>1 DEF ByOui
<1>2. CASE same # {}
  <2>1. same \subseteq Nat
    BY TopologyAssumption
  <2>2. Min(same) \in same
    BY <1>2, <2>1, Least
  <2> QED
    BY <1>2, <2>2 DEF ByOui, Known
<1> QED
  BY <1>1, <1>2

\* A match by address, name or management address is the device itself, and one
\* by vendor prefix a listed device.
LEMMA MatchIsDevice ==
  ASSUME NEW d \in DOMAIN Mac \cap DOMAIN Host, NEW says,
         answered \subseteq Known, NEW k \in 1 .. Weak
  PROVE  Matches(d, says)[k] \subseteq (IF k = Weak THEN Known ELSE {d})
<1>1. Matches(d, says)[1] \subseteq {d}
  BY TopologyAssumption DEF Matches
<1>2. Matches(d, says)[2] \subseteq {d}
  BY TopologyAssumption DEF Matches
<1>3. Matches(d, says)[3] \subseteq {d}
  BY TopologyAssumption DEF Matches
<1>4. Matches(d, says)[4] \subseteq {d}
  BY TopologyAssumption DEF Matches
<1>5. Matches(d, says)[5] \subseteq {d}
  BY DEF Matches
<1>6. Matches(d, says)[6] \subseteq Known
  BY OuiIsListed DEF Matches
<1> QED
  BY <1>1, <1>2, <1>3, <1>4, <1>5, <1>6 DEF Weak

\* A strong resolution is the device at the far end, a weak one a listed device,
\* and none bears the announced name or address, which no listed device has.
LEMMA Resolved ==
  ASSUME NEW d \in DOMAIN Mac \cap DOMAIN Host, NEW says \in Forms,
         answered \subseteq Known
  PROVE  LET r == ResolveRemote(d, says) IN
         /\ r.how \in {"strong", "weak", "unresolved"}
         /\ r.how = "strong" => r.node = d
         /\ r.how = "weak" => r.node \in Known
         /\ r.how = "unresolved" => /\ r.node \notin Known
                                    /\ r.node \in {Host[d], Mac[d]}
                                    /\ Ranks(d, says) = {}
<1> DEFINE r == ResolveRemote(d, says)
<1>1. CASE Ranks(d, says) = {}
  <2>1. r.how = "unresolved" /\ r.node = IF "name" \in says THEN Host[d] ELSE Mac[d]
    BY <1>1 DEF ResolveRemote
  <2>2. Mac[d] \notin Known
    BY TopologyAssumption
  <2>3. ASSUME "name" \in says PROVE Host[d] \notin Known
    <3>1. Matches(d, says)[4] = {}
      BY <1>1 DEF Ranks, Weak
    <3>2. Matches(d, says)[4] = {n \in Known : n = Host[d]}
      BY <2>3 DEF Matches
    <3> QED
      BY <3>1, <3>2
  <2> QED
    BY <1>1, <2>1, <2>2, <2>3
<1>2. CASE Ranks(d, says) # {}
  <2> DEFINE k == Min(Ranks(d, says))
  <2>1. k \in Ranks(d, says)
    <3>1. Ranks(d, says) \subseteq Nat
      BY DEF Ranks, Weak
    <3> QED
      BY <1>2, <3>1, Least
  <2>2. k \in 1 .. Weak /\ Matches(d, says)[k] # {}
    BY <2>1 DEF Ranks
  <2>3. r = [node |-> CHOOSE n \in Matches(d, says)[k] : TRUE, how |-> How(k)]
    BY <1>2 DEF ResolveRemote
  <2>4. r.node \in Matches(d, says)[k] /\ r.how = How(k)
    BY <2>2, <2>3
  <2>5. Matches(d, says)[k] \subseteq (IF k = Weak THEN Known ELSE {d})
    BY <2>2, MatchIsDevice
  <2>6. r.how \in {"strong", "weak"} /\ (r.how = "weak" <=> k = Weak)
    BY <2>4 DEF How
  <2> QED
    BY <2>4, <2>5, <2>6
<1> QED
  BY <1>1, <1>2

-----------------------------------------------------------------------------
(* The inductive invariant: at every moment the links, the nodes found and *)
(* the unresolved entries are those of the entries taken so far, as a set. *)

Records == [method : {"lldp", "fdb"}, confirmed : BOOLEAN,
            how : {"strong", "weak", "unresolved"}]

\* What is given: the answers do not change while they are taken.
InputInv ==
  /\ answered \subseteq Switches
  /\ \A h \in heard : h.at \in Ends /\ h.at[1] \in answered
                      /\ h.says \in Forms /\ h.index \in 1 .. Copies
  /\ learned \subseteq Paths /\ \A p \in learned : p[1] \in answered

\* The entries taken so far.
TakenLldp == IF phase = "lldp" THEN heard \ todo ELSE heard
TakenFdb  == IF phase = "lldp" THEN {} ELSE learned \ todo

PhaseInv ==
  /\ phase \in {"lldp", "fdb", "done"}
  /\ phase = "lldp" => todo \subseteq heard
  /\ phase = "fdb"  => todo \subseteq learned
  /\ phase = "done" => todo = {}

AttachedTo(p) == Attachment(<<p[1], p[2]>>, p[3])
Attaching(p)  == Recognised(p) /\ Unclaimed(p)

LinkInv ==
  /\ LldpLinks = {LinkOf(h) : h \in TakenLldp}
  /\ \A l \in DOMAIN links : links[l] \in Records

ConfirmInv ==
  \A l \in LldpLinks :
    links[l].confirmed <=>
      \E h, g \in TakenLldp : h # g /\ LinkOf(h) = l /\ LinkOf(g) = l

HowInv ==
  \A l \in LldpLinks :
    \E h \in TakenLldp : LinkOf(h) = l /\ links[l].how = Remote(h).how

\* The attachments are those of the unclaimed ports.
FdbInv ==
  /\ \A l \in DOMAIN links : links[l].method = "fdb" =>
       \E p \in TakenFdb : Attaching(p) /\ l = AttachedTo(p)
  /\ \A p \in TakenFdb : Attaching(p) => AttachedTo(p) \in DOMAIN links

NodeInv ==
  /\ unresolved = {h \in TakenLldp : Remote(h).how = "unresolved"}
  /\ found = answered \cup {Remote(h).node : h \in TakenLldp}
                      \cup {p[3] : p \in {q \in TakenFdb : Attaching(q)}}
  /\ noted \subseteq Paths

TopologyInv ==
  /\ InputInv /\ PhaseInv /\ LinkInv /\ ConfirmInv
  /\ HowInv /\ FdbInv /\ NodeInv

-----------------------------------------------------------------------------
(* The entries.                                                            *)

LEMMA KnownAnswered == InputInv => answered \subseteq Known
BY DEF InputInv, Switches

\* An entry is at a switch, and its link has that cable end and another.
LEMMA EntryLink ==
  ASSUME InputInv, NEW h \in heard
  PROVE  LET e == h.at   d == Far(h.at) IN
         /\ e \in Ends /\ e \in AllEnds /\ e[1] \in Switches /\ e \in LinkOf(h)
         /\ d \in AllEnds /\ d[1] \in DOMAIN Mac \cap DOMAIN Host
         /\ Remote(h).how \in {"strong", "weak", "unresolved"}
         /\ Remote(h).how = "strong" => Remote(h).node = d[1]
         /\ Remote(h).how = "weak" => Remote(h).node \in Known
         /\ Remote(h).how = "unresolved" =>
              /\ Remote(h).node \notin Known
              /\ Remote(h).node \in {Host[d[1]], Mac[d[1]]}
              /\ Ranks(d[1], h.says) = {}
         /\ RemotePort(h) \in {d[2], PortId[d[2]]}
<1>1. h.at \in Ends /\ h.at \in AllEnds /\ h.at[1] \in Switches /\ h.says \in Forms
  BY DEF InputInv, Ends
<1>2. Far(h.at) \in AllEnds
  BY <1>1, FarEnds
<1>3. Far(h.at)[1] \in DOMAIN Mac \cap DOMAIN Host
  BY <1>2, FarEnds
<1>4. answered \subseteq Known
  BY KnownAnswered
<1>5. h.at \in LinkOf(h) /\ RemotePort(h) \in {Far(h.at)[2], PortId[Far(h.at)[2]]}
  BY DEF LinkOf, RemotePort
<1> HIDE DEF Far
<1> QED
  BY <1>1, <1>2, <1>3, <1>4, <1>5, Resolved DEF Remote

\* A well described entry names both ends of the cable.
LEMMA WellLink ==
  ASSUME InputInv, NEW h \in heard, Well(h)
  PROVE  LinkOf(h) = {h.at, Far(h.at)}
<1>1. Remote(h).node = Far(h.at)[1]
  BY EntryLink DEF Well
<1>2. RemotePort(h) = Far(h.at)[2]
  BY DEF Well, RemotePort
<1>3. Far(h.at) = <<Far(h.at)[1], Far(h.at)[2]>>
  BY EntryLink, FarEnds
<1> QED
  BY <1>1, <1>2, <1>3 DEF LinkOf

\* A switch port in a link is where its entry was, or is the other end of its
\* cable, unless the entry was resolved by vendor prefix.
LEMMA EndOfLink ==
  ASSUME InputInv, NEW h \in heard, NEW e \in Ends, e \in LinkOf(h),
         Remote(h).how # "weak"
  PROVE  e = h.at \/ (e = Far(h.at) /\ Remote(h).how = "strong")
<1>1. SUFFICES ASSUME e # h.at PROVE e = Far(h.at) /\ Remote(h).how = "strong"
  OBVIOUS
<1>2. e[1] = Remote(h).node /\ e[2] = RemotePort(h)
  BY <1>1 DEF LinkOf
<1>3. e[1] \in Known /\ e \in AllEnds
  BY DEF Ends, Switches
<1>4. Remote(h).how = "strong" /\ Far(h.at)[1] = e[1]
  BY <1>2, <1>3, EntryLink
<1>5. Far(h.at) \in AllEnds /\ RemotePort(h) \in {Far(h.at)[2], PortId[Far(h.at)[2]]}
  BY EntryLink
<1>6. CASE RemotePort(h) = Far(h.at)[2]
  <2>1. e = <<e[1], e[2]>> /\ Far(h.at) = <<Far(h.at)[1], Far(h.at)[2]>>
    BY <1>3, <1>5, FarEnds
  <2> QED
    BY <1>2, <1>4, <1>6, <2>1
<1>7. CASE RemotePort(h) = PortId[Far(h.at)[2]]
  BY <1>2, <1>3, <1>4, <1>5, <1>7, TopologyAssumption
<1> QED
  BY <1>4, <1>5, <1>6, <1>7

\* An entry's link has two ends, unless it was resolved by vendor prefix.
LEMMA TwoEnds ==
  ASSUME InputInv, NEW h \in heard, Remote(h).how # "weak"
  PROVE  <<Remote(h).node, RemotePort(h)>> # h.at
<1>1. SUFFICES ASSUME <<Remote(h).node, RemotePort(h)>> = h.at PROVE FALSE
  OBVIOUS
<1>2. h.at[1] = Remote(h).node /\ h.at[2] = RemotePort(h)
  BY <1>1
<1>3. h.at \in AllEnds /\ h.at[1] \in Known
  BY EntryLink DEF Switches
<1>4. Far(h.at)[1] = h.at[1]
  BY <1>2, <1>3, EntryLink
<1>5. Far(h.at) \in AllEnds /\ Far(h.at) # h.at
      /\ RemotePort(h) \in {Far(h.at)[2], PortId[Far(h.at)[2]]}
  BY <1>3, EntryLink, FarEnds
<1>6. CASE RemotePort(h) = Far(h.at)[2]
  <2>1. h.at = <<h.at[1], h.at[2]>> /\ Far(h.at) = <<Far(h.at)[1], Far(h.at)[2]>>
    BY <1>3, <1>5, FarEnds
  <2> QED
    BY <1>2, <1>4, <1>5, <1>6, <2>1
<1>7. CASE RemotePort(h) = PortId[Far(h.at)[2]]
  BY <1>2, <1>3, <1>4, <1>5, <1>7, TopologyAssumption
<1> QED
  BY <1>5, <1>6, <1>7

\* A filtering entry is of an endpoint at a switch port; by_mac finds the
\* endpoint when its address is the listed one, and nobody else ever.
LEMMA FilteringEntry ==
  ASSUME InputInv, NEW p \in learned
  PROVE  /\ <<p[1], p[2]>> \in Ends /\ p[3] \in Endpoints /\ p = <<p[1], p[2], p[3]>>
         /\ ByMac(p[3]) \cap Endpoints = IF Recognised(p) THEN {p[3]} ELSE {}
<1>1. PICK e \in Ends, d \in Endpoints : p = <<e[1], e[2], d>>
  BY TopologyAssumption DEF InputInv
<1>2. e = <<e[1], e[2]>>
  BY TopologyAssumption DEF Ends
<1>3. p[1] = e[1] /\ p[2] = e[2] /\ p[3] = d
  BY <1>1
<1>4. Endpoints \subseteq Known /\ d \in DOMAIN Mac
  BY TopologyAssumption
<1>5. \A n \in Known : ListedMac[n] = Mac[d] => n = d
  BY <1>4, TopologyAssumption
<1>6. ByMac(d) \cap Endpoints = IF ListedMac[d] = Mac[d] THEN {d} ELSE {}
  BY <1>4, <1>5 DEF ByMac
<1> QED
  BY <1>1, <1>2, <1>3, <1>6 DEF Recognised

\* A cable end is claimed in the second phase if an entry tells of it.
LEMMA ClaimedByEntry ==
  ASSUME TopologyInv, phase # "lldp", NEW p
  PROVE  Claimed(<<p[1], p[2]>>) <=> ~Unclaimed(p)
BY DEF TopologyInv, LinkInv, TakenLldp, Claimed, Unclaimed

-----------------------------------------------------------------------------
(* The invariant holds at the start and each step keeps it.                *)

LEMMA InvInit == Init => TopologyInv
<1> SUFFICES ASSUME Init PROVE TopologyInv
  OBVIOUS
<1>1. InputInv
  <2>1. answered \subseteq Switches
    BY DEF Init
  <2>2. PICK reported \in SUBSET {e \in Ends : e[1] \in answered} :
        \E says \in [reported -> Forms], copies \in [reported -> 1 .. Copies] :
          heard = UNION {{[at |-> e, says |-> says[e], index |-> k] :
                           k \in 1 .. copies[e]} : e \in reported}
    BY DEF Init
  <2>3. PICK says \in [reported -> Forms], copies \in [reported -> 1 .. Copies] :
          heard = UNION {{[at |-> e, says |-> says[e], index |-> k] :
                           k \in 1 .. copies[e]} : e \in reported}
    BY <2>2
  <2>4. ASSUME NEW h \in heard
        PROVE  h.at \in Ends /\ h.at[1] \in answered
               /\ h.says \in Forms /\ h.index \in 1 .. Copies
    <3>1. PICK e \in reported :
            h \in {[at |-> e, says |-> says[e], index |-> k] : k \in 1 .. copies[e]}
      BY <2>3, <2>4
    <3>2. PICK k \in 1 .. copies[e] : h = [at |-> e, says |-> says[e], index |-> k]
      BY <3>1
    <3>3. copies[e] \in 1 .. Copies /\ says[e] \in Forms /\ Copies \in Nat
      BY TopologyAssumption
    <3> QED
      BY <2>2, <3>2, <3>3
  <2>5. learned \subseteq Paths /\ \A p \in learned : p[1] \in answered
    BY DEF Init
  <2> QED
    BY <2>1, <2>4, <2>5 DEF InputInv
<1>2. phase = "lldp" /\ TakenLldp = {} /\ TakenFdb = {} /\ DOMAIN links = {}
  BY DEF Init, TakenLldp, TakenFdb
<1>3. PhaseInv
  BY DEF Init, PhaseInv
<1>4. LldpLinks = {} /\ LinkInv /\ ConfirmInv /\ HowInv /\ FdbInv
  BY <1>2 DEF LldpLinks, LinkInv, ConfirmInv, HowInv, FdbInv
<1>5. NodeInv
  BY <1>2 DEF Init, NodeInv
<1> QED
  BY <1>1, <1>3, <1>4, <1>5 DEF TopologyInv

\* What an entry says, and which entries attach, depends on the inputs only.
LEMMA InputsDecide ==
  ASSUME UNCHANGED inputs
  PROVE  /\ \A h : Remote(h)' = Remote(h) /\ LinkOf(h)' = LinkOf(h)
         /\ \A p : Unclaimed(p)' <=> Unclaimed(p)
         /\ \A p : Attaching(p)' <=> Attaching(p)
         /\ InputInv => InputInv'
<1>1. answered' = answered /\ heard' = heard /\ learned' = learned
  BY DEF inputs
<1>2. \A h : Remote(h)' = Remote(h)
  BY <1>1 DEF Remote, ResolveRemote, Ranks, Matches
<1>3. \A h : LinkOf(h)' = LinkOf(h)
  BY <1>2 DEF LinkOf
<1>4. \A p : Unclaimed(p)' <=> Unclaimed(p)
  BY <1>1, <1>3 DEF Unclaimed
<1>5. \A p : Attaching(p)' <=> Attaching(p)
  BY <1>4 DEF Attaching
<1> QED
  BY <1>1, <1>2, <1>3, <1>4, <1>5 DEF InputInv

\* An LLDP entry.
LEMMA LldpStep ==
  ASSUME TopologyInv, NEW h \in heard, AddLldpLink(h)
  PROVE  TopologyInv'
<1> DEFINE l == LinkOf(h)
<1>1. phase = "lldp" /\ phase' = "lldp" /\ h \in todo /\ todo \subseteq heard
      /\ todo' = todo \ {h} /\ UNCHANGED inputs /\ noted' = noted
      /\ heard' = heard /\ answered' = answered
  BY DEF AddLldpLink, TopologyInv, PhaseInv, inputs
<1>2. TakenLldp' = TakenLldp \cup {h} /\ h \notin TakenLldp
  BY <1>1 DEF TakenLldp
<1>3. TakenFdb = {} /\ TakenFdb' = {}
  BY <1>1 DEF TakenFdb
<1>4. \A g : Remote(g)' = Remote(g) /\ LinkOf(g)' = LinkOf(g)
  BY <1>1, InputsDecide
<1>5. InputInv' /\ PhaseInv'
  BY <1>1, InputsDecide DEF TopologyInv, PhaseInv
<1>6. LldpLinks = DOMAIN links /\ \A k \in DOMAIN links : links[k].method = "lldp"
  BY <1>3 DEF TopologyInv, FdbInv, LinkInv, Records, LldpLinks
<1>7. DOMAIN links = {LinkOf(g) : g \in TakenLldp}
  BY <1>6 DEF TopologyInv, LinkInv
<1>8. /\ DOMAIN links' = DOMAIN links \cup {l}
      /\ \A k \in DOMAIN links \ {l} : links'[k] = links[k]
      /\ l \notin DOMAIN links => links'[l] = FirstSeen(h)
      /\ l \in DOMAIN links => links'[l] = [links[l] EXCEPT !.confirmed = TRUE]
  BY DEF AddLldpLink, Merge, Put
<1>9. Remote(h).how \in {"strong", "weak", "unresolved"}
  BY EntryLink DEF TopologyInv
<1>10. /\ \A k \in DOMAIN links' : links'[k] \in Records /\ links'[k].method = "lldp"
       /\ l \in DOMAIN links => links'[l].how = links[l].how
                                /\ links'[l].confirmed = TRUE
       /\ l \notin DOMAIN links => links'[l].how = Remote(h).how
                                   /\ links'[l].confirmed = FALSE
  <2>1. \A k \in DOMAIN links : links[k] \in Records
    BY DEF TopologyInv, LinkInv
  <2>2. CASE l \in DOMAIN links
    <3>1. links'[l] = [links[l] EXCEPT !.confirmed = TRUE]
      BY <1>8, <2>2
    <3>2. links[l] \in Records /\ links[l].method = "lldp"
      BY <1>6, <2>1, <2>2
    <3>3. links'[l] \in Records /\ links'[l].method = "lldp"
          /\ links'[l].how = links[l].how /\ links'[l].confirmed = TRUE
      BY <3>1, <3>2 DEF Records
    <3> QED
      BY <1>6, <1>8, <2>1, <2>2, <3>3
  <2>3. CASE l \notin DOMAIN links
    <3>1. links'[l] = [method |-> "lldp", confirmed |-> FALSE, how |-> Remote(h).how]
      BY <1>8, <2>3 DEF FirstSeen
    <3>2. links'[l] \in Records /\ links'[l].method = "lldp"
          /\ links'[l].how = Remote(h).how /\ links'[l].confirmed = FALSE
      BY <1>9, <3>1 DEF Records
    <3> QED
      BY <1>6, <1>8, <2>1, <2>3, <3>2
  <2> QED
    BY <2>2, <2>3
<1>11. LldpLinks' = DOMAIN links'
  BY <1>10 DEF LldpLinks
<1>12. LinkInv'
  <2>1. DOMAIN links' = {LinkOf(g) : g \in TakenLldp}'
    BY <1>2, <1>4, <1>7, <1>8
  <2> QED
    BY <1>10, <1>11, <2>1 DEF LinkInv
<1>13. ConfirmInv'
  <2>1. SUFFICES ASSUME NEW k \in DOMAIN links'
                 PROVE  links'[k].confirmed <=>
                          \E f, g \in TakenLldp \cup {h} :
                            f # g /\ LinkOf(f) = k /\ LinkOf(g) = k
    BY <1>2, <1>4, <1>11 DEF ConfirmInv
  <2>2. \A m \in DOMAIN links : links[m].confirmed <=>
          \E f, g \in TakenLldp : f # g /\ LinkOf(f) = m /\ LinkOf(g) = m
    BY <1>6 DEF TopologyInv, ConfirmInv
  <2>3. CASE k # l
    BY <1>8, <2>2, <2>3
  <2>4. CASE k = l /\ l \in DOMAIN links
    <3>1. PICK g \in TakenLldp : LinkOf(g) = l
      BY <1>7, <2>4
    <3>2. g # h
      BY <1>2
    <3> QED
      BY <1>10, <2>4, <3>1, <3>2
  <2>5. CASE k = l /\ l \notin DOMAIN links
    BY <1>7, <1>10, <2>5
  <2> QED
    BY <1>8, <2>3, <2>4, <2>5
<1>14. HowInv'
  <2>1. SUFFICES ASSUME NEW k \in DOMAIN links'
                 PROVE  \E g \in TakenLldp \cup {h} :
                          LinkOf(g) = k /\ links'[k].how = Remote(g).how
    BY <1>2, <1>4, <1>11 DEF HowInv
  <2>2. \A m \in DOMAIN links : \E g \in TakenLldp :
          LinkOf(g) = m /\ links[m].how = Remote(g).how
    BY <1>6 DEF TopologyInv, HowInv
  <2>3. CASE k \in DOMAIN links
    BY <1>8, <1>10, <2>2, <2>3
  <2>4. CASE k \notin DOMAIN links
    BY <1>8, <1>10, <2>4
  <2> QED
    BY <2>3, <2>4
<1>15. FdbInv'
  BY <1>3, <1>10 DEF FdbInv
<1>16. NodeInv'
  <2>1. unresolved' = {g \in TakenLldp : Remote(g).how = "unresolved"}'
    <3>1. unresolved' = IF Remote(h).how = "unresolved"
                        THEN unresolved \cup {h} ELSE unresolved
      BY DEF AddLldpLink, Unmatched
    <3>2. unresolved = {g \in TakenLldp : Remote(g).how = "unresolved"}
      BY DEF TopologyInv, NodeInv
    <3> QED
      BY <1>2, <1>4, <3>1, <3>2
  <2>2. found' = answered' \cup {Remote(g).node : g \in TakenLldp}'
    <3>1. found' = found \cup {Remote(h).node}
      BY DEF AddLldpLink, FoundWith
    <3>2. found = answered \cup {Remote(g).node : g \in TakenLldp}
      BY <1>3 DEF TopologyInv, NodeInv
    <3> QED
      BY <1>1, <1>2, <1>4, <3>1, <3>2
  <2>3. {p[3] : p \in {q \in TakenFdb : Attaching(q)}}' = {}
    BY <1>3
  <2>4. noted' \subseteq Paths
    BY <1>1 DEF TopologyInv, NodeInv
  <2> QED
    BY <2>1, <2>2, <2>3, <2>4 DEF NodeInv
<1> QED
  BY <1>5, <1>12, <1>13, <1>14, <1>15, <1>16 DEF TopologyInv

\* The links of LLDP stay as they are once its entries are taken.
LEMMA LldpKept ==
  ASSUME TopologyInv, UNCHANGED inputs, TakenLldp' = TakenLldp,
         LldpLinks' = LldpLinks, \A l \in LldpLinks : links'[l] = links[l],
         \A l \in DOMAIN links' : links'[l] \in Records
  PROVE  LinkInv' /\ ConfirmInv' /\ HowInv'
<1>1. \A g : Remote(g)' = Remote(g) /\ LinkOf(g)' = LinkOf(g)
  BY InputsDecide
<1>2. {LinkOf(g) : g \in TakenLldp}' = {LinkOf(g) : g \in TakenLldp}
  BY <1>1
<1>3. LinkInv'
  BY <1>2 DEF TopologyInv, LinkInv
<1>4. ConfirmInv'
  BY <1>1 DEF TopologyInv, ConfirmInv
<1>5. HowInv'
  BY <1>1 DEF TopologyInv, HowInv
<1> QED
  BY <1>3, <1>4, <1>5

\* The end of a phase, and steps that change nothing.
LEMMA PhaseStep ==
  ASSUME TopologyInv, LldpDone \/ FdbDone \/ UNCHANGED vars
  PROVE  TopologyInv'
<1>1. UNCHANGED <<inputs, found, links, unresolved, noted>>
  BY DEF LldpDone, FdbDone, vars, inputs
<1>2. PhaseInv' /\ TakenLldp' = TakenLldp /\ TakenFdb' = TakenFdb
  <2>1. PhaseInv /\ heard' = heard /\ learned' = learned
    BY <1>1 DEF TopologyInv, inputs
  <2>2. CASE LldpDone
    BY <2>1, <2>2 DEF PhaseInv, LldpDone, TakenLldp, TakenFdb
  <2>3. CASE FdbDone
    BY <2>1, <2>3 DEF PhaseInv, FdbDone, TakenLldp, TakenFdb
  <2>4. CASE UNCHANGED vars
    BY <2>1, <2>4 DEF PhaseInv, vars, TakenLldp, TakenFdb
  <2> QED
    BY <2>2, <2>3, <2>4
<1>3. \A g : Remote(g)' = Remote(g) /\ LinkOf(g)' = LinkOf(g)
  BY <1>1, InputsDecide
<1>4. \A p : Attaching(p)' <=> Attaching(p)
  BY <1>1, InputsDecide
<1>5. InputInv'
  BY <1>1, InputsDecide DEF TopologyInv
<1>6. LinkInv' /\ ConfirmInv' /\ HowInv'
  <2>1. LldpLinks' = LldpLinks
    BY <1>1 DEF LldpLinks
  <2>2. \A l \in DOMAIN links' : links'[l] \in Records
    BY <1>1 DEF TopologyInv, LinkInv
  <2> QED
    BY <1>1, <1>2, <2>1, <2>2, LldpKept
<1>7. FdbInv'
  BY <1>1, <1>2, <1>4 DEF TopologyInv, FdbInv
<1>8. NodeInv'
  <2>1. {h \in TakenLldp : Remote(h).how = "unresolved"}'
          = {h \in TakenLldp : Remote(h).how = "unresolved"}
    BY <1>2, <1>3
  <2>2. {Remote(h).node : h \in TakenLldp}' = {Remote(h).node : h \in TakenLldp}
    BY <1>2, <1>3
  <2>3. {q \in TakenFdb : Attaching(q)}' = {q \in TakenFdb : Attaching(q)}
    BY <1>2, <1>4
  <2>4. answered' = answered
    BY <1>1 DEF inputs
  <2> QED
    BY <1>1, <2>1, <2>2, <2>3, <2>4 DEF TopologyInv, NodeInv
<1> QED
  BY <1>2, <1>5, <1>6, <1>7, <1>8 DEF TopologyInv

\* What a filtering entry does: it attaches its endpoint to an unclaimed port,
\* and otherwise leaves the links alone.
LEMMA FdbEffect ==
  ASSUME TopologyInv, NEW p \in learned, AddFdbAttachment(p)
  PROVE  /\ phase = "fdb" /\ phase' = "fdb" /\ p \in todo /\ todo' = todo \ {p}
         /\ UNCHANGED <<inputs, unresolved>>
         /\ noted' \subseteq noted \cup {p}
         /\ Attaching(p) =>
              /\ found' = found \cup {p[3]}
              /\ links' = Put(AttachedTo(p),
                              [method |-> "fdb", confirmed |-> FALSE, how |-> "strong"])
         /\ ~Attaching(p) => found' = found /\ links' = links
<1> DEFINE e == <<p[1], p[2]>>
           D == ByMac(p[3]) \cap Endpoints
<1>1. phase = "fdb" /\ phase' = "fdb" /\ p \in todo /\ todo' = todo \ {p}
      /\ UNCHANGED <<inputs, unresolved>>
  BY DEF AddFdbAttachment
<1>2. D = (IF Recognised(p) THEN {p[3]} ELSE {}) /\ p = <<p[1], p[2], p[3]>>
  BY FilteringEntry DEF TopologyInv
<1>3. Claimed(e) <=> ~Unclaimed(p)
  BY <1>1, ClaimedByEntry
<1>4. \A d : Paired(e, d) => Claimed(e)
  BY DEF Paired, Claimed
<1>5. CASE D = {}
  <2>1. ~Recognised(p)
    BY <1>2, <1>5
  <2>2. UNCHANGED <<found, links, noted>>
    BY <1>5 DEF AddFdbAttachment
  <2> QED
    BY <1>1, <2>1, <2>2 DEF Attaching
<1>6. CASE D # {}
  <2>1. Recognised(p) /\ D = {p[3]}
    BY <1>2, <1>6
  <2>2. \/ /\ Paired(e, p[3])
           /\ UNCHANGED <<found, links, noted>>
        \/ /\ ~Paired(e, p[3]) /\ Claimed(e)
           /\ noted' = noted \cup {<<p[1], p[2], p[3]>>}
           /\ UNCHANGED <<found, links>>
        \/ /\ ~Paired(e, p[3]) /\ ~Claimed(e)
           /\ found' = found \cup {p[3]}
           /\ links' = Put(Attachment(e, p[3]),
                           [method |-> "fdb", confirmed |-> FALSE, how |-> "strong"])
           /\ noted' = noted
    BY <2>1 DEF AddFdbAttachment
  <2>3. Attaching(p) <=> ~Claimed(e)
    BY <1>3, <2>1 DEF Attaching
  <2> QED
    BY <1>1, <1>2, <1>4, <2>2, <2>3 DEF AttachedTo
<1> QED
  BY <1>5, <1>6

\* A filtering entry.
LEMMA FdbStep ==
  ASSUME TopologyInv, NEW p \in learned, AddFdbAttachment(p)
  PROVE  TopologyInv'
<1> DEFINE l == AttachedTo(p)
           new == [method |-> "fdb", confirmed |-> FALSE, how |-> "strong"]
<1>1. /\ phase = "fdb" /\ phase' = "fdb" /\ p \in todo /\ todo' = todo \ {p}
      /\ UNCHANGED <<inputs, unresolved>>
      /\ noted' \subseteq noted \cup {p}
      /\ Attaching(p) => found' = found \cup {p[3]} /\ links' = Put(l, new)
      /\ ~Attaching(p) => found' = found /\ links' = links
  BY FdbEffect
<1>2. heard' = heard /\ learned' = learned /\ answered' = answered
  BY <1>1 DEF inputs
<1>3. TakenLldp' = TakenLldp /\ TakenFdb' = TakenFdb \cup {p} /\ p \notin TakenFdb
  BY <1>1, <1>2 DEF TakenLldp, TakenFdb
<1>4. \A g : Remote(g)' = Remote(g) /\ LinkOf(g)' = LinkOf(g)
  BY <1>1, InputsDecide
<1>5. \A q : Attaching(q)' <=> Attaching(q)
  BY <1>1, InputsDecide
<1>6. InputInv' /\ PhaseInv'
  BY <1>1, <1>2, InputsDecide DEF TopologyInv, PhaseInv
<1>7. Attaching(p) => l \notin LldpLinks
  <2>1. SUFFICES ASSUME Attaching(p), l \in LldpLinks PROVE FALSE
    OBVIOUS
  <2>2. Claimed(<<p[1], p[2]>>)
    BY <2>1 DEF Claimed, AttachedTo, Attachment
  <2> QED
    BY <1>1, <2>1, <2>2, ClaimedByEntry DEF Attaching
<1>8. /\ LldpLinks' = LldpLinks /\ \A k \in LldpLinks : links'[k] = links[k]
      /\ \A k \in DOMAIN links' : links'[k] \in Records
  <2>1. \A k \in DOMAIN links : links[k] \in Records
    BY DEF TopologyInv, LinkInv
  <2>2. CASE Attaching(p)
    <3>1. /\ DOMAIN links' = DOMAIN links \cup {l}
          /\ links'[l] = new
          /\ \A k \in DOMAIN links \ {l} : links'[k] = links[k]
      BY <1>1, <2>2 DEF Put
    <3>2. new \in Records /\ new.method # "lldp"
      BY DEF Records
    <3> QED
      BY <1>7, <2>1, <2>2, <3>1, <3>2 DEF LldpLinks
  <2>3. CASE ~Attaching(p)
    BY <1>1, <2>1, <2>3 DEF LldpLinks
  <2> QED
    BY <2>2, <2>3
<1>9. LinkInv' /\ ConfirmInv' /\ HowInv'
  BY <1>1, <1>3, <1>8, LldpKept
<1>10. FdbInv'
  <2>1. /\ \A k \in DOMAIN links : links[k].method = "fdb" =>
             \E q \in TakenFdb : Attaching(q) /\ k = AttachedTo(q)
        /\ \A q \in TakenFdb : Attaching(q) => AttachedTo(q) \in DOMAIN links
    BY DEF TopologyInv, FdbInv
  <2>2. CASE Attaching(p)
    <3>1. /\ DOMAIN links' = DOMAIN links \cup {l}
          /\ \A k \in DOMAIN links \ {l} : links'[k] = links[k]
      BY <1>1, <2>2 DEF Put
    <3>2. \A k \in DOMAIN links' : links'[k].method = "fdb" =>
            \E q \in TakenFdb \cup {p} : Attaching(q) /\ k = AttachedTo(q)
      BY <2>1, <2>2, <3>1
    <3>3. \A q \in TakenFdb \cup {p} : Attaching(q) => AttachedTo(q) \in DOMAIN links'
      BY <2>1, <3>1
    <3> QED
      BY <1>3, <1>5, <3>2, <3>3 DEF FdbInv
  <2>3. CASE ~Attaching(p)
    BY <1>1, <1>3, <1>5, <2>1, <2>3 DEF FdbInv
  <2> QED
    BY <2>2, <2>3
<1>11. NodeInv'
  <2>1. {h \in TakenLldp : Remote(h).how = "unresolved"}'
          = {h \in TakenLldp : Remote(h).how = "unresolved"}
    BY <1>3, <1>4
  <2>2. {Remote(h).node : h \in TakenLldp}' = {Remote(h).node : h \in TakenLldp}
    BY <1>3, <1>4
  <2>3. {q \in TakenFdb : Attaching(q)}' = {q \in TakenFdb \cup {p} : Attaching(q)}
    BY <1>3, <1>5
  <2>4. found' = answered' \cup {Remote(h).node : h \in TakenLldp}'
                   \cup {q[3] : q \in {q \in TakenFdb : Attaching(q)}}'
    <3>1. found = answered \cup {Remote(h).node : h \in TakenLldp}
                    \cup {q[3] : q \in {q \in TakenFdb : Attaching(q)}}
      BY DEF TopologyInv, NodeInv
    <3> QED
      BY <1>1, <1>2, <2>2, <2>3, <3>1
  <2>5. noted' \subseteq Paths
    BY <1>1 DEF TopologyInv, NodeInv, InputInv
  <2> QED
    BY <1>1, <2>1, <2>4, <2>5 DEF TopologyInv, NodeInv
<1> QED
  BY <1>6, <1>9, <1>10, <1>11 DEF TopologyInv

THEOREM Invariance == Spec => []TopologyInv
<1>1. Init => TopologyInv
  BY InvInit
<1>2. TopologyInv /\ [Next]_vars => TopologyInv'
  <2> SUFFICES ASSUME TopologyInv, [Next]_vars PROVE TopologyInv'
    OBVIOUS
  <2>1. CASE \E h \in heard : AddLldpLink(h)
    BY <2>1, LldpStep
  <2>2. CASE \E p \in learned : AddFdbAttachment(p)
    BY <2>2, FdbStep
  <2>3. CASE LldpDone \/ FdbDone \/ UNCHANGED vars
    BY <2>3, PhaseStep
  <2> QED
    BY <2>1, <2>2, <2>3 DEF Next
<1> QED
  BY <1>1, <1>2, PTL DEF Spec

-----------------------------------------------------------------------------
(* What follows from the invariant.                                        *)

\* Types: of the entries, of the links, and that both nodes of a link are found.
THEOREM TypeCorrect == Spec => []TypeOK
<1>1. TopologyInv => TypeOK
  <2> SUFFICES ASSUME TopologyInv PROVE TypeOK
    OBVIOUS
  <2>1. ASSUME NEW l \in DOMAIN links PROVE links[l] \in Link /\ \A e \in l : e[1] \in found
    <3>1. links[l] \in Link /\ links[l].method \in {"lldp", "fdb"}
      BY DEF TopologyInv, LinkInv, Records, Link
    <3>2. CASE links[l].method = "lldp"
      <4>1. PICK h \in TakenLldp : l = LinkOf(h)
        BY <3>2 DEF TopologyInv, LinkInv, LldpLinks
      <4>2. h \in heard
        BY <4>1 DEF TakenLldp
      <4>3. h.at[1] \in found /\ Remote(h).node \in found
        BY <4>1, <4>2 DEF TopologyInv, NodeInv, InputInv
      <4>4. l = {h.at, <<Remote(h).node, RemotePort(h)>>}
        BY <4>1 DEF LinkOf
      <4> QED
        BY <3>1, <4>3, <4>4
    <3>3. CASE links[l].method = "fdb"
      <4>1. PICK p \in TakenFdb : Attaching(p) /\ l = AttachedTo(p)
        BY <3>3 DEF TopologyInv, FdbInv
      <4>2. p \in learned
        BY <4>1 DEF TakenFdb
      <4>3. p[1] \in found /\ p[3] \in found
        BY <4>1, <4>2 DEF TopologyInv, NodeInv, InputInv
      <4>4. l = {<<p[1], p[2]>>, <<p[3], "">>}
        BY <4>1 DEF AttachedTo, Attachment
      <4>5. <<p[1], p[2]>>[1] = p[1] /\ <<p[3], "">>[1] = p[3]
        OBVIOUS
      <4>6. \A e \in l : e[1] \in {p[1], p[3]}
        BY <4>4, <4>5, Zenon
      <4> QED
        BY <3>1, <4>3, <4>6
    <3> QED
      BY <3>1, <3>2, <3>3
  <2>2. todo \subseteq IF phase = "lldp" THEN heard ELSE learned
    BY DEF TopologyInv, PhaseInv
  <2>3. unresolved \subseteq heard
    BY DEF TopologyInv, NodeInv, TakenLldp
  <2> QED
    BY <2>1, <2>2, <2>3 DEF TypeOK, TopologyInv, InputInv, PhaseInv, NodeInv
<1> QED
  BY <1>1, Invariance, PTL

\* At the end every entry has been taken.
LEMMA AllTaken ==
  ASSUME TopologyInv, phase = "done"
  PROVE  TakenLldp = heard /\ TakenFdb = learned /\ LldpLinks = {LinkOf(h) : h \in heard}
BY DEF TopologyInv, PhaseInv, LinkInv, TakenLldp, TakenFdb

\* The result is what the entries say as a set, whatever the order in which the
\* switches and their entries were taken.
THEOREM OrderDoesNotMatter == Spec => []OrderFree
<1>1. TopologyInv => OrderFree
  <2> SUFFICES ASSUME TopologyInv, phase = "done"
               PROVE  /\ LldpLinks = {LinkOf(h) : h \in heard}
                      /\ \A l \in LldpLinks :
                           links[l].confirmed <=>
                             \E h, g \in heard : h # g /\ LinkOf(h) = l /\ LinkOf(g) = l
                      /\ found = answered \cup {Remote(h).node : h \in heard}
                           \cup {p[3] : p \in {q \in learned : Recognised(q) /\ Unclaimed(q)}}
    BY DEF OrderFree
  <2> QED
    BY AllTaken DEF TopologyInv, ConfirmInv, NodeInv, Attaching
<1> QED
  BY <1>1, Invariance, PTL

\* A cable that both its switches report well is one link, and confirmed.
THEOREM SeenFromBothEnds == Spec => []BothEndsConfirmed
<1>1. TopologyInv => BothEndsConfirmed
  <2> SUFFICES ASSUME TopologyInv, phase = "done", NEW h \in heard, NEW g \in heard,
                      g.at = Far(h.at), Well(h), Well(g)
               PROVE  {h.at, g.at} \in DOMAIN links /\ links[{h.at, g.at}].confirmed
    BY DEF BothEndsConfirmed
  <2>1. h.at \in AllEnds
    BY EntryLink DEF TopologyInv
  <2>2. g.at # h.at /\ Far(g.at) = h.at
    BY <2>1, FarEnds
  <2>3. LinkOf(h) = {h.at, g.at} /\ LinkOf(g) = {h.at, g.at}
    BY <2>2, WellLink DEF TopologyInv
  <2>4. {h.at, g.at} \in LldpLinks
    BY <2>3, AllTaken
  <2>5. h # g
    BY <2>2
  <2> QED
    BY <2>3, <2>4, <2>5, AllTaken DEF TopologyInv, ConfirmInv, LldpLinks
<1> QED
  BY <1>1, Invariance, PTL

\* A link of LLDP that is not marked weak is a cable between the right devices.
THEOREM LinksAreReal == Spec => []LinksAreCables
<1>1. TopologyInv => LinksAreCables
  <2> SUFFICES ASSUME TopologyInv, NEW l \in LldpLinks, links[l].how # "weak"
               PROVE  \E e \in l : \E f \in l \ {e} :
                        /\ e \in Ends
                        /\ f[1] \in {Far(e)[1], Host[Far(e)[1]], Mac[Far(e)[1]]}
                        /\ f[2] \in {Far(e)[2], PortId[Far(e)[2]]}
    BY DEF LinksAreCables
  <2>1. PICK h \in TakenLldp : LinkOf(h) = l /\ links[l].how = Remote(h).how
    BY DEF TopologyInv, HowInv
  <2>2. h \in heard /\ InputInv
    BY <2>1 DEF TakenLldp, TopologyInv
  <2> DEFINE f == <<Remote(h).node, RemotePort(h)>>
  <2>3. h.at \in l /\ f \in l
    BY <2>1 DEF LinkOf
  <2>4. f # h.at
    BY <2>1, <2>2, TwoEnds
  <2>5. Remote(h).node \in {Far(h.at)[1], Host[Far(h.at)[1]], Mac[Far(h.at)[1]]}
        /\ RemotePort(h) \in {Far(h.at)[2], PortId[Far(h.at)[2]]} /\ h.at \in Ends
    BY <2>1, <2>2, EntryLink
  <2>6. f[1] = Remote(h).node /\ f[2] = RemotePort(h)
    OBVIOUS
  <2> HIDE DEF f
  <2> QED
    BY <2>3, <2>4, <2>5, <2>6
<1> QED
  BY <1>1, Invariance, PTL

\* An attachment is at a port of which no LLDP entry tells, at either end.
THEOREM TrunksStayFree == Spec => []TrunkNotAttached
<1>1. TopologyInv => TrunkNotAttached
  <2> SUFFICES ASSUME TopologyInv, NEW l \in DOMAIN links, links[l].method = "fdb",
                      NEW e \in l \cap Ends
               PROVE  /\ ~Reported(e)
                      /\ ~\E h \in heard : h.at = Far(e) /\ Well(h)
    BY DEF TrunkNotAttached
  <2>1. PICK p \in TakenFdb : Attaching(p) /\ l = AttachedTo(p)
    BY DEF TopologyInv, FdbInv
  <2>2. p \in learned /\ InputInv
    BY <2>1 DEF TakenFdb, TopologyInv
  <2>3. p[3] \notin Switches
    BY <2>2, FilteringEntry DEF Switches
  <2>4. e = <<p[1], p[2]>> /\ e \in AllEnds
    <3>1. l = {<<p[1], p[2]>>, <<p[3], "">>}
      BY <2>1 DEF AttachedTo, Attachment
    <3>2. e[1] \in Switches /\ e \in AllEnds
      BY DEF Ends
    <3>3. <<p[3], "">>[1] = p[3]
      OBVIOUS
    <3>4. e # <<p[3], "">>
      BY <2>3, <3>2, <3>3, Zenon
    <3> QED
      BY <3>1, <3>2, <3>4
  <2>5. \A h \in heard : e \notin LinkOf(h)
    BY <2>1, <2>4 DEF Attaching, Unclaimed
  <2>6. ~Reported(e)
    BY <2>2, <2>5, EntryLink DEF Reported
  <2>7. ASSUME NEW h \in heard, h.at = Far(e), Well(h) PROVE FALSE
    <3>1. Far(h.at) = e
      BY <2>4, <2>7, FarEnds
    <3> QED
      BY <2>2, <2>5, <2>7, <3>1, WellLink
  <2> QED
    BY <2>6, <2>7
<1> QED
  BY <1>1, Invariance, PTL

\* An endpoint learned where it is plugged in is linked to that port, unless a
\* link by vendor prefix, or one to its unlisted name, is there.
THEOREM EndpointIsShown == Spec => []EndpointShown
<1>1. TopologyInv => EndpointShown
  <2> SUFFICES ASSUME TopologyInv, phase = "done", NEW p \in learned, Recognised(p),
                      Far(<<p[1], p[2]>>)[1] = p[3]
               PROVE  \E l \in DOMAIN links :
                        /\ <<p[1], p[2]>> \in l
                        /\ \/ \E f \in l : f[1] = p[3]
                           \/ links[l].how = "weak"
                           \/ links[l].how = "unresolved" /\ Host[p[3]] # p[3]
    BY DEF EndpointShown
  <2> DEFINE e == <<p[1], p[2]>>
  <2>1. InputInv /\ e \in Ends /\ p[3] \in Endpoints /\ p[3] \in Known
    BY FilteringEntry, TopologyAssumption DEF TopologyInv
  <2>2. CASE Unclaimed(p)
    <3>1. AttachedTo(p) \in DOMAIN links
      BY <2>2, AllTaken DEF TopologyInv, FdbInv, Attaching
    <3>2. e \in AttachedTo(p) /\ <<p[3], "">> \in AttachedTo(p) /\ <<p[3], "">>[1] = p[3]
      BY DEF AttachedTo, Attachment
    <3> HIDE DEF e
    <3> QED
      BY <3>1, <3>2 DEF e
  <2>3. CASE ~Unclaimed(p)
    <3>1. PICK g \in heard : e \in LinkOf(g)
      BY <2>3 DEF Unclaimed
    <3> DEFINE l == LinkOf(g)
    <3>2. l \in LldpLinks /\ l \in DOMAIN links
      BY AllTaken DEF LldpLinks
    <3>3. PICK h \in heard : LinkOf(h) = l /\ links[l].how = Remote(h).how
      BY <3>2, AllTaken DEF TopologyInv, HowInv
    <3>4. SUFFICES ASSUME Remote(h).how # "weak"
                   PROVE  \/ \E f \in l : f[1] = p[3]
                          \/ Remote(h).how = "unresolved" /\ Host[p[3]] # p[3]
      BY <3>1, <3>2, <3>3
    <3>5. e = h.at
      <4>1. SUFFICES ASSUME e = Far(h.at) PROVE FALSE
        BY <2>1, <3>1, <3>3, <3>4, EndOfLink
      <4>2. h.at \in AllEnds /\ h.at[1] \in Switches
        BY <2>1, EntryLink
      <4>3. Far(e) = h.at
        BY <4>1, <4>2, FarEnds
      <4> QED
        BY <2>1, <4>2, <4>3 DEF Switches
    <3>6. CASE Remote(h).how = "strong"
      <4>1. Remote(h).node = p[3]
        BY <2>1, <3>5, <3>6, EntryLink
      <4>2. <<Remote(h).node, RemotePort(h)>> \in l
        BY <3>3 DEF LinkOf
      <4> QED
        BY <4>1, <4>2
    <3>7. CASE Remote(h).how = "unresolved"
      <4>1. Ranks(p[3], h.says) = {} /\ Remote(h).node \notin Known /\ h.says \in Forms
        BY <2>1, <3>5, <3>7, EntryLink DEF InputInv
      <4>2. Matches(p[3], h.says)[2] = {}
        BY <4>1 DEF Ranks, Weak
      <4>3. "mac" \notin h.says
        BY <2>1, <4>2 DEF Matches, Recognised
      <4>4. "name" \in h.says
        BY <4>1, <4>3, TopologyAssumption
      <4>5. Remote(h).node = Host[p[3]]
        BY <3>5, <4>1, <4>4 DEF Remote, ResolveRemote
      <4> QED
        BY <2>1, <3>7, <4>1, <4>5
    <3> QED
      BY <2>1, <3>4, <3>6, <3>7, EntryLink
  <2> QED
    BY <2>2, <2>3
<1> QED
  BY <1>1, Invariance, PTL

\* Agreement with SYSTEM.md hides no unlisted device that was reported, unless
\* a link marked weak betrays it.
THEOREM AgreementIsHonest == Spec => []AgreementTold
<1>1. TopologyInv => AgreementTold
  <2> SUFFICES ASSUME TopologyInv, phase = "done", Agreement, NEW h \in heard,
                      Remote(h).how # "weak"
               PROVE  Far(h.at)[1] \in Known
    BY DEF AgreementTold
  <2>1. h \notin unresolved /\ found \subseteq Known
    BY DEF Agreement, Extra
  <2>2. Remote(h).how # "unresolved" /\ Remote(h).node \in found
    BY <2>1, AllTaken DEF TopologyInv, NodeInv
  <2>3. Remote(h).node = Far(h.at)[1]
    BY <2>2, EntryLink DEF TopologyInv
  <2> QED
    BY <2>1, <2>2, <2>3
<1> QED
  BY <1>1, Invariance, PTL

\* Of a port reported as silent nothing was heard that the code can use.
THEOREM SilenceIsTrue == Spec => []SilentMeansUnheard
<1>1. TopologyInv => SilentMeansUnheard
  <2> SUFFICES ASSUME TopologyInv, phase = "done", NEW e \in SilentLinkUpPorts
               PROVE  /\ ~Reported(e)
                      /\ \A p \in learned : Recognised(p) => <<p[1], p[2]>> # e
                      /\ ~\E h \in heard : h.at = Far(e) /\ Well(h)
    BY DEF SilentMeansUnheard
  <2>1. InputInv /\ e \in AllEnds /\ \A l \in DOMAIN links : e \notin l
    BY DEF TopologyInv, SilentLinkUpPorts, Attached, Ends
  <2>2. \A h \in heard : LinkOf(h) \in DOMAIN links
    BY AllTaken DEF LldpLinks
  <2>3. \A h \in heard : e \notin LinkOf(h)
    BY <2>1, <2>2
  <2>4. ~Reported(e)
    BY <2>1, <2>3, EntryLink DEF Reported
  <2>5. ASSUME NEW p \in learned, Recognised(p), <<p[1], p[2]>> = e PROVE FALSE
    <3>1. Attaching(p)
      BY <2>3, <2>5 DEF Attaching, Unclaimed
    <3>2. AttachedTo(p) \in DOMAIN links
      BY <3>1, AllTaken DEF TopologyInv, FdbInv
    <3> QED
      BY <2>1, <2>5, <3>2 DEF AttachedTo, Attachment
  <2>6. ASSUME NEW h \in heard, h.at = Far(e), Well(h) PROVE FALSE
    <3>1. Far(h.at) = e
      BY <2>1, <2>6, FarEnds
    <3> QED
      BY <2>1, <2>3, <2>6, <3>1, WellLink
  <2> QED
    BY <2>4, <2>5, <2>6
<1> QED
  BY <1>1, Invariance, PTL
=============================================================================
