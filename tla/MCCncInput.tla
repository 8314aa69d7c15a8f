----------------------------- MODULE MCCncInput -----------------------------
(***************************************************************************)
(* Two switches of three ports: A is anything of the four families below,    *)
(* each of which varies one part of a switch and every command that reads  *)
(* it, and B is plain and read in each of the three ways.                  *)
(***************************************************************************)
EXTENDS CncInput

MCInterfaces == <<"Gi 1/1", "Gi 1/2", "Gi 1/3">>
MCNames == {"A", "B"}
MCLinks == {[a |-> [node |-> "A", port |-> "Gi 1/1"], b |-> [node |-> "B", port |-> "Gi 1/2"]],
            [a |-> [node |-> "A", port |-> "Gi 1/2"], b |-> [node |-> "H", port |-> "eth0"]]}

Identity == [q \in Priorities |-> q]
Swap == [q \in Priorities |-> 1 - q]
Idle == [gate |-> FALSE, list |-> << >>, cycle |-> 0, gclMax |-> 2, cycleMax |-> 3,
         queues |-> {}, regen |-> Identity, trust |-> TRUE, state |-> "master", asCap |-> TRUE]
Plain == [feats |-> Features \ {"qcc"}, own |-> "b", gm |-> "b", offset |-> 0, steps |-> 0,
          ports |-> <<Idle, Idle, Idle>>]
OkOrLost == {"ok", "lost"}

\* A reading with the outcomes of caps, and "ok" for the commands it leaves out.
Reading(caps, kept, wide, single) ==
  [cap |-> [k \in Keys |->
              IF k = "qos" \/ (kept = {} /\ k \in Range(PerInterface)) THEN "unissued"
              ELSE IF k \in DOMAIN caps THEN caps[k] ELSE "ok"],
   kept |-> kept, states |-> wide[1], capable |-> wide[2],
   portStates |-> single[1], portCapable |-> single[2]]
Whole(rows) == <<rows, rows>>
With(caps, kept) == Reading(caps, kept, Whole(1 .. 3), Whole(kept))
AllOk == With(<< >>, 1 .. 3)

Cli(s, r) == [sw |-> s, mode |-> "cli", got |-> FALSE, r |-> r]
Netconf(s, got) == [sw |-> s, mode |-> "netconf", got |-> got,
                   r |-> With([k \in Keys |-> "lost"], 1 .. 3)]
Unreachable(s) == [Netconf(s, FALSE) EXCEPT !.mode = "unreachable"]

\* Time: a grandmaster, or a clock near or far from its master, on every
\* pairing of port states; PTP commands and interface rows lost in any way, and
\* of the clock that is near, when it was read, also rows of the PTP tables.
Near == <<"g", 1, 1>>
PtpSwitch(clock, st, as) ==
  [Plain EXCEPT !.gm = clock[1], !.steps = clock[2], !.offset = clock[3],
                !.ports = [i \in 1 .. 3 |-> [Idle EXCEPT !.state = st[i], !.asCap = as[i]]]]
PtpRows == {<<kept, wide, single>> :
              kept \in Rows, wide \in Rows \X Rows, single \in {"none", "all", "capable"}}
PtpChosen ==
  {<<clock, caps, rows>> \in
     {<<"b", 0, 0>>, Near, <<"g", 1, -3>>}
     \X [{"running-config", "ptp-default", "ptp-parent", "ptp-current"} -> OkOrLost]
     \X {rows \in PtpRows : rows[2][2] \in {{}, rows[2][1], 1 .. 3}} :
     \/ rows[2] \in {Whole({}), Whole(1 .. 3)} /\ rows[3] # "capable"
     \/ clock = Near /\ \A k \in {"ptp-default", "ptp-parent", "ptp-current"} : caps[k] = "ok"}
PtpCases ==
  {Cli(PtpSwitch(x[1], st, as),
       LET kept == x[3][1] IN
       Reading(x[2], kept, x[3][2], CASE x[3][3] = "none" -> Whole({})
                                      [] x[3][3] = "all"  -> Whole(kept)
                                      [] OTHER            -> <<{}, kept>>)) :
     x \in PtpChosen,
     st \in {<<"slave", "master", "listening">>, <<"master", "slave", "disabled">>,
             <<"disabled", "disabled", "disabled">>, <<"listening", "master", "slave">>},
     as \in {<<TRUE, FALSE, FALSE>>, <<FALSE, TRUE, TRUE>>, <<TRUE, TRUE, TRUE>>}}

\* Schedules: lists that fit, fall short, overrun or are too long.
GateSwitches ==
  {[Plain EXCEPT !.ports[1] = [Idle EXCEPT !.gate = g, !.list = l, !.cycle = c, !.cycleMax = m]] :
     g \in BOOLEAN, l \in {<< >>, <<1>>, <<1, 1>>, <<3>>, <<1, 0, 1>>}, c \in {0, 2}, m \in {1, 3}}
GateCases ==
  {Cli(s, With(caps, kept)) : s \in GateSwitches, kept \in {{1}, 1 .. 3},
     caps \in {[k \in {"running-config", "tas", "tas--"} |->
                  CASE k = "running-config" -> o[1] [] k = "tas" -> o[2] [] OTHER -> o[3]] :
                 o \in OkOrLost \X {"ok", "rejected", "lost"} \X OkOrLost}}
  \cup {Netconf(s, got) : s \in GateSwitches, got \in BOOLEAN}

\* Preemption and classification.
QosSwitches ==
  {[Plain EXCEPT !.ports[1] = [Idle EXCEPT !.queues = q, !.regen = m, !.trust = t]] :
     q \in SUBSET Priorities, m \in {Identity, Swap}, t \in BOOLEAN}
QosCases ==
  {Cli(s, With(caps, 1 .. 3)) : s \in QosSwitches,
     caps \in [{"running-config", "fp", "fp--", "qos--"} -> OkOrLost]}
  \cup {Netconf(s, TRUE) : s \in QosSwitches}

\* Firmware with and without the features, and commands of every outcome.
FeatureSwitches ==
  {[Plain EXCEPT !.feats = @ \ f] : f \in {{}, Features} \cup {{x} : x \in Features}}
FeatureCases ==
  {c \in {Cli(s, With(caps, kept)) : s \in FeatureSwitches, kept \in {{}, 1 .. 3},
            caps \in [{"tas", "tas--", "psfp", "qos--", "vlan"} -> {"ok", "rejected", "lost"}]} :
     Honest(c.sw, c.r)}
FeatureCasesHonest ==
  FeatureCases \cup {Netconf(s, TRUE) : s \in FeatureSwitches}

CasesOfA == PtpCases \cup GateCases \cup QosCases \cup FeatureCasesHonest \cup {Unreachable(Plain)}
CasesOfB == {Cli(Plain, AllOk), Netconf(Plain, TRUE), Unreachable(Plain)}
MCCases == [n \in MCNames |-> IF n = "A" THEN CasesOfA ELSE CasesOfB]
=============================================================================
