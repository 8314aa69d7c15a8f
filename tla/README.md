# Verification of FlexTest

FlexTest measures the latency of a paced, priority-tagged stream across two TSN switches
(`i226-adaptation`) and discovers and checks the topology and the TSN configuration of those
switches (`topology-discovery`). This directory holds TLA+ models of both, the TLC runs that check
them on small instances, and TLAPS proofs of their safety properties. All paths below are
relative to the repository root.

## 1. Inventory

| Part | Source | State | Operations | Hard behaviour |
|---|---|---|---|---|
| Campaign driver | `scripts/run_measurement.sh`, `qos_config.sh`, `config.conf` | loop position, `PTP_LAST`, `PTP_BEFORE`, result directory; on the nodes: QoS mode, receive filter, `/tmp`, running `tsn_rx` | gate, preflight, set QoS, check, listen, load, stream, collect, mark, restore, trap | acts on two machines with steps that fail separately; may be killed and restarted; retries and recovery; `set -e` |
| Measured stream | `tools/tsn_tx.c`, `tsn_rx.c`, `tsn_common.h` | sequence number, table of TX timestamps, error queue, receive filter, CSV rows | paced send, drain of the error queue, trailing collection, receive | frames lost, duplicated, reordered; timestamps late, lost or shared with ptp4l; sampling |
| Offline analysis | `analysis/analyze_plot.py` | joined rows, per-point metrics | `load_case`, `summarise`, `merge_reps`, figures | what counts as sent, received and lost; missing files and marks |
| Node preparation | `setup_node.sh`, `fix_iperf3.sh`, `bootstrap_ssh.sh`, `tx_rate_selftest.sh` | packages, units, addresses, sysctl, gPTP.cfg | idempotent shell steps | interrupted and repeated runs |
| Discovery driver | `tsn_discovery/cli.py` | result and record of each switch, exit code, output files | probe, discover, reanalyse, analyse, publish | worker pool; transport fallback; a failed switch; live against replayed data |
| NETCONF client | `netconf.py`, `xmlutil.py` | session, captures, raw files | connect, hello, rpc, collect, close | partial failure of a collection |
| ICLI client | `istax.py` | SSH channel, prompt, captures | connect, run, pager, collect | late answers after a timeout, pager, partial reads |
| ICLI parsers | `istax_parse.py`, `cli_record.py` | none | tables, running-config, TAS config, record, support of features | commands refused or lost one by one; rows missed; numbers that are positions |
| Topology | `topology.py`, `inventory.py` | nodes, links, index of identities, port map | seed, resolve, merge LLDP, attach FDB, crosscheck | one link seen from both ends, from one end twice, or by an unknown identity |
| PTP assessment | `ptp.py` | none | observation, join to interfaces, projection to three YANG models, lock verdict | any of its commands may be missing; three models must agree |
| Capabilities | `capabilities.py`, `probe.py` | none | Qbv, Qbu, QoS, interfaces, the modules of a switch | an interfaces reply that was lost |
| CNC input | `cnc.py` | none | envelope, gaps | missing values of some bridges |
| Rendering | `render.py` | none | Markdown, DOT, CSV | wording only |

How the parts meet. The driver starts `tsn_rx` on PC2 over ssh, `iperf3` in the background and
`tsn_tx` in the foreground, and collects their files. `tsn_tx` and `tsn_rx` share only the wire; the
analysis joins their CSVs by sequence number with `frames_sent` of `meta.json`. `ptp4l`, run by
systemd on both nodes, shares the NIC's receive filter and its transmit-timestamp registers with the
tools. In the discovery, a pool of workers runs one client per switch; the records they return are
analysed together, and a raw directory lets the whole analysis be repeated offline. A record looks
the same whichever transport it came over, and `cnc.py` makes one document of all of them.

What makes each part correct, in a sentence:

- Campaign driver: a result is about the run, the point and the node configuration its label says,
  and a run always ends with every point decided.
- Measured stream and analysis: the loss and the timestamp yield that are reported are those of the
  wire, whatever is lost, late, repeated or sampled.
- Discovery: the exit code, the captures, the documents and a replay never tell more than the
  switches said.
- Topology: links, attachments and the agreement with `SYSTEM.md` are true of the cables, and do not
  depend on the order of the answers.
- ICLI client: a capture is what the switch wrote on that command, or says that it may not be.
- Records, PTP and CNC input: what is said of time, schedules, preemption and features is true of the
  hardware, and a command that was lost is never read as a good value.
- Node preparation: an interrupted setup can be repeated.

## 2. Plan

Modules, in the order of their importance to the system. All but the last are built.

| Module | Models | Composition | Theorems |
|---|---|---|---|
| `CampaignLedger`, `Campaign` | abstract ledger of points; the driver | the driver implements the ledger (`INSTANCE ... WITH`) | proved, see 5 |
| `MeasuredStream` | tools, NIC, network, analysis | stands on its own; a point's stream in `Campaign` is one outcome of it | proved, see 5 |
| `Discovery` | driver, pool, NETCONF client, files | its records are the input of `Topology` and of `CncInput` | proved, see 5 |
| `Topology` | merging of neighbours and addresses | input: what the switches that answered said | proved, see 5 |
| `CliSession` | one switch's command line: pager, pieces, late output | the captures it makes are the readings of `SwitchRecord` | proved, see 5 |
| `Ordered`, `PtpRecord`, `SwitchRecord` | lists that a loop makes; PTP assessment; record of a switch over either transport | operators, extended by `CncInput` | proved with `CncInput` |
| `CncInput` | switches read in any way, the controller's document | composes the two above | proved, see 5 |
| `NodeSetup` | interrupted and repeated setup, NIC handover | would prepare the state `Campaign` starts from | - |

Abstract specifications: the ledger of a campaign, a set of cables for the topology (the ghost constant
`Cables`), and for the records the hardware itself (`case[n].sw`), which every record is compared with.

## 3. Modules and code

### Campaign (`Campaign`, `CampaignLedger`, `MCCampaign`, `CampaignProofs`, `CampaignRunProofs`)

`pc` is the place in `run_measurement.sh`; every command that acts on a node, and every branch, is an
action: the gPTP gate (`Gate`, `Recover`), the preflight of the tagged path
(`PfListen`, `PfSend`, `PfCount`, `PfUntagged`), `ApplyQosPC1/PC2`, the
checks before and after a point (`Check`, `Recheck`, `After`), `Listen`, `Load`, `Stream`, `Join`,
`Fetch`, `Remove`, `Shortfall`, `WriteMeta`, `Mark`, `RestorePC1/PC2` and the traps (`CtrlC`, `Killed`).
State that survives the script (`qos`, `filter`, `files` in `/tmp` of PC2, `listeners`) is separate
from the script's own, so that `Start` meets whatever an earlier run left. A file carries its
`owner`, the run whose `tsn_rx` wrote it, or 0 when listeners of two runs write it at once. A failing
command ends the run where `set -e` ends it and is only warned of where the script has `||`. A stream
that Ctrl-C cuts short still reports a yield, good (`cut`) or low (`cutLow`), and is marked by it.

The script has no defence against a `tsn_rx` that an earlier, killed run left at work: this run's
listener opens the same file in `/tmp`, and what both wrote is collected, perhaps half written, without a
mark. Nor does it notice a `tsn_rx` that fails before it opens its file, or an ssh session that drops.
`mishaps` is the history of these three (`leftover`, `failed`, `dropped`), by file, in the current run, and
the properties say that they are the only ways in:

- `RxNotStale`: a collected `rx.csv` was written by this run's listener alone, or rows of two runs are
  mixed in it and a leftover listener was on it, or this point's `tsn_rx` failed.
- `RxComplete`: it was collected after every listener had closed it, whoever owns it, or a leftover
  listener was on it, or this point's session dropped.
- `PreflightHonest`: the sweep starts after tagged frames of this run came through, or the preflight's own
  `tsn_rx` failed.

`CampaignLedger` is the promise: points are decided once each, in sweep order, and a decision stays.

### Measured stream (`MeasuredStream`, `MCStream`, `StreamProofs`)

`tsn_tx`: pacing loop, drain of the error queue, trailing collection with its deadline, report.
The NIC of PC1 has `Registers` for transmit timestamps, which `ptp4l` also takes. The network loses,
duplicates and reorders. `tsn_rx`: receive filter, rows, time limit. The operators at the end are
`load_case` and `summarise` of `analyze_plot.py` and the DEGRADED test of the script. Times and
latencies are not modelled.

### Discovery (`Discovery`, `MCDiscovery`, `DiscoveryProofs`)

`phase` is the place in `main()`, `worker[i]` that in `discover_one` for target `i`. Workers take
targets in order, at most `Workers` at a time. `raw` is `raw/<name>/` with its files; `docs`, `pub`
are the documents and their published copies by the run that wrote them. `Reanalyse` runs over the
same directory afterwards. The CLI transport is modelled as the code is: its `connect` raises on
every answer. `Abort` is `Executor.map`: the first result that raises cancels what is queued, and
the pool's exit waits for what runs.

Taken for granted: the run directory is new (the default identifier is a UTC timestamp), a file is
written whole or not at all, and the disk fails by becoming read-only. Left out: exit code 2
(nothing is started) and the replay of `.txt` captures, which no live run writes.

### Topology (`Topology`, `MCTopology`, `TopologyProofs`)

The real `Cables` are a constant, so that the result can be compared with the truth. Each switch end
of a cable may be reported, with any form of `Forms` (which of address, name, management address and
port description the neighbour sends) and in up to `Copies` entries; endpoint addresses may be
learned at any port of `Paths`. `AddLldpLink` and `AddFdbAttachment` take one entry each, in any
order, and do what one turn of the code's loops does. `TopologyAssumption` says that a neighbour
gives its chassis or its name, without which the code keeps no entry, and that addresses and names,
announced and listed ones together, identify one device, and port ids one port of it. It does not say
that a device announces what `SYSTEM.md` lists of it: a listed switch may announce another address
and an endpoint another name, and the properties tell these cases apart (`Recognised`). Two devices
that do share an address or a name are a hazard without a property. Left out: attributes of nodes and
every text format.

### Command line (`CliSession`, `Ordered`, `MCCliSession`, `CliProofs`)

Switch, channel and client are separate: `rest` is what the switch still has to write and stops at
`AtPager`, `keys` and `inq` are the two directions of the channel, `pc`, `todo`, `buf` and `caps` are
the client's. `Deliver` moves one token, so that `recv` may return any prefix of the output. `Send` is
the drain and the command of `run`; `ReadMore`, `ReadOn`, `ReadPrompt` and `Timeout` are one turn of
`_read_until_prompt` with what `run` does after it; `Skip`, `ListPorts` (`interface_lister`), `AskPort`
(the commands of one interface) and `Finish` are `collect`. `ports` holds the interfaces still to be
asked: `parse_interfaces` sorts them by name, which is any order here. `InOrder` (`Ordered`) lists the
positions that `_clean` and the removal of a pager prompt keep. Output is made of tokens: a row, the
pager's prompt in two halves, the blanks that erase it (`PAGER_RESIDUE_RE`), and rows that begin with as
many blanks on their own, which `_clean` cannot tell from them. A pager key that arrives at the shell
spoils the next line; a command that arrives at the pager is used up there. `connect` raises today
(finding 3), so these are the behaviours of the code behind it: what a session does once `connect`
succeeds.

`InterfaceRows` takes the rows of the listing command. The code takes any row under a heading with an
`Interface` column, also a displaced or a foreign one, so the two agree when that command is typed on a
quiet line, as in the run, where it comes first; the code sends `show running-config` before it. `EchoAt`
looks for the exact command where `_clean` tests `command in line`, which differs only on a line that is
not quiet.

An output stops at the pager once, because the key that is sent (`g`) asks for all the rest.

`_clean` compares the pager prompts answered with the runs of blanks removed. `Coincidence` is exactly
where the two counts agree though the text is not as written, and needs a paged output. Either the prompt
came in two pieces, its erase run was missed, and exactly one row other than the first of the second
screen is indented by 15 blanks or more; or the erase run was found and the only such row is the one that
follows it, and loses its blanks with it. `CaptureTold` fails if either half is left out.

### Records (`PtpRecord`, `SwitchRecord`, `CncInput`, `MCCncInput`, `OrderedProofs`, `CncProofs`)

A switch is what its hardware is. A reading says how each command ended (`ok`, `rejected`, `lost`, or
`unissued`: `qos` has no switch-wide form, and no per-interface command is issued when no interface was
listed), and which rows were understood: of the interface table (`kept`), of the switch-wide PTP port
table and 802.1AS table (`states`, `capable`), and of their per-interface forms (`portStates`,
`portCapable`). Any row may be missing. `CliRecord` builds the record the parsers and
`cli_record.build` make of it, with the PTP part from `PtpRecord` (`_observe`, the projections,
`_is_grandmaster`, `lock_assessment`); `NetconfRecord` the one of `capabilities.build`. Identities,
port names and modules are atoms; gate lists keep the interval of each entry, and a priority and its
queue are numbers, since the map between them is the point. `CncInput` reads the switches in any order
(`ReadSwitch`) and writes the document (`Document`), as `main()` and `cnc.build` do. `Features` are the eight
that the document lists; `ethernet`, `interfaces` and `system` are in the records only.

An interface's number is its position in the interface table, and joins it to the PTP tables. `_observe`
warns when a PTP number has no interface. That is enough where the numbers tell (`NumbersTell`): the interface
table lost its last rows only, or no row of the switch-wide PTP tables was read, or the row of the last port
was. Otherwise the code fails: a PTP table that ends early, which `_observe` allows
(`ptp.py:498-511`), and a lost interface row leave no number over, and a port gets another's state without a
warning. `PtpAttributed` and `SafeInEveryModel` are stated under `NumbersTell`; TLC finds both violated
without it.

`SupportEvidenced` has two exceptions, which are what the code does over the command line: Qav is
concluded from the generic `show qos interface`, which shows a port's priorities on every firmware, and PTP
counts as supported also when every reply about it was lost (`not-configured`).

Taken for granted (`CncAssumption`): a firmware without a feature refuses or loses the commands that are
about this feature alone (`Evidence`, `Honest`; there is none for Qav, Qcc and PTP) and has no configuration
of it (`Switch`); a clock is its own grandmaster exactly when it is
no step away from it, as IEEE 1588 has it; and the operational schedule of a gate that runs is the
administrative one, as it is once no change is pending. `InterfacesAssumption`: interfaces have
different names. The commands of one per-interface key all end alike. A row of the interface table whose
name is not understood, but which keeps its place in the numbering, is not modelled. `NoneAssumption`:
`None`, which stands for the `None` of Python, is none of the values that a reading can have.

## 4. Runs

`CHECK_DEADLOCK FALSE` throughout: scripts and programs end, and bounded runs do.

| Run | Checks | Shows |
|---|---|---|
| `campaign_restart` | `TypeOK` `StreamUnderQos` `MeasuredInLock` `WideFilter` `RxNotStale` `RxComplete` `PreflightHonest` | two runs of two points in a row, each killed, interrupted or failing anywhere, with listeners that fail and sessions that drop: points are sent under their own QoS mode and in lock, and a collected file or a preflight is wrong only for the causes that the properties name |
| `campaign_faults` | `MarksComplete` `RunEnds` `SweepsInOrder` | an idle and a loaded point under all faults but `session` and `iperf`: the run ends, implements the ledger, and if it finishes, all is decided and marked |
| `campaign_txfail` | `TxFailureSurvived`, violated | finding 1 |
| `stream` | `TypeOK` `RecordsAreHardware` `LossNotNegative` `LossExact` `SampleIsLarge` `TxEnds` | the two CSV files and `summary.csv` are true of the wire |
| `stream_figure` | `FigureShowsLoss`, violated | finding 2 |
| `discovery_pool` | `TypeOK` `CleanRunAnswered` `FallbackBeforeXml` `ReplayFaithful` `PublishedWhole` `RunEnds` | three switches, two workers, a live run and its reanalysis under every fault |
| `discovery_fallback` | `FallbackReads`, violated | finding 3 |
| `topology_merge` | `TypeOK` `BothEndsConfirmed` `LinksAreCables` `TrunkNotAttached` `EndpointShown` `OrderFree` `AgreementTold` `SilentMeansUnheard` | every choice of reports and every order of their entries |
| `topology_confirmed` | `ConfirmedFromBothEnds`, violated | finding 4 |
| `cli_session` | `TypeOK` `CaptureTold` `CollectEnds` | output in any pieces, a pager, refusals, a timeout at any time: what is captured is what was written, or a note says otherwise, and the collection ends |
| `switch_records` | `TypeOK` `PtpAttributed` `SafeInEveryModel` `LosingAReadIsSafe` `SameOverTransports` `FaultyScheduleTold` `SupportEvidenced` | what records and document say is true of the hardware, whatever was refused, lost or not understood, but for the exceptions named in 3 |
| `cnc_envelope` | `EnvelopeFits`, violated | finding 5 |

### Bounds

- Campaign: two runs are enough for anything one run leaves to another, since a third run meets the
  same nodes and files as a second. There is one QoS mode (and `none`, which nodes may be left in).
  `campaign_restart` has two unloaded points, so that the second point of a run meets what the first one
  left; `campaign_faults` an idle and a loaded one. With two rounds or two modes the states are many
  millions, and the order of the three loops rests on the theorem `ImplementsLedger`, which holds for all
  modes, loads and rounds. `GateTries` is 1 or 2 of 24: a poll changes nothing but the counter. Cut out
  for size: `startup`, `tx`, `scp` and `rm` in `campaign_restart`, `session` in `campaign_faults`; the theorems
  of the properties checked there hold for every set of these. Cut out because the property ends there:
  `ptp4l` in `campaign_restart` (`WideFilter`), and `iperf` in both (`MarksComplete`: an `iperf3` that dies
  without any JSON makes the shortfall unknown and leaves no mark). `iperf` is in no passing run; every
  theorem but that of `MarksComplete` covers it.
- Stream: three frames and two registers give both a frame without a register and a report that is
  late; one duplicate is enough for a row that is counted twice.
- Discovery: three switches with two workers, so that one is queued while two run; two reads, so that
  a session can die between them; two documents, so that a run can end between them.
- Topology: a trunk, an endpoint, a neighbour of the switches' own vendor and one of another, a switch
  whose announced address is not the listed one, and an endpoint that announces another name; entries
  with and without a chassis, a name, a management address and a port description. Every rank of
  `resolve_remote` is used.
- Command line: two rows to a screen and tables of up to three rows, so that one output fits, one stops
  at the pager and some rows are indented, so that both halves of `Coincidence` occur and a paged table
  without an indented row does too; a command that is refused, and one per interface on the port that
  the switch-wide table does not name. A command may time out at any point of its output, so that a
  later one meets the rest of it, a waiting pager or a stray key.
- Records: one switch is anything of four families, each of which varies one part (time, schedule,
  preemption and classification, features) with commands that read it ending in every way; parts
  are read by different commands and do not meet before the document. In the family of time, any
  interface rows are lost. For a clock near its master whose data sets were all read, any rows of the
  switch-wide port-state table are lost too, with the 802.1AS table read for none, for the same or for all
  ports; otherwise both are whole or empty. The per-interface forms were read of no listed interface, of
  all, or for the 802.1AS part only. The features' family has firmware with all of them, without one or
  without any, with interfaces listed or none. The other switch is plain and read in each way, which is
  what the gaps, the support and the envelope compare.
  Three ports let a number shift past another port; two priorities have one map that is not the
  identity; the threshold is 2 ns for offsets of 0 and 3.

### Fairness

`RunEnds` of the campaign needs that the shell goes on and that a listener's time limit runs out;
every command of the script has a timeout or a bounded loop. `TxEnds` needs that `tsn_tx` goes on,
and its deadline (`-w`) may always pass. `RunEnds` of the discovery needs that threads and `main()`
go on while they can: probe, session and reads have timeouts. `CollectEnds` needs that the
client goes on from one command to the next (`Asking`) and that its clock runs, so that the deadline of a
command passes in the end; the switch owes nothing, may stop in the middle of an output, and what it wrote
need not be read. Nothing is assumed of faults, of the operator,
of the network's delivery for safety, or of `ptp4l`.

### Findings

1. A `tsn_tx` that dies without its report ends the campaign: the `grep` for `sent=` fails under
   `pipefail`, before the default that is meant for this case (`run_measurement.sh:430`).
2. The loss figure divides by the timestamps, not the frames, and is clamped at 0: with sampling it
   shows no loss where `summary.csv` does (`analyze_plot.py:475`).
3. The CLI fallback never reads a switch: `connect` passes a pair where a text is expected
   (`istax.py:371`).
4. Two entries of one switch confirm a link that the far end never reported (`topology.py:305`).
5. The network-wide envelope is the minimum of the limits that were reported, while its note promises
   that what fits it fits everywhere: no port read over the command line reports a cycle limit
   (`cnc.py:336`).

More differences are clear from the code and have no run of their own. The check after a point is
dropped (`run_measurement.sh:395`), so a point that lost gPTP while it was measured counts, although the
runbook says "never measured out of sync". A reanalysis can exit 0 where the live run exited 1: a switch
that never answered has no directory in `raw/`, and a neighbour's LLDP vouches for it (`cli.py:358`). A
firmware that refuses the switch-wide form of a command and answers the per-interface one is recorded as
without the feature, while its ports show it (`cli_record.py:66`). A partial PTP table next to a lost
interface row gives PTP state to the wrong interface in silence, which a comment calls "worse than leaving
it unattributed" (`ptp.py:479-481`). A switch counts as supporting PTP when all its PTP replies were lost
(`cli_record.py:86-89`), and as supporting Qav by the generic `show qos interface` (`cli_record.py:95-99`). A
listener that a killed run left at work shares its file with the next run's (`run_measurement.sh:362`).

## 5. Proofs

Every invariant that a passing run checks is also a theorem: it then holds for every value of the
constants that the assumptions of its module allow, whatever the number of points, frames, targets, cables,
interfaces, commands or rows. The refinement of the ledger is a theorem as well. Each follows the
same argument: an invariant that is inductive (one lemma per component, with one step per action),
and a short proof that it implies the property. The inductive invariants are:

`CampaignProofs` and `CampaignRunProofs`. `QosInv`: PC1 is already configured when PC2's turn comes, and
both are until the next point (`StreamUnderQos`). `LockInv`: between the check and `meta.json` the
remembered observation is a locked one (`MeasuredInLock`). `TravInv`: unless its `tsn_rx` failed, the
preflight's file holds no frames when they are sent, and afterwards only if they came through
(`PreflightHonest`). `LeftoverInv`: a listener that is not of this run was at work when it started; with
`NoForgetting`, what went wrong in a run stays in its history, it gives `StaleInv`: from the moment the
listener of this point was started, its file is accounted for (`RxNotStale`). `DecideInv`:
exactly the points before the current one are decided; with `NextIsSuccessor`, nothing lies between a
point and the next, it gives the refinement `ImplementsLedger`. `WideInv`: the filter is wide from the
start of the listener, one step before the stream, to its end (`WideFilter`). `ReachedInv`: no file and no
listener of this run is of a point that it has not come to, which keeps a listener of an earlier run from
being taken for this one's; `CompleteInv`: while the point's listener runs, the session waits for it or was
dropped, so that when the script fetches the file only a leftover listener, or one whose session
dropped, can have it open (`RxComplete`). `MarksInv`: the marks are those of the points
measured, up to the two steps in which they are being set (`MarksComplete`).

Two of these theorems have a hypothesis on `Faults`, which is where the property really ends. `WideFilter`
needs that systemd does not restart `ptp4l` by itself: a restart narrows the filter under a running
`tsn_rx`. `MarksComplete` needs that no `iperf3` dies without any JSON, which leaves the shortfall unknown and
no mark. Each hypothesis is left out of `Faults` in the run of that property. All other theorems hold for
every set of faults.

`StreamProofs`. `StreamInv` joins: `StateType`; `StampInv`, a hardware report is of a timestamp the NIC
took, and it took it of a frame that `-N` selects (`RecordsAreHardware`); `CountInv`, frames on the wire,
received or lost are at most those that `tsn_tx` counted, and exactly as many while the listener was not
disturbed (`LossNotNegative`, `LossExact`); `SampleInv`, the sampled ones among them were counted as
requested (`SampleIsLarge`); `ArrivedInv`, what arrives was sent or copied, which bounds the counters of
`tsn_rx`; and `ListenInv`, an undisturbed listener keeps its filter and outlives the stream.

`DiscoveryProofs`. `AnswerInv` (`CleanRunAnswered`, `FallbackBeforeXml`, `ReplayFaithful`) joins: types
(`ThreadType`, `NextType`: a read is left whenever a worker collects); `RestInv`, no worker runs outside the
pool; `FallbackInv`, a target that has not answered has no directory; `CopyInv`, a directory holds exactly
the replies of its target while the disk can be written, and no more at any time; `RecordInv`, the
records are of the results or of the captures, and code 0 is the agreement of these records. `DocInv`
(`PublishedWhole`): the documents before the next one are of this run, and the run is recorded as whole
when it publishes. `TypeInv` (`TypeOK`) adds the files and the records: a name has a last target, so that
its record is a result. Targets with equal names are excluded by `DistinctNames` inside the properties:
`--switch` does not enforce it.

`TopologyProofs`. `TopologyInv` says what the builder holds as a function of the entries taken so far,
without their order: the links of LLDP are those of the entries (`LinkInv`), one is confirmed exactly if
two entries give it (`ConfirmInv`), its quality is that of one of them (`HowInv`), the attachments are
those of unclaimed ports (`FdbInv`), and nodes and unresolved entries are theirs (`NodeInv`). `OrderFree` is
this invariant at the end. The properties that compare with the cables rest on three lemmas: `FarEnds`, the
other end of an end's other end is itself; `Resolved`, an entry is resolved to the device at its far end, or
by vendor prefix to a listed one, or not at all; `EndOfLink`, a switch port in a link is where the entry
was or the other end of its cable, unless the vendor prefix decided.

`CncProofs` (with `OrderedProofs`). `CncInv` is plain: a record is what the code makes of its case, and
the document what it makes of the records. What takes an argument is that the operators are right for
every case. `InOrderLists` and `TableRows`: rows of an interface table that lost none, or only its last ones,
are at the position that is their number, and a table that lost a row is shorter than the number of the last
port, whose PTP row then has no name and is warned of. Hence `PortsAreInterfaces`: where the numbers tell
and without a warning, every port with a state is one of the table under its own name
(`PtpAttributed`). `OneStands` and `EntryOfInterface`: of the rows
of one port the last stands in all three models, and it is what the hardware says (`SafeInEveryModel`).
`SamePorts` and `MoreIsSafe`: a verdict that is safe with a part of the clock's data is safe with all of
it (`LosingAReadIsSafe`). `CliPortRead` and `CliGate`: what the command line makes of a port
(`SameOverTransports`, `FaultyScheduleTold`). `AcceptedIsEvidence` and `FeatureEvidence`: a record
claims a feature only with a command that needs it, switch-wide or per interface, or with a module, but for
Qav and PTP over the command line (`SupportEvidenced`).

`CliProofs`. `SessionInv` joins: `TypeInv`, where text is made of rows that the switch has, so that an
interface read from a table is one of the switch; `AskedOnce` and `PortsAfterAll`, a command that is still
to be run has not been captured, because an interface that is still to be asked has neither a capture nor
a command (`TypeOK`); `KeyedAtPager`, a key is pending only at a pager. `QuietInv` says where a command
typed on a quiet line has got to (`Answered`): `Typed`, not read by the switch; `Flowing`, what has arrived
and what is to come are its answer in two pieces (`Cut`), and it has not passed the pager; or `Resumed`, the
pager was answered once, and they are the answer without the pager's prompt, of which the second half had
arrived (`d = 2`) or had not (`d = 1`). When the prompt is there, all has been read (`AllIsRead`), and the
text follows in three cases: `UnpagedText`; `WholePrompt`, the erase run is taken out and the rows remain;
`HalfPrompt`, the count is of the indented rows alone, and can be 1 only by `Coincidence`. `RefusalSeen` and
`NoErrorSeen` are the two directions of "unsupported". The positions kept are listed with `InOrder`, and
`InOrderIs` (`OrderedProofs`) says that what ascends over a set is that list. Assumed of the tables of
commands is that each has its keys once and that none is the pager's.

Where a proof needs the least element of a set of numbers, or the last target of a name, it takes it from
the well-ordering of the naturals (`WFMin` of the library): a proof by induction over the data is out of
reach, since the provers cannot instantiate the library's induction theorems.

Only model-checked: all liveness (`RunEnds` of the campaign and of the discovery, `TxEnds`,
`CollectEnds`), which needs fairness and `ENABLED`, both out of the prover's reach.

## 6. Not modelled

Node preparation is left for a `NodeSetup` module (2). Rendering and the fixture generators change no
state and decide nothing. In the analysis, statistics and figures other than the loss are data only. Of
the command-line parsers, VLANs, the MAC table, the text of LLDP and the cross-checks of the bridge
address are left out: they are the inputs of `Topology`. So are, of the PTP record, the data sets of
the clock, which are renamed unchanged, and the servo and time properties, which decide nothing; of
NETCONF, system data, VLANs and filtering entries, and how a module name is matched.

Hazards without a property are listed with their reason in `PROJECT.json`: among them a reused
`--run-id`, `--switch` with a subset of the inventory, switches that share a name or announce a default
host name, and a point without any received row. The capture of a command that is typed while an earlier
one is still being answered may hold foreign text without a note; `CaptureTold` is about commands typed
on a quiet line.
