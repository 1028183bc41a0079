# TLA+ verification of google-misc

This directory holds TLA+ models of the daemons of `google-misc`, the TLC
configurations that model-check them on small instances, and proofs that the
TLA+ proof system (TLAPS) checks for every value of the constants.

The repository is a collection of independent BMC programs under
`src/subprojects/`. All that keep state or take several steps are modelled. Two
have most of the control logic: **ncsid**, the daemon that configures a NIC over
NC-SI and keeps the connection alive, and **libcr51sign**, which decides whether
a firmware image may be installed. The others are small programs with one or two
hazards each: two threads, an edge-triggered listener, a debounce timer, an
order of register writes.

`PROJECT.json` lists the components, the TLC runs, the lines of code every
definition stands for, the mutated definitions that show each property can be
broken by a bug, the hazards of the code, the findings and the theorems.

## 1. Inventory

### ncsid

| Part | State | Operations | Correct when |
|---|---|---|---|
| NC-SI client (`ncsi_client.c`, `ncsi.h`) | none | build a command, validate a response | only a response to the awaited command is taken as its acknowledgement |
| L2 state machine (`ncsi_fsm_poll_l2_config`) | `l2_config_state`, `channel_count`, `restart_delay_count`; `enabled`, `pending_stop`, `pending_restart`, `loopback`, `mlx_legacy_hw` | clear, probe, reset or configure every channel, one command per poll | it ends only after every channel was cleared, given its MAC filter and enabled |
| L3/L4 state machine (`ncsi_fsm_poll_l3l4_config`) | `l3l4_config_state`, `l3l4_channel`, `l3l4_waiting_response` | install the OEM filter on each channel | configured means every filter was acknowledged |
| Test state machine (`ncsi_fsm_poll_test`) | `test_state`, `flowsteering`, `ch_under_test`, `tries` | echo, check filters, statistics, link status; retry; end | a lost filter or a dead NIC is noticed, a lost packet is survived, the mode is sampled from the right channel |
| `ncsi::StateMachine` (`ncsi_state_machine.cpp`) | `hostless_`, `link_up_`, `ncsi_buf_`, the two structures above | `run()`: receive, poll, apply side effects, write | the machine that the connection state calls for is polled; errors and mode changes are reported |
| `net::PhosphorConfig` (`net_config.cpp`) | cached MAC address, last mode, interface flags, a networkd drop-in file | `get_mac_addr`, `set_mac_addr`, `set_nic_hostless` | address and mode on the BMC follow what ncsid was told, also when an ioctl or a D-Bus call fails |
| socket (`net_sockio.cpp`, `ncsi_sockio.cpp`, `net_iface.cpp`) | file descriptors, interface index | open, bind, filter, read with a timeout, write | I/O only |
| `ncsid.cpp`, `normalize_ip.c`, `normalize_mac.c`, `ncsi_server.c` | none | start-up, command-line conversions, response builders for tests | pure |

The parts are one thread and one loop: `run()` receives a packet or times out,
computes the connection state from the three machines, polls one of them with
the buffer, and writes the command the poll left there. Everything hard about
ncsid is between that loop and the NIC: answers arrive late, get lost or are
malformed, retries change the channel under test, responses are matched by
type and size only, the NIC may be reset, lose its filters or change mode, and
the daemon may be restarted while the NIC keeps what it was told.

### The other programs

| Program | State | Hard behaviour | Correct when |
|---|---|---|---|
| `libcr51sign` | `ctx->validation_state`, the descriptor read last, the blob offset, the stored minimum acceptable update version (MAUV) | several descriptor candidates in one image, failures between validating and storing | only an image whose descriptor and regions verify is VALID; over a sequence of updates the stored MAUV record is replaced only by a newer one of an image that it allows, and only by the record of the image that verified |
| `nemora-postd` | the vector of POST codes under a mutex, the datagram under construction | a D-Bus thread and a sending thread; a send or a read of the address that fails; pauses of 20 s | a code is sent to a collector at most once and in order, and none vanishes between the threads |
| `bare-metal-host-monitor` | a 100 ms timer, outstanding property reads, a systemd target | bursts of changes, a handler that can no longer be cancelled, answers that arrive after another change | once the host settles in reset the target is stopped; a host that runs from the start finds it started |
| `dhcp-done`, `update-dhcp-status` | a status file, a listening socket | the file is replaced while it is served; a listener that is polled edge-triggered | a client receives one whole status, current since it connected; no client is left waiting |
| `metrics-ipmi-blobs` | a snapshot per session with a string table | two metrics share the table and are read one after the other; processes beyond `topN` share a row | a reader of the blob gives every row the right command line; nothing is lost or counted twice |
| `acpi-power-state-daemon` | the D-Bus property | a failed StartUnit | the property shows the state whose target was started |
| `espi-control` | two registers | the host watches between any two writes; the program may be killed | the host loses no channel before the last write, which takes all |
| `hello` | none | none | |

The programs do not call each other. `ncsid` changes the address of the BMC's
interface, which `nemora-postd` reads for its datagrams.

## 2. Modules

| Module | Models | Source |
|---|---|---|
| `NcsiClient` | packets, requests, response validation | `ncsi_client.c`, `ncsi.h` |
| `NcsiFsm` | the three state machines, one action per poll function | `ncsi_fsm.c`, `ncsi_fsm.h` |
| `NcsiStateMachine` | the loop, the error report, the effects on `net_config_`; the wire is an adversary | `ncsi_state_machine.cpp` |
| `NcsiConnection` | the abstract specification: what the daemon promises about the connection | |
| `NcsidSystem` | the loop, both directions of the wire and a NIC | `ncsi_sockio.cpp`, `ncsid.cpp`; the NIC as `test/nic_mock.cpp` answers |
| `MCNcsiStateMachine`, `MCNcsidSystem` | small instances for TLC | |
| `NcsiStateMachine_proofs` | theorems about `NcsiStateMachine` | |
| `Cr51Sign` | one call of `libcr51sign_validate()` after another, one action per check that may fail | `libcr51sign.c`, `libcr51sign_mauv.c` |
| `Cr51Verdict` | what a chain of checks returns; the one verdict on the regions | `libcr51sign.c`, `libcr51sign.h` |
| `MauvStore` | the abstract specification: what a board promises about the record it keeps | |
| `MCCr51Sign` | small instances for TLC | |
| `Cr51Sign_proofs` | theorems about `Cr51Sign` | |
| `NcsiConnection_proofs` | theorems about what the loop does over time, and that it implements `NcsiConnection` | |
| `NcsidSystem_proofs` | theorems about the loop with the wire and the NIC | |
| `PhosphorConfig`, `PhosphorConfig_proofs` | `set_mac_addr()` call by call, `set_nic_hostless()` | `net_config.cpp`, `ncsi_state_machine.cpp` |
| `RegionCall` | the abstract specification: the call of `validate_payload_regions()` as `Cr51Sign` takes it | |
| `Cr51Regions`, `Cr51Regions_proofs` | `validate_payload_regions()` and `read_and_hash_update()` byte for byte | `libcr51sign.c` |
| `PostCodes`, `PostCodes_proofs` | `nemora-postd` | `nemora.cpp`, `host_manager.cpp`, `socket_manager.cpp` |
| `HostMonitor` | `bare-metal-host-monitor` | `host_gpio_monitor.cpp` |
| `DhcpDone` | `dhcp-done` and `update-dhcp-status` | `dhcp-done.cpp`, `file-io.cpp`, `update-dhcp-status.cpp` |
| `EspiControl` | `espi-control` | `npcm7xx_espi_control.cpp` |
| `AcpiPowerState` | `acpi-power-state-daemon` | `acpi_power_state.cpp` |
| `MetricBlobs` | the metrics of `metrics-ipmi-blobs` that name processes | `metric.cpp`, `handler.cpp` |
| `BmcPrograms_proofs` | theorems about the five modules above | |
| `MCBmcPrograms` | small instances of the eight small modules for TLC | |

`NcsiFsm` extends `NcsiClient`, `NcsiStateMachine` extends `NcsiFsm`,
`NcsidSystem` extends `NcsiStateMachine`; `NcsiStateMachine` instantiates
`NcsiConnection` under a refinement mapping. `Cr51Sign` extends `MauvStore`,
whose variable, the record the board keeps, is one of its own; the refinement
mapping is the identity. What `Cr51Sign` takes as one verdict
(`RegionVerdict` of `Cr51Verdict`, which both extend) is the call that
`Cr51Regions` takes apart: `RegionCall` gives that verdict on a candidate whose
failing check is read off the bytes of its regions, `Cr51Regions` extends it, with
the arguments and the verdict as common variables, and implements it. What
`NcsiStateMachine` takes as one step of `set_mac_addr()`, after which the
address is the old or the new one, is what `PhosphorConfig` takes apart
(`MovesOnlyToRequested` is the fact the former relies on).

The small programs share no state, so one MC module, `MCBmcPrograms`, extends
all of them, and a behaviour of it is one of a single program, which the
variable `who` selects at the start. `PhosphorConfig` comes in twice, as
"address" and as "mode", since its two functions share no state either.

### ncsid

**State.** The variables of `NcsiFsm` have the names of the fields of
`ncsi_state_t` and `network_debug_t`. The L2 and test states are numbers, in
the order of the C enums, because the code steps through them by `++` and by
`GO_TO_NEXT_CHANNEL`, which is where a step may be one too many. `tx` is the
content of the buffer after a poll (`NoRequest` for length 0) and `response`
the verdict of the poll. `acked`, `received` and `retries` are history
variables: they are never read by an action.

**Data.** A packet keeps the fields the machines look at. Whatever is wrong
with a packet is its `fault`: too short, a NACK, another size, a malformed OEM
header. A response to the wrong OEM command differs in size only, which is how
the code tells them apart; the channel and the instance id are not validated by
the code, so the models carry the channel but `ValidateResponse` does not look
at it. `flag` is the one bit each other response is read for.

**Actions.** `PollL2Config`, `PollL3L4Config` and `PollTest` each stand for a
whole poll: validating, stepping, failing (`ClearState` of all three machines),
retrying and sending the next command. A round of the loop (`L2Round`,
`TestRound`, `L3L4Round`, `DisabledRound`) is a poll together with
`ReportNcsiError` or the branches of `poll_simple()`. `set_mac_addr()` may fail
and its result is ignored, so `PollL2` leaves the address either way.

**Undefined values.** `reset()` sets neither `network_debug_.ncsi.mlx_legacy`
nor `test.tries`; `Init` lets both be anything (`InitialTries` bounds the
latter).

**Owner requests.** In ncsid nothing sets `pending_stop`, and
`pending_restart` only once, by the constructor. The portable library serves
both, so `OwnerRequests` is `{}` in the runs of the system and `{"stop", "restart"}`
in the run of the loop, which has the daemon's behaviours among its own: a
request may always be left out.

**The NIC.** `NcsidSystem` answers one command at a time, in order, as the
mock of the unit tests does. `TimeoutRound` with an answer outstanding is a
late answer; `LoseCommand` and `LoseAnswer` drop a packet; `NicWipe` makes one
channel forget its filter; `NicSwitch` changes between hostless and hostful
mode. `SystemInit` chooses how many channels the NIC has and lets
it hold the filters of an earlier life of the daemon.

### libcr51sign

**State.** `pc` names the part of `libcr51sign_validate()` that comes next;
`validation_state`, `descriptor`, `descriptor_offset`, `payload_blob_offset`,
`rv_first_desc` and `rv` are the context's and the function's variables of those
names, and `stored` is the record that the client's hooks retrieve and store.
`before` and `faulty` are history variables.

**Data.** An image is a sequence of blocks, one for each multiple of
`DESCRIPTOR_ALIGNMENT`; its range is taken as aligned and not empty, and the
read hook as supplied. Of a descriptor a block keeps the first check it fails
(`fails`, an element of `Reason`), its type, who trusts it (`vouched`: the hash,
the key in the signature structure, the key ring), and its blob. An offset is
the number of a block. A MAUV record (`Mauv`) has numeric fields for the
comparisons and `wellformed` for the checks of its structure and size.

**Actions.** `ScanBlock` is a turn of the loop of `scan_for_magic_8()`;
`ValidateDescriptor` and `ValidateRegions` are the two validations, each with
any of its reads failing. A validation is a list of checks in the order of the
code, of which `FirstFailure` takes the first that fails. `FindPayloadMauv`,
`CheckStoredMauv` and `Store` are the parts of `validate_payload_image_mauv()`,
with their failures as actions beside them. `Reject` is the end of the `while`
loop, `Return` every other way out.

**Environment.** `Call` brings any of the `Images` with any of the
`Interfaces`, that is, any set of hooks. `Drop` ends a finished call and stands
for a loss of power in an unfinished one: only `stored` survives. The store hook
replaces the whole record or fails and leaves it; the repository holds no
implementation of it.

**Regions.** `Cr51Regions` stands for one call of `validate_payload_regions()`
over any region array that `validate_descriptor()` lets through: a region is an
offset, a size and whether it is static, a byte is its place in flash.
`CheckRegion` is a turn of the loop of checks, `StartPiece` decides which piece
of a region is hashed next, `HashChunk` is a turn of the loop of
`read_and_hash_update()`, and `ChunkFails` a read or hash that fails. Sizes are
`uint32_t` (`Sub` wraps). `hashed` collects the bytes the digest covers, and
`FinishHash` compares them with those the signer took (`signed`).

`RegionCall` says the same of one step. Its array is proper if it tiles the image
and the region the descriptor begins in is static and holds its area
(`ProperArray`); the bytes to be signed are those of the static regions less that
area (`SignedBytes`). The first of the three checks that fails gives the verdict,
unless a read fails before it.

### PhosphorConfig

One action per kernel call of `set_mac_addr()`, each of which may fail:
`WriteNetfile` (the drop-in file, which may be left torn), `SetDirectly`,
`ReadFlags`, `BringDown`, `SetWhileDown`, `BringUp`. Whether the interface
accepts an address while it is up is left open, since that depends on the
driver. `SampleMode` is the branch of
`poll_simple()` with `set_nic_hostless()` in it: `StartUnit`, whose reply came,
or `StartUnitFails`, where the blocking call threw before or after systemd had
accepted the job; `start_failed` records it. `RestartDaemon` may cut a call
off anywhere; `NetworkManager` may apply the drop-in file and raise or lower the
interface in between. `shared_host_mac`, `was_nic_hostless` and `reported_mode`
are the members of those names (the last one `StateMachine::hostless_`).

### nemora-postd

`HandleSignal` is the D-Bus thread; `Drain`, `UpdateEventData`, `OpenSocket`,
`SendV6`, `SendV4` and `WakeUp` are the sending thread, each a step between
which the other thread runs. The mutex makes `HandleSignal` and `Drain` atomic.
A POST code is known by its place in the order of emission. When the address
cannot be read its value is what the stack held, which the model leaves open
(any address).

### bare-metal-host-monitor

The main program installs the check of the start-up, then the match, then runs
the loop. Calls of `Get` are answered in order by the service that owns the
property (`AnswerGet`), with the state at that time. `ExpireTimer` and
`CheckEvent` are the two halves of an asynchronous timer: once it has expired,
its handler is queued and can no longer be cancelled. `ActivateTarget` is
whoever else starts the target.

### dhcp-done

The writer is a temporary file and a rename (`OpenWriter`, `CommitWriter`,
`KillWriter`); the daemon is a callback per edge (`Callback`) and the loop in it
(`Accept`, `Serve`). `FailDhcpDone` is an exception that leaves the event loop.
One writer is modelled at a time, besides `ExecStartPre`: each has a temporary
file of a name of its own, so several at once give the file the same histories.
`held` records what the file held since a client connected.

### espi-control, acpi-power-state-daemon

Every access of `espi-control` to a register is an action; the host sets and
clears its own bits at any time. `Ready` is how the registers make a channel
ready, as the program's comments tell. A channel the host enables after the
program has read its bits is not in `promised`: the copy it writes back is older
than that. `SysACPIStatus` is the setter of the property, with StartUnit failing
before or after systemd accepted the job.

### metrics-ipmi-blobs

`ReadProc` takes what was read from /proc as any list of processes, sorted as
the code sorts it; `AddEntry` is a turn of the loop that makes the rows and
`FinishMetric` its end, for each of the two metrics in the order of `doWork()`;
`GetStringID` is the shared table; `Encode` fixes the order of the table.

## 3. What TLC checks

| Run | Specification | Question | States |
|---|---|---|---|
| `state_machine` | `FairSpec`, stop and restart requests | Do the three machines stay consistent, whatever packets arrive? Does the loop implement `NcsiConnection`? Is a stop a reset of every channel, is a restart served, does the daemon keep talking? Is the invariant of the proofs true in every reachable state? | 43 thousand |
| `system` | `SystemSpec`, two channels, up to 11 late answers and a lost packet | Can a late answer be mistaken for another? | 2.8 million |
| `recovery` | `FairSystemSpec`, one or two channels, late answers, a loss, a mode change, a wiped filter | Does the connection end up configured and the mode reported? | 353 thousand |
| `cr51_search` | `FairSpec`, every failing check, read and missing hook | Is the right candidate used and the right reason reported? Does the search end? | 608 thousand |
| `cr51_updates` | `Spec`, sequences of updates with every record | Does the record of the board change only as `MauvStore` allows? Is the invariant of the proofs true in every reachable state? | 684 thousand |
| `bmc_programs` | `McSpec`, one small program per behaviour | Does each small program keep its promise, whatever fails, is killed or comes in between? Are the invariants of its proofs true in every reachable state? | 242 thousand |
| `uninitialised_tries`, `undersized_response`, `filter_mismatch`, `stale_sample`, `wiped_filter`, `cr51_blob_offset` | | Statements of comments and messages that the code does not live up to (section 6) | |

The properties:

- `AwaitsLastRequest`, `NoTrafficToAbsentChannel`: consistency of three machines
  that share a buffer and are reset together.
- `IInv` (of the loop): the inductive invariant of the proofs. Among its
  conjuncts are the type invariant, `FsmsRestartTogether` (a failure of one
  machine restarts all three), `LoopbackOnlyWhileSilent` and
  `ReportedModeIsCurrent` (L3/L4 configuration never starts on the mode of an
  earlier connection).
- `UpMeansAcknowledged`: the connection is `UP` only after every reported
  channel was cleared, given its filter and enabled since the last restart, and
  `UP_AND_CONFIGURED` only after every `SET_FILTER` was acknowledged.
- `TornDownAfterAllTries` (an action property): a configured connection is
  given up only after `MaxTries` failures in a row or on request.
- `StopsOnlyAfterReset` (an action property): the machine disables itself only
  after every channel acknowledged its reset.
- `ImplementsConnection`: refinement of the abstract connection.
- `KeepsTalking`, `RestartServed`: liveness of the loop against an adversary.
- `ConfiguredMeansInstalled`, `TestEndsInSync`, `HostlessOnlyIfSo`: the state of
  the daemon and that of the NIC agree, although neither the channel nor the
  instance id of a response is looked at. The first two say how many late and
  lost packets that takes.
- `EventuallyConfigured`, `EventuallyReported`: once faults cease, the NIC ends
  up configured and its mode reported. On two channels a wiped filter is not
  among these faults (section 6). Reported is what is passed to
  `set_nic_hostless()`; what becomes of it is a matter of `PhosphorConfig`.
- `FirstVerifiedDecides`, `FirstFailureReported`: of several candidates in an
  image the first that verifies decides; if there is none, the reason of the
  first is reported.
- `RefusedLeavesRecord`: a call that fails, at whatever step, leaves the board's
  record alone, although the context may already say VALID.
- `AcceptedIsAllowed`: an accepted production image carries a record, and the
  record the board then keeps allows it.
- `StoresOwnMauv` (an action property): the record stored is that of the
  candidate that verified, although the offset of the blob is that of the
  candidate located last.
- `ImplementsMauvStore`: refinement of the abstract record. The minimum version
  may go down: a newer record replaces an older one whatever its minimum.
- `IInv` (of `Cr51Sign`): its inductive invariant, with the type invariant.
- `CallEnds`: a call returns.
- `ImplementsRegionCall`: refinement of the one verdict that `Cr51Sign` takes. An
  array with a gap, an overlap or a descriptor in a region that is not static is
  refused and never hashed (one in no region at all: section 6), a proper one never refused; the digest counts for the
  bytes it was made for and for no others; and a failing read is never taken for a
  bad image, or the reverse.
- `DigestCovers`: what is compared with the digest covers every byte of the
  static regions outside the descriptor's area and no other (`HashedExactly`),
  each once and in order (`HashedOnceInOrder`). The reference definition is a set
  of bytes; the code has a loop over chunks, in a loop over pieces, in a loop
  over regions.
- `HashingEnds`: the loops end, whichever piece is empty.
- `SuccessMeansAddress`: a call of `set_mac_addr()` that returns 0 left the
  address on the interface, although the code compares it with a cached one.
- `AddressPersisted`, `MovesOnlyToRequested` (action properties): the interface
  takes an address only after the drop-in file names it; no step makes a third
  address visible, whichever steps fail.
- `NcIInv`: the inductive invariant; with it, a successful call keeps the flags
  of the interface (`FlagsSurvive`), and the target started last is that of the
  reported mode, unless StartUnit failed since the last one that returned
  (`ModeApplied`): until then `was_nic_hostless` and `reported_mode` agree.
- `NoCodeVanishes`, `SentOnceInOrder`, `CodesSettle`, `PostIInv`: a POST code is
  sent to a collector at most once and in order; every emitted code is somewhere
  on its way, sent or known to be lost; it does not stay on its way; and the
  address in a datagram is one of its own round if it was read.
- `TargetFollowsHost`: both halves of what the host monitor is for
  (`StoppedInReset`, `StartedIfRunning`), once the host and the calls behave.
- `StartupAnsweredFirst`: the answer to the check of the start-up is handled
  before that to any event, so that a target stopped because of a reset is not
  started again by an older reading.
- `AnswerIsAStatus`, `EveryClientLeaves`: what a client of dhcp-done receives,
  and that it receives something.
- `OffInOneStep`: the host loses no channel before the last register write
  (`ReadyUntilTheEnd`), and a completed run leaves none ready
  (`DisabledMeansOff`).
- `StatusMatchesTarget`: the ACPI property and the target agree.
- `BlobSaysWhatWasRead`: every row decodes to the command line of its process
  (`RowsDecode`), totals are kept (`TotalsConserved`), and the rows of their own
  are those of the processes that use most (`TopRowsShown`).

### Bounds, and why they are enough

- `RestartDelay` is 2 or 3 (100 in the code). It only counts polls before a
  retry of a silent NIC; with 3 the counter is seen below, at and reset from the
  limit.
- `MaxTries` is 3 in the loop's runs (5 in the code): a first, a middle and a
  last try. The proofs cover every value. `system` uses the real 5, since what
  late answers can do depends on how often a test may be retried before
  everything restarts; `MaxLate = 11` is two full rounds of retries.
- How far out of step the wire can get depends on the number of late rounds, and
  a lost packet counts as three. `TestEndsInSync` speaks of less than 12, and
  `MaxLate = 11` is all of them; `ConfiguredMeansInstalled` speaks of less than 35
  (or of any number, if nothing is lost and the NIC has done what it was told),
  of which the run sees the first third. Both are proved for every number
  (section 4), which is where 12 = 3 * 4 and 35 = 3 * 11 + 2 come from. They are
  not the least: with larger bounds TLC finds a test that ends with the answers to
  a whole test still under way after 21 late rounds, and on one channel, in a
  search guided towards it, an acknowledgement of an earlier `SET_FILTER` taken
  for the own one after some 130. Those runs take too long to be kept.
  `HostlessOnlyIfSo` does not depend on the number.
- One MAC address in `state_machine`, none of whose properties is about
  addresses: a filter either has it or not. Two in the runs of the system. Two channels are all the code
  supports. `GET_CAPABILITIES` answers 0 to 3 channels, below and above what is
  accepted.
- `InitialTries = {0, 254}`: the value after a reset of memory and one from
  which the `uint8_t` arithmetic wraps.
- `MaxLost`, `MaxWipes`, `MaxSwitches` are 0 or 1. They bound how much goes
  wrong in a behaviour, and so say that faults cease, which the liveness
  properties need.
- `bmc_programs`: three POST codes with at most two signals under way, so that
  codes are on the connection, in the vector and in the datagram at once; three
  host changes, which is a burst with a change in both directions; two clients,
  so that one connects while the other is served; two eSPI channels, one enabled
  by the host and one not; three addresses, so that a third one would show; one
  failed call or restart (`MaxMonitorFaults`, `MaxDhcpFaults`; in the other
  programs failures and restarts are not bounded).
- Region arrays of one to three regions over six units of flash with `Align = 2`
  and `Chunk = 2`: a descriptor at the first or last byte of a region, a region
  that is empty, not aligned, smaller than, as large as and larger than a chunk,
  a gap and an overlap. A digest has its magic or not, and is that of the bytes
  it should be, of all static bytes, or of none. `Word = 16` is the
  width at which sizes wrap. The proofs cover all of them.
- Up to three processes with `TopN = 1` (10 in the code): as many as `topN`, one
  more, two more and none; three command lines, one of them "(Others)"; amounts
  of 0 and 1, so that there are ties.
- `cr51_search`: images of up to three blocks, each check of `Reason` failing in
  a block with and without a blob, followed by any of five kinds of block. Three candidates are a first, a middle and a
  last one. One version suffices, since records are not compared in this run.
- `cr51_updates`: versions 0 to 2 and timestamps 1 and 2, with every minimum and
  every denylist of at most one version: 0 is the version a record may not have,
  and with 1 and 2 a version is below, at and above a minimum. All records occur
  in every order, without a bound on the number of updates, and so does an image
  without a record behind a rejected candidate with one.

### Fairness

`run()` is an infinite loop with a receive timeout, so a round is always taken
eventually: weak fairness of `RunRound` and of `LoopRound`. The NIC is a server
that answers what it receives: weak fairness of `NicAnswer`. Nothing is assumed
about losses, late answers, wipes, mode changes or requests, which may never
happen. In the runs of the loop alone the wire is an adversary without
fairness: it may stay silent for ever. `libcr51sign_validate()` is one thread
of straight-line code and a loop that nothing else stops: weak fairness of
`Step`, and of `RgNext` for the regions. In the small programs the two threads
of `nemora-postd` are scheduled (weak fairness of `HandleSignal` and of
`UdpPoll`, whose sends do not wait), the event loops of the host monitor and of
dhcp-done run (`HmStep`, `DhcpStep`), and the service that owns the host's state
answers what it was asked (`AnswerGet`). Nothing is assumed of the host, of
writers, of clients or of failures.

## 4. What is proved

`NcsiStateMachine_proofs` proves, for every set of addresses, every
`RestartDelay`, `MaxTries` and `InitialTries` in the width of a `uint8_t`,
every set of packets the wire may deliver and every set of owner requests:

| Theorem | Statement |
|---|---|
| `Invariance` | `Spec => []IInv` |
| `TypeCorrect` | `Spec => []TypeOK` |
| `RestartTogether` | `Spec => []FsmsRestartTogether` |
| `AwaitsCorrect` | `Spec => []AwaitsLastRequest` |
| `ChannelSafety` | `Spec => []NoTrafficToAbsentChannel` |
| `LoopbackSafety` | `Spec => []LoopbackOnlyWhileSilent` |
| `ModeSafety` | `Spec => []ReportedModeIsCurrent` |
| `HandshakeComplete` | `Spec => []UpMeansAcknowledged` |

`NcsiConnection_proofs` and `NcsidSystem_proofs` continue from there:

| Theorem | Statement |
|---|---|
| `ConnInvariance` | `Spec => []ConnInv` |
| `StopAfterReset` | `Spec => StopsOnlyAfterReset` |
| `TearDownAfterAllTries` | `Spec => TornDownAfterAllTries` |
| `LoopImplementsConnection` | `Spec => ImplementsConnection` |
| `SystemRunsTheLoop` | `SystemSpec => Spec /\ [](IInv /\ WireTypeOK)`, if the wire of the loop may deliver what the NIC answers |
| `ReportedModeIsTheNics` | `SystemSpec => []HostlessOnlyIfSo`, under the same condition |
| `ConfiguredIsInstalled` | `SystemSpec => []ConfiguredMeansInstalled`, under the same condition |
| `TestsEndInSync` | `SystemSpec => []TestEndsInSync`, under the same condition |
| `SamplesAreOwn` | `SystemSpec => SampledInSync`, under the same condition |

Assumptions: the named `ASSUME`s of `NcsiClient` (`NoMac` is not an address),
`NcsiFsm` (the two limits are between 1 and 255) and `NcsiStateMachine` (the
sets of packets, initial tries and requests).

The properties are not inductive as they stand. That the handshake is complete
at the end needs that it is complete as far as the L2 machine has come
(`HandshakeSoFar`, `FiltersSoFar`), and that a step of three states over the
pair of an absent channel skips nothing else. That no command goes to an absent
channel needs that the machines never are in a state of the second channel when
there is one (`ChannelsExist`). That the mode is current during L3/L4
configuration needs that the test machine stands still meanwhile
(`L3L4BetweenTests`). `DisabledAtStart` keeps a disabled machine from holding
half a configuration. `IInv` is the conjunction of these and of the properties;
TLC checks it in the run `state_machine`.

The proof has one lemma per kind of step: an accepted L2 response, an L2 poll
that sends or waits, a failure (`L2ClearedKeeps`, `L3L4RejectedKeeps`,
`TestClearedKeeps`), a step of the L3/L4 machine, a step of the test machine, a
disabled round and a request. `RoundKeeps` combines them.

The refinement and the action properties need more than `IInv`, which says what
was acknowledged at least. `ConfirmedExactly` says which filters were, and no
others, so that every step of the L3/L4 machine is a step of `NcsiConnection`;
`ResetsSoFar` says what a machine on its way to the stop has reset;
`CountsAgree` says that on a configured connection `tries` counts what the
history variable `retries` counts, whatever `tries` was initialised to, because
no connection is configured before a test has succeeded; `DisabledWithoutLoopback`
says that a disabled machine reports no loopback. `ConnInv` adds these four.

`SystemRunsTheLoop` is itself a refinement: with well-typed queues (`WireTypeOK`)
every step of the system is a step of the loop or leaves its variables alone, so
that all theorems about the loop hold of the composed system. For the mode,
`ModeKnown` says that every answer to `GET_FILTER` under way carries the mode of
the NIC, and that what the daemon keeps of earlier ones does, as long as the NIC
never switched.

The last three theorems are about time and distance: whatever is on the wire is
told by how many commands were written after it (`Behind`). The invariant of the
first two, `WireInv`, has two sides:

- What it costs to be out of step. As long as the answer to one command is on its
  way, one more is written only after a round that waited in vain, one that
  started again and one that wrote, and all three are late. So
  `3 * (InFlight - 1) <= faults.late` (`LateRoundsPerCommand`, with what is left
  to do before the next command).
- What it takes to be mistaken. Between two `SET_FILTER`s the daemon writes the
  commands of the L2 configuration and of a test, eleven at least (`L2Sent`,
  `TestSent`), and between the ends of two tests the four of a test. So an older
  `SET_FILTER` or `GET_LINK_STATUS` is at least as far behind as the machines have
  come, but for what was lost (`OldFiltersFarBehind`, `OldTestsFarBehind`).

With fewer faults no older `SET_FILTER` can be in front, so the one on the wire is
the one just written (`OnlyOwnFilterOnWire`), its answer means that the NIC has
its filter (`OwnFilterIsRight`), and the filters of the channels done so far are
right (`FilterInstalledSoFar`). An answer that ends a test was the last thing
on the wire (`TestEndsInSync` itself).

For any number of late rounds without losses, `RightFilterLast` follows each
channel: the last `SET_FILTER` for it that is on its way, or the filter it has if
there is none, is the right one.

`SamplesAreOwn` says exactly when finding 4 of section 6 can happen.
`SampleFromRightChannel`, which says that it never does, is violated after eight
late rounds; `SampledInSync` says that with fewer it is not, whatever is lost.
Every `GET_FILTER` follows an `ECHO` of the same try, and answers come in the order
of the commands, so the `GET_FILTER` of an earlier try is in front when one is
awaited only if another `ECHO` in front of it was taken for that of this try
(`EchoBeforeSample`). Then an `ECHO`, a `GET_FILTER` and an `ECHO` were on the wire
together. `SampleInv` follows this order from try to try and counts what each of
the three has cost: four late rounds for the pair (`PairIsLate`), seven when the
second `ECHO` is written (`EchoIsLate`, `OldSampleIsLate`) and eight when the
second `GET_FILTER` is (`OnlyOwnSampleOnWire`). It needs `LateRoundsPerCommand`
of `WireInv` and no bound on losses, because a loss keeps the order and gives no
late round back. No run states `SampledInSync`: the theorem complements the
run `stale_sample`, and TLC agreed with it and with `SampleInv` for up to nine late
rounds and two losses.

Every kind of round is seen from the wire once (`RoundEffect`: what it writes, what
it consumes and how the counts move; `L2OnWire`, `L3L4OnWire`, `TestOnWire`,
`DisabledOnWire`); the steps of the invariant use nothing else of the machines.

`Cr51Sign_proofs` proves, for every set of images, whatever their length, every
set of interfaces, all versions and timestamps, whichever reads fail and
whenever power is lost:

| Theorem | Statement |
|---|---|
| `SignInvariance` | `Spec => []IInv` |
| `RefusalHarmless` | `Spec => []RefusedLeavesRecord` |
| `AcceptanceAllowed` | `Spec => []AcceptedIsAllowed` |
| `OwnRecordStored` | `Spec => StoresOwnMauv` |
| `RecordRefinement` | `Spec => ImplementsMauvStore` |
| `FirstVerified` | `Spec => []FirstVerifiedDecides` |
| `FirstReason` | `Spec => []FirstFailureReported` |

Assumptions: versions and timestamps are natural numbers, `NoMauv` is not a
record (`MauvStore`), images are non-empty sequences of blocks and interfaces
are sets of hooks (`Cr51Sign`).

Its `IInv` says what each part of the call knows: a candidate whose regions are
looked at has a verified descriptor and, if it has a blob, is the one the blob
offset points into; a payload's record is usable and the candidate's own; a
record about to be stored was allowed and is newer; and until it is stored the
board keeps what it had. The second of these is why a stale blob offset stores
nothing: the offset is stale only for a descriptor without a blob, whose size is
0 (`WalkedBlobIsOwn`). Lemmas say what the success of each chain of checks
implies (`TransitionSuccess`, `SignatureSuccess`, `DescriptorSuccess`,
`RegionSuccess`, `PayloadSuccess`, `MauvSuccess`), and there is one more for each
group of actions. The last two theorems have an invariant of their own,
`SearchInv`, about the candidates behind the one under way: none of them
verifies, and the reason kept is that of the first.

The proofs about the small programs hold for every value of the constants of
their modules, with `NetMacAssumption`, `PostAssumption`, `RegionAssumption`,
`DhcpAssumption`, `HostMonitorAssumption` and `MetricAssumption`:

| Module | Theorem | Statement |
|---|---|---|
| `PhosphorConfig_proofs` | `NcInvariance`, `NcSuccess`, `NcFlags`, `NcMode` | `NcSpec => []NcIInv`, and `[]SuccessMeansAddress`, `[]FlagsSurvive`, `[]ModeApplied` |
| | `NcPersisted`, `NcMovesOnly`, `NcNoRetrigger` | the action properties |
| `PostCodes_proofs` | `PostInvariance`, `PostNothingVanishes`, `PostSentOnceInOrder`, `PostAddress` | `PostSpec => []PostIInv`, and what follows from it |
| `Cr51Regions_proofs` | `RgInvariance`, `RgDigest` | `RgSpec => []RgIInv`, `[]DigestCovers` |
| | `RegionsImplementCall` | `RgSpec => ImplementsRegionCall` |
| `BmcPrograms_proofs` | `LastWriteTakesAll` | `EspiSpec => []OffInOneStep` |
| | `StatusIsNeverTorn` | `DhcpSpec => []AnswerIsAStatus` |
| | `StartupIsNeverLate` | `HmSpec => []StartupAnsweredFirst` |
| | `StatusIsTheTarget` | `AcpiSpec => []StatusMatchesTarget` |
| | `BlobIsTrue` | `MbSpec => []BlobSaysWhatWasRead` |

- `NcIInv`: where the call is tells what the drop-in file, the interface and the
  copy of the flags hold; a cached address is that of the interface while all is
  well; and the two copies of the mode agree with each other and with the target
  (`~start_failed`), which is what makes a call that starts nothing right.
- `PostIInv`: the codes in the wire, the batch, the vector and on the connection
  are ordered, each part before the next (`Ordered`); `NoCodeVanishes` is what
  bounds them by the number emitted.
- `RgIInv`: the regions seen tile the image from 0 (`Tiled`), one of them holds
  the area of the descriptor or none its first byte (`Located`); in the loops the
  bytes hashed are those of the static regions before the current place
  (`CoveredTo`), and the piece under way ends before the descriptor or with the
  region. A descriptor beyond the image makes a piece that goes beyond the flash
  (`PieceTooLong`), which cannot be read to its end.
- `RegionsImplementCall`: a return of the code is a step of `RegionCall`, and every
  other step leaves the arguments and the verdict alone. The loop compares each
  region with a running count, the abstract array is one in which every byte of
  the image is in a region and none in two; that they are the same takes two
  lemmas. An array the loop has gone through is proper (`CheckedIsProper`), and a
  proper one goes through (`ProperPasses`): a region behind the count would leave
  the byte at the count in no region. `VerdictPending` keeps the verdict for the
  return.
- eSPI: what was promised to the host is in the bits the program read, and after
  the copy in the core's bits (`PromiseCopied`).
- dhcp-done: the clients in the backlog and the one being served wait, and are
  different (`BacklogWaits`, `ServingWaits`); what the file holds is held for all
  that wait (`FileIsHeld`).
- host monitor: only the first call of `Get` belongs to the start-up, and once an
  answer is there, none under way does (`StartupGoesFirst`).
- ACPI daemon: `StatusMatchesTarget` is inductive as it stands.
- metrics: `MbIInv`. The table numbers its strings without gap or repetition
  (`TableNumbersStrings`), so that the encoding puts each at its number
  (`TableEncoded`), also when the second metric adds to the table of the first;
  each row names its entry, or "(Others)" (`RowsFollowEntries`); and what the loop
  has taken from the entries is in the rows or in the sum of the others
  (`RowsUnderWay`), so that a finished metric has all of it (`RowsComplete`). Rows
  of their own are the top ones because the entries are sorted throughout
  (`SortedThroughout`).

`SortedThroughout` and the lemmas about the sum of a list (`SumOf`, a recursive
function) are inductions over the length of a list. The induction theorems of the
library cannot be used (they take an operator), but a least counterexample can be
picked from a set: `LeastNumber` is `WFMin` for the order of the naturals, and the
step of each induction is that nothing is the least one. `SumsExist` is such an
induction over the existence of the table of sums, without which nothing would
be known of the recursive function; `SumsAgree` says that there is only one.

## 5. Only model-checked

Every invariant and every action property that the passing runs check, and the
three refinements, are proved. What is left to TLC is

- liveness (`KeepsTalking`, `RestartServed`, `EventuallyConfigured`,
  `EventuallyReported`, `CallEnds`, `HashingEnds`, `CodesSettle`,
  `EveryClientLeaves`, `TargetFollowsHost`): outside the prover's reach;
- the findings (section 6): a counterexample is a behaviour, which TLC shows.

## 6. Where code and comments disagree

1. `test.tries` is never initialised. `ncsi_fsm_retry_test()` computes
   `max_tries - 1 - tries` in a `uint8_t`; starting from a large value the first
   test is retried far more often than `MAX_TRIES`. (`uninitialised_tries`)
2. `report_ncsi_error()` tells a timeout from an undersized response by the
   length of the buffer, which the poll has already overwritten.
   (`undersized_response`)
3. `poll_simple()` looks at the type of the packet before the verdict, so the
   filter mismatch, which only an OEM response can yield, is never reported.
   (`filter_mismatch`)
4. Delays are said to flush late packets, but a retry starts at once. After
   enough late answers the filter sample of one channel is recorded for the
   other. It takes eight late rounds, and no fewer do (theorem `SamplesAreOwn`).
   (`stale_sample`)
5. A test that fails on one channel is retried on the other, which passes and
   resets the tries: on a NIC with two channels a filter lost by one is found
   again and again and never restored. (`wiped_filter`)
6. `validate_payload_image_mauv()` documents a blob offset of 0 for a descriptor
   without a blob, but `libcr51sign_validate()` keeps the offset of an earlier,
   rejected candidate. The MAUV check, which should be skipped, looks for a blob
   magic there and may refuse the image; nothing is stored from it.
   (`cr51_blob_offset`)

Remarks, met while modelling and not contradicted by any text:

- A failed StartUnit is not tried again: `poll_simple()` ignores the result of
  `set_nic_hostless()` and takes the mode as reported
  (`ncsi_state_machine.cpp:222`, `start_failed` in the model). Nor does the target
  follow when the mode goes back: after hostful applied, a hostless StartUnit that
  timed out although its job ran, and hostful again, `was_nic_hostless_` still
  says hostful, `set_nic_hostless()` returns 0 (`net_config.cpp:223`) and the
  hostless target stays the last one started. A further hostless sample starts it
  a second time in a row. So `ModeApplied`, `NoRetrigger` and the part of `NcIInv`
  about the mode hold while no StartUnit failed since the last one that returned.
- After a call of `set_mac_addr()` that failed in its last step the cached
  address is older than the interface's, and a later call for the cached address
  returns 0 without setting it (the condition `all_well`).
- `libcr51sign.c:343-361` keeps the descriptor in a static region only if it lies
  in a region at all: one beyond `image_size` is let through (last conjunct of
  `ProperArray`), and then fails as unreadable if the first region is static. The
  absolute offset of the descriptor is compared with offsets of regions.
- When dhcp-done is restarted after an exception, `ExecStartPre` writes "ongoing"
  over a status that may have been final.
- `host_gpio_monitor` asks for the state before its match is installed; a change
  in between is not seen, and a restart while the host is in reset leaves a
  running target alone (`hm_trouble`).
- What the second thread of `nemora-postd` drained is lost if both sends fail
  (`lost_codes`).

## 7. Not modelled

- `retest_delay_count`: `run_test_fsm()` overwrites it before every poll that
  reads it. The branch for `max_tries = 0`: `reset()` sets 5.
- Counters, passthrough statistics, the link state and all printing: nothing is
  decided by them.
- `oem_filter_disable` is constant FALSE in ncsid.
- A failing `get_mac_addr()` in the loop. `poll_l2_config()` and `poll_simple()`
  ignore its result (`ncsi_state_machine.cpp:142-143`, `180-181`) and go on with an
  uninitialised address; the loop takes the call to succeed and polls with the
  address of the BMC. The address is cached by the first read that succeeds, so a
  wrong one reaches a `SET_FILTER` only if reading fails in every round up to it
  since the cache was last empty.
- A packet on the wire that is neither NC-SI response nor command is dropped by
  the socket filter.
- Opening, binding and filtering the socket (`net_sockio.cpp`, `ncsi_sockio.cpp`,
  `net_iface.cpp`): I/O without decisions. `normalize_ip.c`, `normalize_mac.c` and
  `ncsi_server.c`: conversions of the command line and response builders for
  tests, without state.
- What hashing and RSA compute, and `libcr51sign_support.c`, which calls OpenSSL
  for it: a descriptor is vouched for or is not.
- `metrics-ipmi-blobs`: the parsing of /proc, and the memory, storage, uptime and
  ECC metrics, which are single readings; among them a `ticksPerSec` of 0 and the
  subtraction of boot times. `open()` succeeds although encoding failed
  (`handler.cpp:82`), but the buffer has the size that the same encoding
  reported, so no reachable case of it is known.
- The serialisation of a POST code datagram; the end of `nemorad` on SIGINT,
  which destroys a joinable thread and so ends the process, as `RestartPostd`.
- The check of the product identification in `espi-control`.
- `hello`: a build example.

## 8. Plan

Done: every program that keeps state, with proofs of all safety properties that
the runs check and of the refinements. Left: the sessions of the blob handler,
with several open at a time.
