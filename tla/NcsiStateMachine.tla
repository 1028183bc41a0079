--------------------------- MODULE NcsiStateMachine ---------------------------
(***************************************************************************)
(* ncsi::StateMachine: the loop that receives a packet, polls the state    *)
(* machine the connection state calls for, applies its side effects and    *)
(* writes the next command.  One action is one round of the loop.  The     *)
(* wire is an adversary here: a round receives any packet of RxPackets or  *)
(* nothing.                                                                *)
(***************************************************************************)
EXTENDS NcsiFsm

CONSTANTS RxPackets,      \* the packets the wire can deliver
          InitialTries,   \* what the uninitialised network_debug_ may hold in
                          \*   test.tries when the daemon starts
          OwnerRequests   \* what an owner of network_debug_t may request:
                          \*   {} in ncsid; the portable library also
                          \*   serves {"stop", "restart"}

ASSUME RxPacketsAssumption == RxPackets \subseteq Packets
ASSUME InitialTriesAssumption == InitialTries \subseteq 0..255
ASSUME OwnerRequestsAssumption == OwnerRequests \subseteq {"stop", "restart"}

VARIABLES
  host_mac,   \* what net_config_->get_mac_addr() returns
  hostless,   \* hostless_: the mode last passed to set_nic_hostless()
  rx_error,   \* what report_ncsi_error() reported in the last round
  \* history variables, of no effect on the program
  acked,      \* the <<command, channel>> acknowledged since the last clear
  received,   \* whether the last round received a packet
  retries     \* test retries granted since the last completed test or clear

smVars == <<host_mac, hostless, rx_error>>
history == <<acked, received, retries>>
vars == <<fsmVars, smVars, history>>

-------------------------------------------------------------------------------
Init ==
  /\ l2_config_state = RESTART
  /\ l3l4_config_state = L3L4_CONFIG_BEGIN
  /\ test_state = TEST_PARAMS
  /\ channel_count = 0
  /\ l3l4_channel = 0
  /\ l3l4_waiting_response = FALSE
  /\ restart_delay_count = RestartDelay - 1
  /\ flowsteering = [c \in Channel |-> FALSE]
  /\ enabled = TRUE
  /\ pending_stop = FALSE
  /\ pending_restart = TRUE
  /\ loopback = FALSE
  /\ mlx_legacy \in BOOLEAN      \* not initialised by the constructor
  /\ ch_under_test = 0
  /\ tries \in InitialTries      \* not initialised by the constructor
  /\ tx = NoRequest
  /\ response = "NONE"
  /\ host_mac \in Mac
  /\ hostless = "unknown"
  /\ rx_error = "none"
  /\ acked = {}
  /\ received = FALSE
  /\ retries = 0

(* report_ncsi_error(): tx' = NoRequest stands for ncsi_buf_.len = 0, the  *)
(* length the poll function has left in the buffer.                        *)
ReportNcsiError(verdict) ==
  rx_error' =
    CASE verdict = "UNDERSIZED" ->
           IF tx' = NoRequest THEN "timeout" ELSE "undersized"
      [] verdict = "NACK" -> "nack"
      [] verdict \in {"UNEXPECTED_TYPE", "OEM_FORMAT_ERROR"} ->
           "unexpected_type"
      [] verdict = "UNEXPECTED_SIZE" -> "unexpected_size"
      [] verdict = "UNEXPECTED_PARAMS" -> "filter_mismatch"
      [] verdict \in {"NONE", "ACK"} -> "none"

(* What poll_l2_config() does with the verdict.  set_mac_addr() may fail,  *)
(* and its result is ignored.  So is that of get_mac_addr(), which is      *)
(* taken to succeed here.                                                  *)
PollL2(rx) ==
  /\ PollL2Config(rx, host_mac)
  /\ IF response' = "ACK" /\ rx.cmd = "GET_HOST_MAC"
     THEN host_mac' \in {rx.mac, host_mac}
     ELSE UNCHANGED host_mac
  /\ ReportNcsiError(response')
  /\ UNCHANGED hostless

Mode(flags, count) == IF IsHostless(flags, count) THEN "hostless" ELSE "hostful"

(* What poll_simple() does with the verdict: the type of the packet is     *)
(* looked at first, whatever the verdict, and only a packet that is neither*)
(* a link status nor an OEM response can be reported as an error.          *)
IsResponseTo(rx, commands) == rx.type = "response" /\ rx.cmd \in commands

SimpleEffects(rx) ==
  /\ IF response' # "NONE" /\ IsResponseTo(rx, {"GET_FILTER"})
     THEN hostless' = Mode(flowsteering', channel_count')
     ELSE UNCHANGED hostless
  /\ IF IsResponseTo(rx, OemCommand \cup {"GET_LINK_STATUS"})
     THEN rx_error' = "none"
     ELSE ReportNcsiError(response')
  /\ UNCHANGED host_mac

-------------------------------------------------------------------------------
(* History: acknowledged configuration commands, and granted retries.      *)
RecordAck ==
  acked' = IF l2_config_state' = RESTART THEN {}
           ELSE IF response' = "ACK" THEN acked \cup {<<tx.cmd, tx.ch>>}
           ELSE acked

RecordRetry ==
  retries' = IF l2_config_state' = RESTART \/ test_state = TEST_END THEN 0
             ELSE IF test_state \in TestResponseStates
                       /\ test_state' = TEST_PARAMS
             THEN retries + 1
             ELSE retries

-------------------------------------------------------------------------------
(* The rounds of StateMachine::run(), by connection state.                 *)

L2Round(rx) ==
  /\ ConnectionState \in {"DOWN", "LOOPBACK"}
  /\ PollL2(rx)
  /\ RecordAck
  /\ UNCHANGED retries

TestRound(rx) ==
  /\ \/ ConnectionState = "UP_AND_CONFIGURED"
     \/ /\ ConnectionState = "UP"
        /\ \/ test_state # TEST_END
           \/ IsHostless(flowsteering, channel_count)
  /\ PollTest(rx, host_mac)
  /\ SimpleEffects(rx)
  /\ RecordRetry
  /\ acked' = IF l2_config_state' = RESTART THEN {} ELSE acked

(* L3/L4 configuration starts only when a test is finished and the NIC is  *)
(* not hostless.                                                           *)
L3L4Round(rx) ==
  /\ ConnectionState = "UP"
  /\ test_state = TEST_END
  /\ ~IsHostless(flowsteering, channel_count)
  /\ PollL3L4Config(rx, host_mac)
  /\ SimpleEffects(rx)
  /\ RecordAck
  /\ retries' = IF l2_config_state' = RESTART THEN 0 ELSE retries

DisabledRound ==
  /\ ConnectionState = "DISABLED"
  /\ enabled' = pending_restart
  /\ tx' = NoRequest
  /\ response' = "NONE"
  /\ rx_error' = "none"
  /\ UNCHANGED <<stateVars, pending_stop, pending_restart, loopback,
                 mlx_legacy, ch_under_test, tries, host_mac, hostless, acked,
                 retries>>

Round(rx) ==
  /\ L2Round(rx) \/ TestRound(rx) \/ L3L4Round(rx) \/ DisabledRound
  /\ received' = (rx # NoPacket)

(* An owner of network_debug_t asks the machine to stop or to restart.     *)
RequestStop ==
  /\ "stop" \in OwnerRequests
  /\ ~pending_stop
  /\ pending_stop' = TRUE
  /\ UNCHANGED <<stateVars, enabled, pending_restart, loopback, mlx_legacy,
                 ch_under_test, tries, tx, response, smVars, history>>

RequestRestart ==
  /\ "restart" \in OwnerRequests
  /\ ~pending_restart
  /\ pending_restart' = TRUE
  /\ UNCHANGED <<stateVars, enabled, pending_stop, loopback, mlx_legacy,
                 ch_under_test, tries, tx, response, smVars, history>>

RunRound == \E rx \in RxPackets \cup {NoPacket} : Round(rx)

Next == RunRound \/ RequestStop \/ RequestRestart

Spec == Init /\ [][Next]_vars

(* The loop of run() never ends, so a round is always taken eventually.    *)
FairSpec == Spec /\ WF_vars(RunRound)

-------------------------------------------------------------------------------
(* Type correctness of the loop's state, uint8_t widths included.          *)
StateTypeOK ==
  /\ l2_config_state \in L2State
  /\ l3l4_config_state \in L3L4_CONFIG_BEGIN..L3L4_CONFIG_END
  /\ test_state \in TEST_PARAMS..TEST_END
  /\ channel_count \in 0..2
  /\ l3l4_channel \in Channel
  /\ l3l4_waiting_response \in BOOLEAN
  /\ restart_delay_count \in 0..RestartDelay
  /\ flowsteering \in [Channel -> BOOLEAN]

DebugTypeOK ==
  /\ enabled \in BOOLEAN
  /\ pending_stop \in BOOLEAN
  /\ pending_restart \in BOOLEAN
  /\ loopback \in BOOLEAN
  /\ mlx_legacy \in BOOLEAN
  /\ ch_under_test \in Channel
  /\ tries \in 0..255

LoopTypeOK ==
  /\ tx \in Requests \cup {NoRequest}
  /\ response \in ResponseType
  /\ host_mac \in Mac \cup {NoMac}
  /\ hostless \in {"unknown", "hostless", "hostful"}
  /\ rx_error \in {"none", "timeout", "undersized", "nack", "unexpected_type",
                   "unexpected_size", "filter_mismatch"}

HistoryTypeOK ==
  /\ acked \subseteq (StdCommand \cup OemCommand) \X Channel
  /\ received \in BOOLEAN
  /\ retries \in Nat

TypeOK == StateTypeOK /\ DebugTypeOK /\ LoopTypeOK /\ HistoryTypeOK

(* A failure of any machine restarts all three: as long as the L2 machine  *)
(* has not finished, the other two are at their start, no filter flag and  *)
(* no pending L3/L4 response survives, and the channel count is only known *)
(* once the NIC has reported its capabilities in this very attempt.        *)
FsmsRestartTogether ==
  l2_config_state # L2_CONFIG_END =>
    /\ l3l4_config_state = L3L4_CONFIG_BEGIN
    /\ ~l3l4_waiting_response
    /\ test_state = TEST_PARAMS
    /\ \A c \in Channel : ~flowsteering[c]
    /\ (channel_count # 0) <=>
         (l2_config_state > GET_CAPABILITIES_RESPONSE)

(* The channels the NIC said it has.                                       *)
ReportedChannels == 0..channel_count - 1

(* What the NIC must have acknowledged before the connection is called up: *)
(* every reported channel initialised, given the MAC filter and enabled,   *)
(* and transmission enabled on channel 0.                                  *)
L2Handshake ==
  ({"CLEAR_INITIAL_STATE", "SET_MAC_ADDRESS", "ENABLE_CHANNEL"}
     \X ReportedChannels)
  \cup {<<"GET_HOST_MAC", 0>>, <<"ENABLE_CHANNEL_NETWORK_TX", 0>>}

(* The connection is up only after the complete handshake, and configured  *)
(* only after the filter of every channel was acknowledged, all since the  *)
(* last restart: stepping by one or three states never skips a channel.    *)
UpMeansAcknowledged ==
  /\ l2_config_state = L2_CONFIG_END =>
       channel_count \in {1, 2} /\ L2Handshake \subseteq acked
  /\ ConnectionState = "UP_AND_CONFIGURED" =>
       {"SET_FILTER"} \X ReportedChannels \subseteq acked

(* No command is written for a channel the NIC does not have, also after   *)
(* the NIC came back with fewer channels than before.                      *)
NoTrafficToAbsentChannel == tx.ch # 0 => channel_count = 2

(* A machine waits for a response only in the round after its own command  *)
(* was written, and at most one of the three waits: no command is waited   *)
(* for that was not sent.                                                  *)
AwaitsLastRequest ==
  /\ l2_config_state \in L2ResponseStates =>
       /\ tx.cmd = L2Command(l2_config_state - 1)
       /\ tx.ch = L2Channel(l2_config_state - 1)
  /\ test_state \in TestResponseStates => tx = TestRequest(test_state - 1)
  /\ l3l4_waiting_response =>
       /\ tx.cmd = "SET_FILTER"
       /\ tx.ch = l3l4_channel
       /\ test_state = TEST_END

(* A loopback is reported only until the NIC answers.                      *)
LoopbackOnlyWhileSilent == loopback => l2_config_state <= CLEAR_0_RESPONSE

(* Filters are being configured only on a NIC that a finished test found   *)
(* hostful, and past the filter check of a test the reported mode is the   *)
(* one the sampled flags say, not one of an earlier connection.            *)
ReportedModeIsCurrent ==
  /\ test_state > CHECK_FILTERS_RESPONSE =>
       hostless = Mode(flowsteering, channel_count)
  /\ l3l4_config_state = CONFIG_FILTERS => hostless = "hostful"

-------------------------------------------------------------------------------
(* The parts of the inductive invariant that are not invariants of         *)
(* interest of their own.                                                  *)

(* A command of a machine that runs is for a channel the NIC reported.     *)
ChannelsExist ==
  /\ l2_config_state > GET_CAPABILITIES_RESPONSE => channel_count \in {1, 2}
  /\ channel_count = 1 =>
       /\ \A s \in L2SendStates :
            L2Channel(s) = 1 => l2_config_state \notin {s, s + 1}
       /\ l3l4_channel = 0
       /\ test_state # TEST_PARAMS => ch_under_test = 0

(* A disabled machine is at its start.                                     *)
DisabledAtStart == ~enabled => l2_config_state = RESTART

(* The L3/L4 machine runs only between two tests, on a hostful NIC.        *)
L3L4BetweenTests ==
  /\ l3l4_config_state # CONFIG_FILTERS =>
       ~l3l4_waiting_response /\ l3l4_channel = 0
  /\ l3l4_config_state = CONFIG_FILTERS =>
       test_state = TEST_END /\ ~IsHostless(flowsteering, channel_count)

(* Every L2 state that lies behind, except the resets of a stop and those  *)
(* of an absent second channel, has been acknowledged.                     *)
HandshakeSoFar ==
  \A s \in L2SendStates \ {RESET_CHANNEL_0, RESET_CHANNEL_1} :
    s + 1 < l2_config_state /\ (channel_count = 1 => L2Channel(s) = 0) =>
      <<L2Command(s), L2Channel(s)>> \in acked

FiltersSoFar ==
  \A c \in ReportedChannels :
    c < l3l4_channel \/ l3l4_config_state = L3L4_CONFIG_END =>
      <<"SET_FILTER", c>> \in acked

IInv ==
  /\ TypeOK
  /\ FsmsRestartTogether
  /\ AwaitsLastRequest
  /\ NoTrafficToAbsentChannel
  /\ LoopbackOnlyWhileSilent
  /\ ReportedModeIsCurrent
  /\ ChannelsExist
  /\ DisabledAtStart
  /\ L3L4BetweenTests
  /\ HandshakeSoFar
  /\ FiltersSoFar

-------------------------------------------------------------------------------
(* A configured connection is given up only after a test failed MaxTries   *)
(* times in a row, or because a restart was requested: a response lost     *)
(* under load does not tear it down.                                       *)
TornDownAfterAllTries ==
  [][ConnectionState = "UP_AND_CONFIGURED"
       /\ ConnectionState' # "UP_AND_CONFIGURED"
     => \/ retries = MaxTries - 1
        \/ test_state = TEST_END /\ pending_restart]_vars

(* The machine disables itself only once it knows the channels of the NIC  *)
(* and every one of them acknowledged its reset.                           *)
StopsOnlyAfterReset ==
  [][enabled /\ ~enabled' =>
       /\ channel_count \in {1, 2}
       /\ {"RESET_CHANNEL"} \X ReportedChannels \subseteq acked]_vars

(* The daemon never falls silent: unless disabled it keeps sending, however*)
(* the NIC behaves.                                                        *)
KeepsTalking == []<>(tx # NoRequest \/ ~enabled)

(* A requested restart is served, however the NIC behaves.                 *)
RestartServed == pending_restart ~> ~pending_restart

(* The loop implements the connection the daemon promises.                 *)
Connection ==
  INSTANCE NcsiConnection WITH
    conn <- ConnectionState,
    channels <- IF l2_config_state = L2_CONFIG_END THEN channel_count ELSE 0,
    confirmed <- {c \in Channel : <<"SET_FILTER", c>> \in acked},
    mode <- hostless

ImplementsConnection == Connection!Spec

-------------------------------------------------------------------------------
(* What comments and messages of the code say, and the code does not do.   *)

(* ncsi_state_machine.h: MAX_TRIES is the number of times a command is     *)
(* retried at most.                                                        *)
RetriesBounded == retries < MaxTries

(* ncsi_fsm.h: the length of the buffer is non-zero when there is a new    *)
(* response, and report_ncsi_error() reads it so: what is counted as a     *)
(* timeout is a round in which nothing was received, not a response that   *)
(* is too short.                                                           *)
TimeoutMeansSilence == rx_error = "timeout" => ~received

(* ncsi_state_machine.cpp: a filter that does not match is reported as     *)
(* "OEM Filter MAC or TCP/IP Config Mismatch".                             *)
FilterMismatchReported ==
  response = "UNEXPECTED_PARAMS" => rx_error = "filter_mismatch"
===============================================================================
