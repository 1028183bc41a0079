------------------------------- MODULE NcsiFsm --------------------------------
(***************************************************************************)
(* The three NC-SI state machines of ncsi_fsm.c: L2 configuration, L3/L4   *)
(* configuration and connection test.  Each poll function is an action;    *)
(* `rx' is the packet in the buffer, `mac' the address net_config returned *)
(* and tx' the command left in the buffer to be written (NoRequest: none). *)
(* retest_delay_count is not modelled: StateMachine::run_test_fsm() sets it*)
(* to the re-test delay before every poll that reads it.                   *)
(***************************************************************************)
EXTENDS NcsiClient, Integers

CONSTANTS RestartDelay,  \* NCSI_FSM_RESTART_DELAY_COUNT
          MaxTries       \* StateMachine::MAX_TRIES (test.max_tries)

ASSUME RestartDelayAssumption == RestartDelay \in 1..255
ASSUME MaxTriesAssumption == MaxTries \in 1..255

VARIABLES
  \* ncsi_state_t
  l2_config_state, l3l4_config_state, test_state, channel_count,
  l3l4_channel, l3l4_waiting_response, restart_delay_count,
  flowsteering,  \* the hostless bit of flowsteering[channel].flags
  \* network_debug_t
  enabled, pending_stop, pending_restart, loopback, mlx_legacy,
  ch_under_test, tries,
  \* outputs of a poll: the buffer to write, and the returned verdict
  tx, response

stateVars == <<l2_config_state, l3l4_config_state, test_state, channel_count,
               l3l4_channel, l3l4_waiting_response, restart_delay_count,
               flowsteering>>
debugVars == <<enabled, pending_stop, pending_restart, loopback, mlx_legacy,
               ch_under_test, tries>>
fsmVars == <<stateVars, debugVars, tx, response>>

-------------------------------------------------------------------------------
(* ncsi_l2_config_state_t, in the order of the enum.                       *)
RESTART                   == 0
CLEAR_0                   == 1
CLEAR_0_RESPONSE          == 2
GET_VERSION               == 3
GET_VERSION_RESPONSE      == 4
GET_CAPABILITIES          == 5
GET_CAPABILITIES_RESPONSE == 6
CLEAR_1                   == 7
CLEAR_1_RESPONSE          == 8
RESET_CHANNEL_0           == 9
RESET_CHANNEL_0_RESPONSE  == 10
RESET_CHANNEL_1           == 11
STOPPED                   == 13
GET_MAC                   == 14
GET_MAC_RESPONSE          == 15
SET_MAC_FILTER_0          == 16
SET_MAC_FILTER_0_RESPONSE == 17
SET_MAC_FILTER_1          == 18
ENABLE_CHANNEL_0          == 20
ENABLE_CHANNEL_0_RESPONSE == 21
ENABLE_CHANNEL_1          == 22
ENABLE_TX                 == 24
L2_CONFIG_END             == 26

L2State == RESTART..L2_CONFIG_END

L2SendStates == {CLEAR_0, GET_VERSION, GET_CAPABILITIES, CLEAR_1,
                 RESET_CHANNEL_0, RESET_CHANNEL_1, GET_MAC, SET_MAC_FILTER_0,
                 SET_MAC_FILTER_1, ENABLE_CHANNEL_0, ENABLE_CHANNEL_1,
                 ENABLE_TX}

L2ResponseStates == {s + 1 : s \in L2SendStates}

(* ncsi_l3l4_config_state_t and ncsi_test_state_t.                         *)
L3L4_CONFIG_BEGIN == 0
CONFIG_FILTERS    == 1
L3L4_CONFIG_END   == 2

TEST_PARAMS              == 0   \* also NCSI_STATE_TEST_BEGIN
ECHO                     == 1
ECHO_RESPONSE            == 2
CHECK_FILTERS            == 3
CHECK_FILTERS_RESPONSE   == 4
GET_PT_STATS             == 5
GET_PT_STATS_RESPONSE    == 6
GET_LINK_STATUS          == 7
GET_LINK_STATUS_RESPONSE == 8
TEST_END                 == 9

TestSendStates == {ECHO, CHECK_FILTERS, GET_PT_STATS, GET_LINK_STATUS}
TestResponseStates == {s + 1 : s \in TestSendStates}

-------------------------------------------------------------------------------
(* ncsi_fsm_is_nic_hostless(): every channel sampled and hostless.         *)
IsHostless(flags, count) == flags[0] /\ (count > 1 => flags[1])

ConnectionState ==
  IF ~enabled THEN "DISABLED"
  ELSE IF l2_config_state # L2_CONFIG_END
       THEN IF loopback THEN "LOOPBACK" ELSE "DOWN"
       ELSE IF l3l4_config_state # L3L4_CONFIG_END
            THEN "UP" ELSE "UP_AND_CONFIGURED"

(* Mutant: the test machine and what it sampled survive a failure.         *)
ClearConfigState ==
  /\ l2_config_state' = RESTART
  /\ l3l4_config_state' = L3L4_CONFIG_BEGIN
  /\ channel_count' = 0
  /\ l3l4_channel' = 0
  /\ l3l4_waiting_response' = FALSE
  /\ restart_delay_count' = 0
  /\ UNCHANGED <<test_state, flowsteering>>

(* memset(ncsi_state, 0, sizeof(ncsi_state_t)).                            *)
ClearState ==
  /\ l2_config_state' = RESTART
  /\ l3l4_config_state' = L3L4_CONFIG_BEGIN
  /\ test_state' = TEST_PARAMS
  /\ channel_count' = 0
  /\ l3l4_channel' = 0
  /\ l3l4_waiting_response' = FALSE
  /\ restart_delay_count' = 0
  /\ flowsteering' = [c \in Channel |-> FALSE]

-------------------------------------------------------------------------------
(* The L2 state machine.                                                   *)

L2Command(s) ==
  CASE s \in {CLEAR_0, CLEAR_1} -> "CLEAR_INITIAL_STATE"
    [] s = GET_VERSION -> "GET_VERSION_ID"
    [] s = GET_CAPABILITIES -> "GET_CAPABILITIES"
    [] s \in {RESET_CHANNEL_0, RESET_CHANNEL_1} -> "RESET_CHANNEL"
    [] s = GET_MAC -> "GET_HOST_MAC"
    [] s \in {SET_MAC_FILTER_0, SET_MAC_FILTER_1} -> "SET_MAC_ADDRESS"
    [] s \in {ENABLE_CHANNEL_0, ENABLE_CHANNEL_1} -> "ENABLE_CHANNEL"
    [] s = ENABLE_TX -> "ENABLE_CHANNEL_NETWORK_TX"

L2Channel(s) ==
  IF s \in {CLEAR_1, RESET_CHANNEL_1, SET_MAC_FILTER_1, ENABLE_CHANNEL_1}
  THEN 1 ELSE 0

L2Request(s, mac) ==
  Request(L2Command(s), L2Channel(s),
          IF L2Command(s) = "SET_MAC_ADDRESS" THEN mac ELSE NoMac)

(* Mutants: the second channel is always skipped; the step is off by one.  *)
SkipSecondChannel(s, count) == s + 3
StepOffByOne(s, count) == s + (IF count = 1 THEN 2 ELSE 1)

(* GO_TO_NEXT_CHANNEL: skip the pair of the second channel if there is one *)
(* channel; every other pair is followed by the next state.                *)
GoToNextChannel(s, count) == s + (IF count = 1 THEN 3 ELSE 1)

L2NextState(s, count) ==
  IF s \in {GET_VERSION_RESPONSE, GET_CAPABILITIES_RESPONSE,
            RESET_CHANNEL_0_RESPONSE, SET_MAC_FILTER_0_RESPONSE,
            ENABLE_CHANNEL_0_RESPONSE}
  THEN GoToNextChannel(s, count)
  ELSE s + 1

L2Unchanged == UNCHANGED <<l3l4_config_state, test_state, l3l4_channel,
                           l3l4_waiting_response, flowsteering, ch_under_test, tries>>

L2Restart ==
  /\ l2_config_state = RESTART
  /\ IF restart_delay_count + 1 >= RestartDelay
     THEN /\ pending_restart' = FALSE
          /\ l2_config_state' = CLEAR_0
          /\ restart_delay_count' = 0
     ELSE /\ restart_delay_count' = restart_delay_count + 1
          /\ UNCHANGED <<pending_restart, l2_config_state>>
  /\ tx' = NoRequest
  /\ response' = "NONE"
  /\ UNCHANGED <<channel_count, enabled, pending_stop, loopback, mlx_legacy>>
  /\ L2Unchanged

L2Send(mac) ==
  /\ l2_config_state \in L2SendStates
  /\ l2_config_state = RESET_CHANNEL_0 => pending_stop
  /\ tx' = L2Request(l2_config_state, mac)
  /\ l2_config_state' = l2_config_state + 1
  /\ response' = "NONE"
  /\ UNCHANGED <<channel_count, restart_delay_count, enabled, pending_stop,
                 pending_restart, loopback, mlx_legacy>>
  /\ L2Unchanged

L2SkipReset ==
  /\ l2_config_state = RESET_CHANNEL_0
  /\ ~pending_stop
  /\ l2_config_state' = GET_MAC
  /\ tx' = NoRequest
  /\ response' = "NONE"
  /\ UNCHANGED <<channel_count, restart_delay_count, enabled, pending_stop,
                 pending_restart, loopback, mlx_legacy>>
  /\ L2Unchanged

L2Verdict(rx) ==
  ValidateResponse(rx, L2Command(l2_config_state - 1), FALSE)

(* An acknowledged capabilities response still fails the machine if its    *)
(* channel count is not supported.                                         *)
L2Accepts(rx) ==
  /\ L2Verdict(rx) = "ACK"
  /\ l2_config_state = GET_CAPABILITIES_RESPONSE => rx.count \in {1, 2}

(* What CLEAR_0_RESPONSE finds out about a loopback.                       *)
SenseLoopback(found) ==
  loopback' = IF l2_config_state = CLEAR_0_RESPONSE THEN found ELSE loopback

(* The packet is the very command that CLEAR_0 sent.                       *)
IsLoopback(rx) == /\ rx.type = "command"
                  /\ rx.cmd = "CLEAR_INITIAL_STATE"
                  /\ rx.ch = 0

L2Accepted(rx) ==
  /\ l2_config_state \in L2ResponseStates
  /\ L2Accepts(rx)
  /\ channel_count' = IF l2_config_state = GET_CAPABILITIES_RESPONSE
                      THEN rx.count ELSE channel_count
  /\ l2_config_state' = L2NextState(l2_config_state, channel_count')
  /\ mlx_legacy' = IF l2_config_state = GET_VERSION_RESPONSE
                   THEN rx.flag ELSE mlx_legacy
  /\ SenseLoopback(FALSE)
  /\ tx' = NoRequest
  /\ response' = "ACK"
  /\ UNCHANGED <<restart_delay_count, enabled, pending_stop, pending_restart>>
  /\ L2Unchanged

L2Rejected(rx) ==
  /\ l2_config_state \in L2ResponseStates
  /\ ~L2Accepts(rx)
  /\ ClearState
  /\ SenseLoopback(IsLoopback(rx))
  /\ tx' = NoRequest
  /\ response' = L2Verdict(rx)
  /\ UNCHANGED <<enabled, pending_stop, pending_restart, mlx_legacy,
                 ch_under_test, tries>>

L2Stopped ==
  /\ l2_config_state = STOPPED
  /\ pending_stop' = FALSE
  /\ enabled' = FALSE
  /\ ClearState
  /\ tx' = NoRequest
  /\ response' = "NONE"
  /\ UNCHANGED <<pending_restart, loopback, mlx_legacy, ch_under_test, tries>>

PollL2Config(rx, mac) ==
  \/ L2Restart
  \/ L2Send(mac)
  \/ L2SkipReset
  \/ L2Accepted(rx)
  \/ L2Rejected(rx)
  \/ L2Stopped
-------------------------------------------------------------------------------
(* The L3/L4 state machine: SET_FILTER on every channel in turn.           *)

L3L4Unchanged == UNCHANGED <<l2_config_state, test_state, channel_count,
                             restart_delay_count, flowsteering>>

L3L4Waiting == /\ l3l4_config_state # L3L4_CONFIG_BEGIN
               /\ l3l4_waiting_response

L3L4Send(mac) ==
  /\ ~L3L4Waiting
  /\ l3l4_config_state \in {L3L4_CONFIG_BEGIN, CONFIG_FILTERS}
  /\ l3l4_channel' = IF l3l4_config_state = L3L4_CONFIG_BEGIN
                     THEN 0 ELSE l3l4_channel
  /\ tx' = Request("SET_FILTER", l3l4_channel', mac)
  /\ l3l4_config_state' = CONFIG_FILTERS
  /\ l3l4_waiting_response' = TRUE
  /\ response' = "NONE"
  /\ L3L4Unchanged
  /\ UNCHANGED debugVars

L3L4Verdict(rx) == ValidateResponse(rx, "SET_FILTER", FALSE)

(* Mutant: one channel is enough.                                          *)
OneChannelDone == TRUE

AllChannelsDone == l3l4_channel + 1 >= channel_count

L3L4Accepted(rx) ==
  /\ L3L4Waiting
  /\ L3L4Verdict(rx) = "ACK"
  /\ IF AllChannelsDone
     THEN /\ l3l4_config_state' = l3l4_config_state + 1
          /\ l3l4_channel' = 0
     ELSE /\ l3l4_channel' = l3l4_channel + 1
          /\ UNCHANGED l3l4_config_state
  /\ l3l4_waiting_response' = FALSE
  /\ tx' = NoRequest
  /\ response' = "ACK"
  /\ L3L4Unchanged
  /\ UNCHANGED debugVars

(* Mutant: a command without a good response is sent again.                *)
L3L4Resent(rx) ==
  /\ L3L4Waiting
  /\ L3L4Verdict(rx) # "ACK"
  /\ l3l4_waiting_response' = FALSE
  /\ tx' = NoRequest
  /\ response' = L3L4Verdict(rx)
  /\ UNCHANGED <<l3l4_config_state, l3l4_channel>>
  /\ L3L4Unchanged
  /\ UNCHANGED debugVars

L3L4Rejected(rx) ==
  /\ L3L4Waiting
  /\ L3L4Verdict(rx) # "ACK"
  /\ ClearState
  /\ tx' = NoRequest
  /\ response' = L3L4Verdict(rx)
  /\ UNCHANGED debugVars

PollL3L4Config(rx, mac) ==
  \/ L3L4Send(mac)
  \/ L3L4Accepted(rx)
  \/ L3L4Rejected(rx)
-------------------------------------------------------------------------------
(* The test state machine.                                                 *)

TestCommand(s) ==
  CASE s = ECHO -> "ECHO"
    [] s = CHECK_FILTERS -> "GET_FILTER"
    [] s = GET_PT_STATS -> "GET_PASSTHROUGH_STATISTICS"
    [] s = GET_LINK_STATUS -> "GET_LINK_STATUS"

(* Only the link of channel 0 is asked for: it is the one that transmits.  *)
TestRequest(s) ==
  Request(TestCommand(s), IF s = GET_LINK_STATUS THEN 0 ELSE ch_under_test,
          NoMac)

TestUnchanged ==
  UNCHANGED <<l2_config_state, l3l4_config_state, channel_count, l3l4_channel,
              l3l4_waiting_response, restart_delay_count, enabled,
              pending_stop, pending_restart, loopback, mlx_legacy>>

(* Mutant: the channel is not reset when there is only one.                *)
KeepChannelUnderTest ==
  IF channel_count = 2 THEN 1 - ch_under_test ELSE ch_under_test

(* ncsi_fsm_start_test(): alternate between the channels if there are two. *)
NextChannelUnderTest == IF channel_count = 2 THEN 1 - ch_under_test ELSE 0

TestParams ==
  /\ test_state = TEST_PARAMS
  /\ ch_under_test' = NextChannelUnderTest
  /\ test_state' = ECHO
  /\ tx' = NoRequest
  /\ response' = "NONE"
  /\ TestUnchanged
  /\ UNCHANGED <<flowsteering, tries>>

TestSend ==
  /\ test_state \in TestSendStates
  /\ tx' = TestRequest(test_state)
  /\ test_state' = test_state + 1
  /\ response' = "NONE"
  /\ TestUnchanged
  /\ UNCHANGED <<flowsteering, ch_under_test, tries>>

TestReplyAcked(rx) ==
  ValidateResponse(rx, TestCommand(test_state - 1), mlx_legacy)

(* A GET_FILTER response is recorded for the channel under test before its *)
(* contents are judged.                                                    *)
Sampled(rx) ==
  IF test_state = CHECK_FILTERS_RESPONSE /\ TestReplyAcked(rx) = "ACK"
  THEN [flowsteering EXCEPT ![ch_under_test] = rx.flag]
  ELSE flowsteering

(* Mutant: the configuration is judged before it is made, not after.       *)
FilterMismatchBefore(rx, mac) ==
  /\ test_state = CHECK_FILTERS_RESPONSE
  /\ l3l4_config_state # L3L4_CONFIG_END
  /\ ~IsHostless(Sampled(rx), channel_count)
  /\ rx.mac # mac

(* The parameters are judged only if we configured the NIC and it is not   *)
(* in hostless mode.                                                       *)
FilterMismatch(rx, mac) ==
  /\ test_state = CHECK_FILTERS_RESPONSE
  /\ l3l4_config_state = L3L4_CONFIG_END
  /\ ~IsHostless(Sampled(rx), channel_count)
  /\ rx.mac # mac

TestVerdict(rx, mac) ==
  IF TestReplyAcked(rx) = "ACK" /\ FilterMismatch(rx, mac)
  THEN "UNEXPECTED_PARAMS"
  ELSE TestReplyAcked(rx)

(* The echoed pattern must be intact and the link must be up.              *)
TestPasses(rx, mac) ==
  /\ TestVerdict(rx, mac) = "ACK"
  /\ test_state \in {ECHO_RESPONSE, GET_LINK_STATUS_RESPONSE} => rx.flag

TestPassed(rx, mac) ==
  /\ test_state \in TestResponseStates
  /\ TestPasses(rx, mac)
  /\ test_state' = test_state + 1
  /\ flowsteering' = Sampled(rx)
  /\ tx' = NoRequest
  /\ response' = "ACK"
  /\ TestUnchanged
  /\ UNCHANGED <<ch_under_test, tries>>

(* Mutant: one try too many.                                               *)
RemainingTriesOffByOne == (256 + MaxTries - tries) % 256

(* ncsi_fsm_retry_test(), in the uint8_t arithmetic of the code.           *)
RemainingTries == (256 + MaxTries - 1 - tries) % 256

(* Mutant: the command is sent again, the test is not.                     *)
CommandRetried(rx, mac) ==
  /\ test_state \in TestResponseStates
  /\ ~TestPasses(rx, mac)
  /\ RemainingTries > 0
  /\ tries' = (tries + 1) % 256
  /\ test_state' = test_state - 1
  /\ flowsteering' = Sampled(rx)
  /\ tx' = NoRequest
  /\ response' = TestVerdict(rx, mac)
  /\ TestUnchanged
  /\ UNCHANGED <<ch_under_test>>

TestRetried(rx, mac) ==
  /\ test_state \in TestResponseStates
  /\ ~TestPasses(rx, mac)
  /\ RemainingTries > 0
  /\ tries' = (tries + 1) % 256
  /\ test_state' = TEST_PARAMS
  /\ flowsteering' = Sampled(rx)
  /\ tx' = NoRequest
  /\ response' = TestVerdict(rx, mac)
  /\ TestUnchanged
  /\ UNCHANGED <<ch_under_test>>

TestFailed(rx, mac) ==
  /\ test_state \in TestResponseStates
  /\ ~TestPasses(rx, mac)
  /\ RemainingTries = 0
  /\ tries' = 0
  /\ ClearState
  /\ tx' = NoRequest
  /\ response' = TestVerdict(rx, mac)
  /\ UNCHANGED <<enabled, pending_stop, pending_restart, loopback, mlx_legacy,
                 ch_under_test>>

(* Mutants: the re-test delay never ends; a pending restart is forgotten.  *)
TestEndStuck ==
  /\ test_state = TEST_END
  /\ tries' = 0
  /\ tx' = NoRequest
  /\ response' = "NONE"
  /\ UNCHANGED <<stateVars, enabled, pending_stop, pending_restart, loopback,
                 mlx_legacy, ch_under_test>>

TestEndNoRestart ==
  /\ test_state = TEST_END
  /\ tries' = 0
  /\ test_state' = TEST_PARAMS
  /\ tx' = NoRequest
  /\ response' = "NONE"
  /\ TestUnchanged
  /\ UNCHANGED <<flowsteering, ch_under_test>>

(* The re-test delay is over; a pending restart clears the state instead.  *)
TestEnd ==
  /\ test_state = TEST_END
  /\ tries' = 0
  /\ IF pending_restart
     THEN ClearState
     ELSE /\ test_state' = TEST_PARAMS
          /\ UNCHANGED <<l2_config_state, l3l4_config_state, channel_count,
                         l3l4_channel, l3l4_waiting_response,
                         restart_delay_count, flowsteering>>
  /\ tx' = NoRequest
  /\ response' = "NONE"
  /\ UNCHANGED <<enabled, pending_stop, pending_restart, loopback, mlx_legacy,
                 ch_under_test>>

PollTest(rx, mac) ==
  \/ TestParams
  \/ TestSend
  \/ TestPassed(rx, mac)
  \/ TestRetried(rx, mac)
  \/ TestFailed(rx, mac)
  \/ TestEnd
===============================================================================
