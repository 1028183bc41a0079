------------------------- MODULE NcsiConnection_proofs -------------------------
(***************************************************************************)
(* What the loop of ncsi::StateMachine does to the connection over time:   *)
(* it implements NcsiConnection, it disables itself only after the resets, *)
(* and it gives up a configured connection only after the last try.  The   *)
(* invariant of NcsiStateMachine_proofs is strengthened by what these      *)
(* three need to know about the acknowledgements and the tries.            *)
(***************************************************************************)
EXTENDS NcsiStateMachine_proofs

USE DEF Channel
USE DEF RESTART, CLEAR_0, CLEAR_0_RESPONSE, GET_VERSION, GET_VERSION_RESPONSE,
        GET_CAPABILITIES, GET_CAPABILITIES_RESPONSE, CLEAR_1, CLEAR_1_RESPONSE,
        RESET_CHANNEL_0, RESET_CHANNEL_0_RESPONSE, RESET_CHANNEL_1, STOPPED,
        GET_MAC, GET_MAC_RESPONSE, SET_MAC_FILTER_0, SET_MAC_FILTER_0_RESPONSE,
        SET_MAC_FILTER_1, ENABLE_CHANNEL_0, ENABLE_CHANNEL_0_RESPONSE,
        ENABLE_CHANNEL_1, ENABLE_TX, L2_CONFIG_END, L3L4_CONFIG_BEGIN,
        CONFIG_FILTERS, L3L4_CONFIG_END, TEST_PARAMS, ECHO, ECHO_RESPONSE,
        CHECK_FILTERS, CHECK_FILTERS_RESPONSE, GET_PT_STATS,
        GET_PT_STATS_RESPONSE, GET_LINK_STATUS, GET_LINK_STATUS_RESPONSE,
        TEST_END

(* On its way to the stop, what the machine has reset so far.              *)
ResetsSoFar ==
  /\ l2_config_state \in RESET_CHANNEL_1..STOPPED =>
       <<"RESET_CHANNEL", 0>> \in acked
  /\ l2_config_state = STOPPED /\ channel_count = 2 =>
       <<"RESET_CHANNEL", 1>> \in acked

(* On a configured connection tries counts the retries since the last good *)
(* test, whatever it was initialised to.                                   *)
CountsAgree ==
  l3l4_config_state = L3L4_CONFIG_END /\ test_state # TEST_END =>
    tries = retries /\ tries < MaxTries

(* The filters acknowledged are those of the channels behind, no others.   *)
ChannelsBehind ==
  IF l3l4_config_state = L3L4_CONFIG_END THEN channel_count ELSE l3l4_channel

ConfirmedExactly ==
  \A c \in Channel : <<"SET_FILTER", c>> \in acked <=> c < ChannelsBehind

DisabledWithoutLoopback == ~enabled => ~loopback

ConnInv == /\ IInv
           /\ ResetsSoFar
           /\ CountsAgree
           /\ ConfirmedExactly
           /\ DisabledWithoutLoopback

-------------------------------------------------------------------------------
(* The effects of the rounds.                                              *)
LEMMA L2AcceptedEffect ==
  ASSUME IInv, NEW rx, L2Round(rx), L2Accepted(rx)
  PROVE  /\ l2_config_state \in L2ResponseStates
         /\ l2_config_state' = L2NextState(l2_config_state, channel_count')
         /\ l2_config_state' \in L2State \ L2ResponseStates
         /\ l2_config_state' # RESTART
         /\ channel_count' \in 0..2
         /\ channel_count' # channel_count =>
              l2_config_state = GET_CAPABILITIES_RESPONSE
         /\ acked' = acked \cup {<<L2Command(l2_config_state - 1),
                                   L2Channel(l2_config_state - 1)>>}
  <1>1. /\ l2_config_state \in L2ResponseStates
        /\ l2_config_state' = L2NextState(l2_config_state, channel_count')
        /\ channel_count' \in 0..2
        /\ channel_count' # channel_count =>
             l2_config_state = GET_CAPABILITIES_RESPONSE
    BY DEF L2Accepted, L2Accepts, IInv, TypeOK, StateTypeOK
  <1>2. /\ l2_config_state' \in L2State \ L2ResponseStates
        /\ l2_config_state' # RESTART
    BY <1>1, NextStateType
  <1>3. response' = "ACK"
    BY DEF L2Accepted
  <1>4. acked' = acked \cup {<<L2Command(l2_config_state - 1),
                               L2Channel(l2_config_state - 1)>>}
    BY <1>1, <1>2, <1>3 DEF L2Round, RecordAck, IInv, AwaitsLastRequest
  <1> QED
    BY <1>1, <1>2, <1>4

LEMMA L2SilentEffect ==
  ASSUME IInv, NEW rx, L2Round(rx),
         L2Restart \/ L2Send(host_mac) \/ L2SkipReset
  PROVE  /\ l2_config_state \in L2State \ L2ResponseStates
         /\ l2_config_state \in 0..25
         /\ l2_config_state' \in
              {l2_config_state, l2_config_state + 1, GET_MAC}
         /\ l2_config_state' = l2_config_state => l2_config_state = RESTART
         /\ l2_config_state' # L2_CONFIG_END
         /\ channel_count' = channel_count
         /\ acked' = IF l2_config_state' = RESTART THEN {} ELSE acked
         /\ UNCHANGED <<enabled, loopback, l3l4_config_state, l3l4_channel,
                        hostless>>
  <1>1. /\ l2_config_state \in 0..25
        /\ l2_config_state \notin L2ResponseStates
        /\ l2_config_state' \in
             {l2_config_state, l2_config_state + 1, GET_MAC}
        /\ l2_config_state' = l2_config_state => l2_config_state = RESTART
        /\ l2_config_state' # L2_CONFIG_END
    BY DEF L2Restart, L2Send, L2SkipReset, L2SendStates, L2ResponseStates
  <1>2. response' = "NONE"
    BY DEF L2Restart, L2Send, L2SkipReset
  <1>3. acked' = IF l2_config_state' = RESTART THEN {} ELSE acked
    BY <1>2 DEF L2Round, RecordAck
  <1>4. /\ channel_count' = channel_count
        /\ UNCHANGED <<enabled, loopback, l3l4_config_state, l3l4_channel>>
    BY DEF L2Restart, L2Send, L2SkipReset, L2Unchanged
  <1>5. hostless' = hostless
    BY DEF L2Round, PollL2
  <1>6. l2_config_state \in L2State
    BY DEF IInv, TypeOK, StateTypeOK
  <1> QED
    BY <1>1, <1>3, <1>4, <1>5, <1>6

LEMMA L2RoundState ==
  ASSUME IInv, NEW rx, L2Round(rx)
  PROVE  /\ enabled
         /\ l2_config_state # L2_CONFIG_END
         /\ l3l4_config_state = L3L4_CONFIG_BEGIN
         /\ l3l4_channel = 0
  BY DEF L2Round, ConnectionState, IInv, FsmsRestartTogether,
     L3L4BetweenTests

LEMMA L3L4RoundState ==
  ASSUME IInv, NEW rx, L3L4Round(rx)
  PROVE  /\ l2_config_state = L2_CONFIG_END
         /\ l3l4_config_state \in {L3L4_CONFIG_BEGIN, CONFIG_FILTERS}
         /\ test_state = TEST_END
         /\ l3l4_channel \in Channel
         /\ channel_count \in {1, 2}
         /\ l3l4_channel < channel_count
         /\ l3l4_config_state = L3L4_CONFIG_BEGIN => l3l4_channel = 0
         /\ hostless = "hostful"
         /\ enabled
         /\ ~loopback
  <1>1. /\ l2_config_state = L2_CONFIG_END
        /\ l3l4_config_state \in {L3L4_CONFIG_BEGIN, CONFIG_FILTERS}
        /\ test_state = TEST_END
        /\ ~IsHostless(flowsteering, channel_count)
        /\ enabled
    BY DEF L3L4Round, ConnectionState, IInv, TypeOK, StateTypeOK
  <1>2. /\ l3l4_channel \in Channel
        /\ channel_count \in {1, 2}
        /\ l3l4_channel < channel_count
        /\ l3l4_config_state = L3L4_CONFIG_BEGIN => l3l4_channel = 0
        /\ ~loopback
    BY <1>1 DEF IInv, TypeOK, StateTypeOK, ChannelsExist, L3L4BetweenTests,
       LoopbackOnlyWhileSilent
  <1>3. hostless = "hostful"
    BY <1>1 DEF IInv, ReportedModeIsCurrent, Mode
  <1> QED
    BY <1>1, <1>2, <1>3

(* An acknowledged SET_FILTER, the only one of the L3/L4 machine.          *)
LEMMA L3L4StepEffect ==
  ASSUME IInv, NEW rx, L3L4Round(rx), L3L4Send(host_mac) \/ L3L4Accepted(rx)
  PROVE  /\ UNCHANGED <<l2_config_state, test_state, channel_count, enabled,
                        loopback, tries, retries, hostless>>
         /\ \/ /\ l3l4_config_state' = CONFIG_FILTERS
               /\ l3l4_channel' = l3l4_channel
               /\ acked' = acked
            \/ /\ l3l4_config_state' =
                    IF AllChannelsDone THEN L3L4_CONFIG_END ELSE CONFIG_FILTERS
               /\ l3l4_channel' =
                    IF AllChannelsDone THEN 0 ELSE l3l4_channel + 1
               /\ acked' = acked \cup {<<"SET_FILTER", l3l4_channel>>}
  <1> USE L3L4RoundState
  <1>1. /\ UNCHANGED <<l2_config_state, test_state, channel_count>>
        /\ UNCHANGED <<enabled, loopback, tries>>
    BY DEF L3L4Send, L3L4Accepted, L3L4Unchanged, debugVars
  <1>2. retries' = retries
    BY <1>1 DEF L3L4Round
  <1>3. CASE L3L4Send(host_mac)
    <2>1. response' = "NONE"
      BY <1>3 DEF L3L4Send
    <2>2. acked' = acked
      BY <1>1, <2>1 DEF L3L4Round, RecordAck
    <2>3. hostless' = hostless
      BY <2>1 DEF L3L4Round, SimpleEffects
    <2>4. /\ l3l4_config_state' = CONFIG_FILTERS
          /\ l3l4_channel' = l3l4_channel
      BY <1>3 DEF L3L4Send
    <2> QED
      BY <1>1, <1>2, <2>2, <2>3, <2>4
  <1>4. CASE L3L4Accepted(rx)
    <2>1. /\ l3l4_config_state = CONFIG_FILTERS
          /\ tx.cmd = "SET_FILTER"
          /\ tx.ch = l3l4_channel
          /\ response' = "ACK"
      BY <1>4 DEF L3L4Accepted, L3L4Waiting, IInv, AwaitsLastRequest
    <2>2. acked' = acked \cup {<<"SET_FILTER", l3l4_channel>>}
      BY <1>1, <2>1 DEF L3L4Round, RecordAck
    <2>3. rx.cmd = "SET_FILTER"
      <3>1. ValidateResponse(rx, "SET_FILTER", FALSE) = "ACK"
        BY <1>4 DEF L3L4Accepted, L3L4Verdict
      <3> QED
        BY ONLY <3>1, AckMatches, Zenon
    <2>4. hostless' = hostless
      BY <2>3 DEF L3L4Round, SimpleEffects, IsResponseTo
    <2>5. /\ l3l4_config_state' =
               IF AllChannelsDone THEN L3L4_CONFIG_END ELSE CONFIG_FILTERS
          /\ l3l4_channel' = IF AllChannelsDone THEN 0 ELSE l3l4_channel + 1
      BY <1>4, <2>1 DEF L3L4Accepted
    <2> QED
      BY <1>1, <1>2, <2>2, <2>4, <2>5
  <1> QED
    BY <1>3, <1>4

(* A round that clears the state, of any machine.                          *)
LEMMA ClearedEffect ==
  ASSUME NEW rx, ClearState,
         L2Round(rx) \/ L3L4Round(rx) \/ TestRound(rx)
  PROVE  /\ acked' = {}
         /\ l2_config_state' = RESTART
         /\ l3l4_config_state' = L3L4_CONFIG_BEGIN
         /\ l3l4_channel' = 0
         /\ hostless' \in {hostless, "hostful"}
  <1>1. /\ acked' = {}
        /\ l2_config_state' = RESTART
        /\ l3l4_config_state' = L3L4_CONFIG_BEGIN
        /\ l3l4_channel' = 0
    BY DEF ClearState, L2Round, L3L4Round, TestRound, RecordAck
  <1>2. Mode(flowsteering', channel_count') = "hostful"
    BY DEF ClearState, Mode, IsHostless
  <1>3. CASE L2Round(rx)
    BY <1>1, <1>3 DEF L2Round, PollL2
  <1>4. CASE L3L4Round(rx) \/ TestRound(rx)
    BY <1>1, <1>2, <1>4 DEF L3L4Round, TestRound, SimpleEffects
  <1> QED
    BY <1>3, <1>4

-------------------------------------------------------------------------------
(* The strengthened invariant.                                             *)
LEMMA ConnClears ==
  ASSUME acked' = {}, l2_config_state' = RESTART,
         l3l4_config_state' = L3L4_CONFIG_BEGIN, l3l4_channel' = 0
  PROVE  ResetsSoFar' /\ CountsAgree' /\ ConfirmedExactly'
  BY DEF ResetsSoFar, CountsAgree, ConfirmedExactly, ChannelsBehind

LEMMA ConnL2Round ==
  ASSUME ConnInv, NEW rx, L2Round(rx)
  PROVE  /\ ResetsSoFar' /\ CountsAgree' /\ ConfirmedExactly'
         /\ DisabledWithoutLoopback'
  <1> USE DEF ConnInv
  <1>0. \A c \in Channel : <<"SET_FILTER", c>> \notin acked
    BY L2RoundState DEF ConfirmedExactly, ChannelsBehind
  <1>1. CASE L2Accepted(rx)
    <2> DEFINE cmd == L2Command(l2_config_state - 1)
               ch == L2Channel(l2_config_state - 1)
    <2>1. /\ l2_config_state \in L2ResponseStates
          /\ l2_config_state' = L2NextState(l2_config_state, channel_count')
          /\ channel_count' # channel_count =>
               l2_config_state = GET_CAPABILITIES_RESPONSE
          /\ acked' = acked \cup {<<cmd, ch>>}
      BY <1>1, L2AcceptedEffect
    <2>2. /\ l3l4_config_state' = L3L4_CONFIG_BEGIN
          /\ l3l4_channel' = 0
          /\ enabled'
      BY <1>1, L2RoundState DEF L2Accepted, L2Unchanged
    <2>3. cmd # "SET_FILTER"
      BY <2>1 DEF L2ResponseStates, L2SendStates, L2Command
    <2>4. ConfirmedExactly'
      BY <1>0, <2>1, <2>2, <2>3 DEF ConfirmedExactly, ChannelsBehind
    <2>5. ResetsSoFar'
      <3>1. CASE l2_config_state = RESET_CHANNEL_0_RESPONSE
        <4>1. cmd = "RESET_CHANNEL" /\ ch = 0
          BY <3>1 DEF L2Command, L2Channel
        <4>2. l2_config_state' = STOPPED => channel_count' = 1
          BY <2>1, <3>1 DEF L2NextState, GoToNextChannel
        <4> QED
          BY <2>1, <4>1, <4>2 DEF ResetsSoFar
      <3>2. CASE l2_config_state = RESET_CHANNEL_1 + 1
        <4>1. cmd = "RESET_CHANNEL" /\ ch = 1
          BY <3>2 DEF L2Command, L2Channel
        <4> QED
          BY <2>1, <3>2, <4>1 DEF ResetsSoFar
      <3>3. CASE l2_config_state \notin {RESET_CHANNEL_0_RESPONSE,
                                        RESET_CHANNEL_1 + 1}
        <4>1. l2_config_state' \notin RESET_CHANNEL_1..STOPPED
          BY <2>1, <3>3, L2AcceptedEffect, <1>1
             DEF L2NextState, GoToNextChannel, L2ResponseStates, L2SendStates
        <4> QED
          BY <4>1 DEF ResetsSoFar
      <3> QED
        BY <3>1, <3>2, <3>3
    <2> QED
      BY <2>2, <2>4, <2>5 DEF CountsAgree, DisabledWithoutLoopback
  <1>2. CASE L2Restart \/ L2Send(host_mac) \/ L2SkipReset
    <2>1. /\ l2_config_state \in L2State \ L2ResponseStates
          /\ l2_config_state' \in
               {l2_config_state, l2_config_state + 1, GET_MAC}
          /\ channel_count' = channel_count
          /\ acked' = IF l2_config_state' = RESTART THEN {} ELSE acked
          /\ UNCHANGED <<enabled, loopback, l3l4_config_state, l3l4_channel>>
      BY <1>2, L2SilentEffect
    <2>2. ResetsSoFar'
      BY <2>1 DEF ResetsSoFar, L2ResponseStates, L2SendStates, L2State
    <2>3. ConfirmedExactly' /\ CountsAgree'
      BY <1>0, <2>1, L2RoundState
         DEF ConfirmedExactly, ChannelsBehind, CountsAgree
    <2> QED
      BY <2>1, <2>2, <2>3 DEF DisabledWithoutLoopback
  <1>3. CASE L2Rejected(rx) \/ L2Stopped
    <2>1. ClearState
      BY <1>3 DEF L2Rejected, L2Stopped
    <2>2. ResetsSoFar' /\ CountsAgree' /\ ConfirmedExactly'
      BY <2>1, ClearedEffect, ConnClears
    <2>3. L2Rejected(rx) => enabled'
      BY L2RoundState DEF L2Rejected
    <2>4. L2Stopped => ~loopback'
      BY DEF L2Stopped, IInv, LoopbackOnlyWhileSilent
    <2> QED
      BY <1>3, <2>2, <2>3, <2>4 DEF DisabledWithoutLoopback
  <1> QED
    BY <1>1, <1>2, <1>3 DEF L2Round, PollL2, PollL2Config

LEMMA ConnL3L4Round ==
  ASSUME ConnInv, NEW rx, L3L4Round(rx)
  PROVE  /\ ResetsSoFar' /\ CountsAgree' /\ ConfirmedExactly'
         /\ DisabledWithoutLoopback'
  <1> USE DEF ConnInv
  <1>1. CASE L3L4Send(host_mac) \/ L3L4Accepted(rx)
    <2>1. /\ l2_config_state' = L2_CONFIG_END
          /\ test_state' = TEST_END
          /\ channel_count' = channel_count
          /\ enabled'
      BY <1>1, L3L4StepEffect, L3L4RoundState
    <2>2. ConfirmedExactly'
      <3>1. \A c \in Channel : <<"SET_FILTER", c>> \in acked <=> c < l3l4_channel
        BY L3L4RoundState DEF ConfirmedExactly, ChannelsBehind
      <3>2. /\ l3l4_channel \in Channel
            /\ channel_count \in {1, 2}
            /\ l3l4_channel < channel_count
        BY L3L4RoundState
      <3>3. CASE /\ l3l4_config_state' = CONFIG_FILTERS
                 /\ l3l4_channel' = l3l4_channel
                 /\ acked' = acked
        BY <3>1, <3>3 DEF ConfirmedExactly, ChannelsBehind
      <3>4. CASE
              /\ l3l4_config_state' =
                   IF AllChannelsDone THEN L3L4_CONFIG_END ELSE CONFIG_FILTERS
              /\ l3l4_channel' =
                   IF AllChannelsDone THEN 0 ELSE l3l4_channel + 1
              /\ acked' = acked \cup {<<"SET_FILTER", l3l4_channel>>}
        <4>1. ChannelsBehind' = l3l4_channel + 1
          BY <2>1, <3>2, <3>4 DEF ChannelsBehind, AllChannelsDone
        <4>2. \A c \in Channel :
                <<"SET_FILTER", c>> \in acked' <=> c < l3l4_channel + 1
          BY <3>1, <3>2, <3>4
        <4> QED
          BY <4>1, <4>2 DEF ConfirmedExactly
      <3> QED
        BY <1>1, <3>3, <3>4, L3L4StepEffect
    <2> QED
      BY <2>1, <2>2 DEF ResetsSoFar, CountsAgree, DisabledWithoutLoopback
  <1>2. CASE L3L4Rejected(rx)
    <2>1. ClearState /\ enabled'
      BY <1>2, L3L4RoundState DEF L3L4Rejected, debugVars
    <2> QED
      BY <2>1, ClearedEffect, ConnClears DEF DisabledWithoutLoopback
  <1> QED
    BY <1>1, <1>2 DEF L3L4Round, PollL3L4Config

LEMMA ConnTestRound ==
  ASSUME ConnInv, NEW rx, TestRound(rx)
  PROVE  /\ ResetsSoFar' /\ CountsAgree' /\ ConfirmedExactly'
         /\ DisabledWithoutLoopback'
  <1> USE DEF ConnInv
  <1> USE TestRoundState
  <1>1. CASE TestUnchanged
    <2>1. /\ acked' = acked
          /\ l2_config_state' = L2_CONFIG_END
          /\ UNCHANGED <<l3l4_config_state, l3l4_channel, channel_count>>
          /\ enabled'
      BY <1>1, TestStepFrame DEF TestUnchanged
    <2>2. ResetsSoFar' /\ ConfirmedExactly' /\ DisabledWithoutLoopback'
      BY <2>1 DEF ResetsSoFar, ConfirmedExactly, ChannelsBehind,
         DisabledWithoutLoopback
    <2>3. CountsAgree'
      <3>1. SUFFICES ASSUME l3l4_config_state = L3L4_CONFIG_END,
                            test_state' # TEST_END
                     PROVE  tries' = retries' /\ tries' < MaxTries
        BY <2>1 DEF CountsAgree
      <3>2. test_state \in TEST_PARAMS..TEST_END /\ tries \in 0..255
        BY DEF IInv, TypeOK, StateTypeOK, DebugTypeOK
      <3>3. CASE TestEnd
        BY <2>1, <3>3, MaxTriesAssumption DEF TestEnd, TestRound, RecordRetry
      <3>4. CASE TestRetried(rx, host_mac)
        <4>1. tries = retries /\ tries < MaxTries /\ test_state # TEST_END
          BY <3>1, <3>4 DEF CountsAgree, TestRetried, TestResponseStates,
             TestSendStates
        <4>2. RemainingTries = MaxTries - 1 - tries
          BY <3>2, <4>1, MaxTriesAssumption DEF RemainingTries
        <4>3. tries' = tries + 1 /\ tries + 1 < MaxTries
          BY <3>2, <3>4, <4>1, <4>2, MaxTriesAssumption DEF TestRetried
        <4>4. retries' = retries + 1
          BY <2>1, <3>4, <4>1 DEF TestRound, RecordRetry, TestRetried
        <4> QED
          BY <4>1, <4>3, <4>4
      <3>5. CASE TestParams \/ TestSend \/ TestPassed(rx, host_mac)
        <4>1. /\ tries' = tries
              /\ test_state # TEST_END
              /\ test_state' # TEST_PARAMS
          BY <3>2, <3>5 DEF TestParams, TestSend, TestPassed,
             TestResponseStates, TestSendStates
        <4>2. retries' = retries
          BY <2>1, <4>1 DEF TestRound, RecordRetry
        <4> QED
          BY <3>1, <4>1, <4>2 DEF CountsAgree
      <3>6. ~TestFailed(rx, host_mac)
        BY <1>1 DEF TestFailed, ClearState, TestUnchanged
      <3> QED
        BY <3>3, <3>4, <3>5, <3>6 DEF TestRound, PollTest
    <2> QED
      BY <2>2, <2>3
  <1>2. CASE ClearState /\ enabled' = enabled
    BY <1>2, ClearedEffect, ConnClears DEF DisabledWithoutLoopback
  <1> QED
    BY <1>1, <1>2 DEF TestRound, PollTest, TestParams, TestSend, TestPassed,
       TestRetried, TestFailed, TestEnd, TestUnchanged

(* The steps that touch neither the acknowledgements nor the tries.        *)
LEMMA ConnFrame ==
  ASSUME ConnInv,
         UNCHANGED <<stateVars, loopback, tries, acked, retries>>,
         enabled' = enabled \/ ~loopback
  PROVE  /\ ResetsSoFar' /\ CountsAgree' /\ ConfirmedExactly'
         /\ DisabledWithoutLoopback'
  BY DEF stateVars, ConnInv, ResetsSoFar, CountsAgree, ConfirmedExactly,
     ChannelsBehind, DisabledWithoutLoopback

LEMMA ConnInductive ==
  ASSUME ConnInv, [Next]_vars
  PROVE  ConnInv'
  <1>1. IInv'
    BY RoundKeeps, RequestKeeps, StutterKeeps DEF ConnInv, Next, RunRound
  <1>2. CASE RunRound
    <2>1. PICK rx \in RxPackets \cup {NoPacket} : Round(rx)
      BY <1>2 DEF RunRound
    <2>2. CASE L2Round(rx)
      BY <1>1, <2>2, ConnL2Round DEF ConnInv
    <2>3. CASE L3L4Round(rx)
      BY <1>1, <2>3, ConnL3L4Round DEF ConnInv
    <2>4. CASE TestRound(rx)
      BY <1>1, <2>4, ConnTestRound DEF ConnInv
    <2>5. CASE DisabledRound
      <3>1. /\ UNCHANGED <<stateVars, loopback, tries, acked, retries>>
            /\ ~loopback
        BY <2>5 DEF DisabledRound, ConnectionState, ConnInv,
           DisabledWithoutLoopback
      <3> QED
        BY <1>1, <3>1, ConnFrame DEF ConnInv
    <2> QED
      BY <2>1, <2>2, <2>3, <2>4, <2>5 DEF Round
  <1>3. CASE RequestStop \/ RequestRestart \/ UNCHANGED vars
    <2>1. /\ UNCHANGED <<stateVars, loopback, tries, acked, retries>>
          /\ enabled' = enabled
      BY <1>3 DEF RequestStop, RequestRestart, history, vars, fsmVars,
         debugVars
    <2> QED
      BY <1>1, <2>1, ConnFrame DEF ConnInv
  <1> QED
    BY <1>2, <1>3 DEF Next

LEMMA ConnInitially ==
  ASSUME Init
  PROVE  ConnInv
  <1>1. IInv
    BY InitEstablishes
  <1>2. /\ ResetsSoFar /\ CountsAgree /\ ConfirmedExactly
        /\ DisabledWithoutLoopback
    BY DEF Init, ResetsSoFar, CountsAgree, ConfirmedExactly, ChannelsBehind,
       DisabledWithoutLoopback
  <1> QED
    BY <1>1, <1>2 DEF ConnInv

(* The strengthened invariant holds in every reachable state.              *)
THEOREM ConnInvariance == Spec => []ConnInv
  BY ConnInitially, ConnInductive, PTL DEF Spec

-------------------------------------------------------------------------------
(* What a step that is no round, or a stuttering one, leaves alone.        *)
LEMMA QuietStep ==
  ASSUME RequestStop \/ RequestRestart \/ UNCHANGED vars
  PROVE  UNCHANGED <<stateVars, enabled, loopback, tries, hostless, acked,
                     retries>>
  BY DEF RequestStop, RequestRestart, vars, fsmVars, debugVars, smVars, history

(* The machine disables itself only once every channel of the NIC, which it*)
(* knows, acknowledged its reset (poll_l2_config(), STOPPED).              *)
LEMMA StopStep ==
  ASSUME ConnInv, [Next]_vars, enabled, ~enabled'
  PROVE  /\ channel_count \in {1, 2}
         /\ {"RESET_CHANNEL"} \X ReportedChannels \subseteq acked
  <1>1. PICK rx \in RxPackets \cup {NoPacket} : Round(rx)
    BY QuietStep DEF Next, RunRound
  <1>2. ~L3L4Round(rx)
    BY DEF L3L4Round, PollL3L4Config, L3L4Send, L3L4Accepted, L3L4Rejected,
       debugVars
  <1>3. ~TestRound(rx)
    BY DEF TestRound, PollTest, TestParams, TestSend, TestPassed, TestRetried,
       TestFailed, TestEnd, TestUnchanged
  <1>4. ~DisabledRound
    BY DEF DisabledRound, ConnectionState
  <1>5. L2Stopped
    BY <1>1, <1>2, <1>3, <1>4 DEF Round, L2Round, PollL2, PollL2Config,
       L2Restart, L2Send, L2SkipReset, L2Accepted, L2Rejected
  <1>6. /\ channel_count \in {1, 2}
        /\ <<"RESET_CHANNEL", 0>> \in acked
        /\ channel_count = 2 => <<"RESET_CHANNEL", 1>> \in acked
    BY <1>5 DEF L2Stopped, ConnInv, ResetsSoFar, IInv, ChannelsExist
  <1>7. ASSUME NEW x \in {"RESET_CHANNEL"} \X ReportedChannels
        PROVE  x \in acked
    <2>1. PICK c \in ReportedChannels : x = <<"RESET_CHANNEL", c>>
      OBVIOUS
    <2>2. c = 0 \/ (channel_count = 2 /\ c = 1)
      BY <1>6, <2>1 DEF ReportedChannels
    <2> QED
      BY <1>6, <2>1, <2>2
  <1> QED
    BY <1>6, <1>7, Zenon

(* A stop is never taken before the NIC has been reset on every channel.   *)
THEOREM StopAfterReset == Spec => StopsOnlyAfterReset
  <1>1. ConnInv /\ [Next]_vars =>
          [enabled /\ ~enabled' =>
             /\ channel_count \in {1, 2}
             /\ {"RESET_CHANNEL"} \X ReportedChannels \subseteq acked]_vars
    BY StopStep
  <1> QED
    BY <1>1, ConnInvariance, PTL DEF Spec, StopsOnlyAfterReset

-------------------------------------------------------------------------------
(* A configured connection is given up only on the last try of a test, or  *)
(* between two tests because a restart is pending.                         *)
LEMMA TearDownStep ==
  ASSUME ConnInv, [Next]_vars, ConnectionState = "UP_AND_CONFIGURED",
         ConnectionState' # "UP_AND_CONFIGURED"
  PROVE  retries = MaxTries - 1 \/ (test_state = TEST_END /\ pending_restart)
  <1>1. /\ enabled
        /\ l2_config_state = L2_CONFIG_END
        /\ l3l4_config_state = L3L4_CONFIG_END
    BY DEF ConnectionState
  <1>2. ~UNCHANGED <<l2_config_state, l3l4_config_state, enabled>>
    BY DEF ConnectionState
  <1>3. PICK rx \in RxPackets \cup {NoPacket} : Round(rx)
    BY <1>2, QuietStep DEF Next, RunRound, stateVars
  <1>4. TestRound(rx)
    BY <1>3 DEF Round, L2Round, L3L4Round, DisabledRound, ConnectionState
  <1>5. ~TestUnchanged
    BY <1>2 DEF TestUnchanged
  <1>6. TestFailed(rx, host_mac) \/ (TestEnd /\ pending_restart)
    BY <1>4, <1>5 DEF TestRound, PollTest, TestParams, TestSend, TestPassed,
       TestRetried, TestEnd, TestUnchanged
  <1>7. CASE TestFailed(rx, host_mac)
    <2>1. test_state # TEST_END /\ RemainingTries = 0
      BY <1>7 DEF TestFailed, TestResponseStates, TestSendStates
    <2>2. tries = retries /\ tries < MaxTries /\ tries \in 0..255
      BY <1>1, <2>1 DEF ConnInv, CountsAgree, IInv, TypeOK, DebugTypeOK
    <2> QED
      BY <2>1, <2>2, MaxTriesAssumption DEF RemainingTries
  <1> QED
    BY <1>6, <1>7 DEF TestEnd

(* A response lost under load tears nothing down.                          *)
THEOREM TearDownAfterAllTries == Spec => TornDownAfterAllTries
  <1>1. ConnInv /\ [Next]_vars =>
          [ConnectionState = "UP_AND_CONFIGURED"
             /\ ConnectionState' # "UP_AND_CONFIGURED"
           => \/ retries = MaxTries - 1
              \/ test_state = TEST_END /\ pending_restart]_vars
    BY TearDownStep
  <1> QED
    BY <1>1, ConnInvariance, PTL DEF Spec, TornDownAfterAllTries

-------------------------------------------------------------------------------
(* The refinement.  The values NcsiConnection's variables stand for:       *)
Confirmed == {c \in Channel : <<"SET_FILTER", c>> \in acked}
Channels == IF l2_config_state = L2_CONFIG_END THEN channel_count ELSE 0

LEMMA ConfirmedIs == ConnInv => Confirmed = 0..ChannelsBehind - 1
  <1> SUFFICES ASSUME ConnInv PROVE Confirmed = 0..ChannelsBehind - 1
    OBVIOUS
  <1>1. ChannelsBehind \in 0..2
    BY DEF ConnInv, IInv, TypeOK, StateTypeOK, ChannelsBehind
  <1>2. \A c \in Channel : c \in Confirmed <=> c < ChannelsBehind
    BY DEF ConnInv, ConfirmedExactly, Confirmed
  <1>3. Confirmed \subseteq Channel
    BY DEF Confirmed
  <1>4. \A c \in Channel : c \in 0..ChannelsBehind - 1 <=> c < ChannelsBehind
    BY <1>1
  <1>5. 0..ChannelsBehind - 1 \subseteq Channel
    BY <1>1
  <1> QED
    BY ONLY <1>2, <1>3, <1>4, <1>5, Zenon

LEMMA NothingConfirmed ==
  ConnInv /\ l2_config_state # L2_CONFIG_END => Confirmed = {} /\ Channels = 0
  BY ConfirmedIs DEF Channels, ChannelsBehind, ConnInv, IInv,
     FsmsRestartTogether, L3L4BetweenTests

(* The same of the state after a step.                                     *)
LEMMA ConfirmedNext ==
  /\ ConnInv' => Confirmed' = 0..ChannelsBehind' - 1
  /\ ConnInv' /\ l2_config_state' # L2_CONFIG_END =>
       Confirmed' = {} /\ Channels' = 0
  <1>1. (ConnInv => Confirmed = 0..ChannelsBehind - 1)'
    BY ConfirmedIs, PTL
  <1>2. (ConnInv /\ l2_config_state # L2_CONFIG_END =>
           Confirmed = {} /\ Channels = 0)'
    BY NothingConfirmed, PTL
  <1> QED
    BY <1>1, <1>2

LEMMA ConnectionInit ==
  ASSUME Init
  PROVE  Connection!Init
  BY DEF Init, Connection!Init, ConnectionState

LEMMA L2Refines ==
  ASSUME ConnInv, ConnInv', NEW rx, L2Round(rx)
  PROVE  [Connection!Next]_(Connection!vars)
  <1>1. /\ ConnectionState \in {"DOWN", "LOOPBACK"}
        /\ hostless' = hostless
        /\ Confirmed = {} /\ Channels = 0
    BY L2RoundState, NothingConfirmed DEF L2Round, PollL2, ConnInv
  <1>2. CASE l2_config_state' = L2_CONFIG_END
    <2>1. L2Accepted(rx) /\ l2_config_state = ENABLE_TX + 1
      BY <1>2, L2SilentEffect, L2AcceptedEffect
         DEF L2Round, PollL2, PollL2Config, L2Rejected, L2Stopped, ClearState,
             ConnInv, L2ResponseStates, L2SendStates, L2NextState,
             GoToNextChannel
    <2>2. enabled /\ enabled' /\ ~loopback
      BY <2>1, L2RoundState DEF L2Accepted, ConnInv, IInv,
         LoopbackOnlyWhileSilent
    <2>3. l3l4_config_state' = L3L4_CONFIG_BEGIN /\ l3l4_channel' = 0
      BY <2>1, L2RoundState DEF L2Accepted, L2Unchanged, ConnInv
    <2>4. ConnectionState = "DOWN" /\ ConnectionState' = "UP"
      BY <1>1, <1>2, <2>2, <2>3 DEF ConnectionState
    <2>5. Confirmed' = {}
      BY <2>3, ConfirmedNext DEF ChannelsBehind
    <2>6. Channels' \in {1, 2}
      BY <1>2 DEF Channels, ConnInv, IInv, ChannelsExist
    <2>7. Connection!Connect
      BY <1>1, <2>4, <2>5, <2>6 DEF Connection!Connect, Confirmed, Channels
    <2> QED
      BY <2>7 DEF Connection!Next
  <1>3. CASE l2_config_state' # L2_CONFIG_END
    <2>1. Confirmed' = {} /\ Channels' = 0
      BY <1>3, ConfirmedNext
    <2>2. CASE enabled'
      <3>1. ConnectionState' \in {"DOWN", "LOOPBACK"}
        BY <1>3, <2>2 DEF ConnectionState
      <3>2. Connection!SenseLoopback
        BY <1>1, <2>1, <3>1 DEF Connection!SenseLoopback, Connection!Down,
           Confirmed, Channels
      <3> QED
        BY <3>2 DEF Connection!Next
    <2>3. CASE ~enabled'
      <3>1. l2_config_state = STOPPED
        <4>1. enabled
          BY L2RoundState DEF ConnInv
        <4>2. L2Stopped
          BY <2>3, <4>1
             DEF L2Round, PollL2, PollL2Config, L2Restart, L2Send, L2SkipReset,
                 L2Accepted, L2Rejected
        <4> QED
          BY <4>2 DEF L2Stopped
      <3>2. ~loopback
        BY <3>1 DEF ConnInv, IInv, LoopbackOnlyWhileSilent
      <3>3. ConnectionState = "DOWN" /\ ConnectionState' = "DISABLED"
        BY <1>1, <2>3, <3>2 DEF ConnectionState
      <3>4. Connection!Disable
        BY <1>1, <2>1, <3>3 DEF Connection!Disable, Confirmed, Channels
      <3> QED
        BY <3>4 DEF Connection!Next
    <2> QED
      BY <2>2, <2>3
  <1> QED
    BY <1>2, <1>3

(* A failure of the machines of a connection that is up.                   *)
LEMMA ClearedRefines ==
  ASSUME ConnInv, ConnInv', NEW rx, L3L4Round(rx) \/ TestRound(rx),
         ClearState, enabled' = enabled, loopback' = loopback
  PROVE  Connection!Restart
  <1>1. ConnectionState \in {"UP", "UP_AND_CONFIGURED"} /\ enabled /\ ~loopback
    BY L3L4RoundState, TestRoundState
       DEF L3L4Round, TestRound, ConnInv
  <1>2. /\ l2_config_state' = RESTART
        /\ hostless' \in {hostless, "hostful"}
    BY ClearedEffect
  <1>3. ConnectionState' = "DOWN"
    BY <1>1, <1>2 DEF ConnectionState
  <1>4. Confirmed' = {} /\ Channels' = 0
    BY <1>2, ConfirmedNext
  <1> QED
    BY <1>1, <1>2, <1>3, <1>4 DEF Connection!Restart, Connection!Up,
       Confirmed, Channels

LEMMA L3L4Refines ==
  ASSUME ConnInv, ConnInv', NEW rx, L3L4Round(rx)
  PROVE  [Connection!Next]_(Connection!vars)
  <1>1. CASE L3L4Rejected(rx)
    <2>1. ClearState /\ enabled' = enabled /\ loopback' = loopback
      BY <1>1 DEF L3L4Rejected, debugVars
    <2> QED
      BY <2>1, ClearedRefines DEF Connection!Next
  <1>2. CASE L3L4Send(host_mac) \/ L3L4Accepted(rx)
    <2>1. /\ l2_config_state = L2_CONFIG_END
          /\ l3l4_config_state # L3L4_CONFIG_END
          /\ l3l4_channel \in Channel
          /\ channel_count \in {1, 2}
          /\ l3l4_channel < channel_count
          /\ hostless = "hostful"
          /\ enabled
      BY L3L4RoundState DEF ConnInv
    <2>2. UNCHANGED <<l2_config_state, channel_count, enabled, hostless>>
      BY <1>2, L3L4StepEffect DEF ConnInv
    <2>3. /\ ConnectionState = "UP"
          /\ Channels = channel_count
          /\ Channels' = Channels
          /\ Confirmed = 0..l3l4_channel - 1
      BY <2>1, <2>2, ConfirmedIs DEF ConnectionState, Channels, ChannelsBehind
    <2>4. CASE /\ l3l4_config_state' = CONFIG_FILTERS
               /\ l3l4_channel' = l3l4_channel
               /\ acked' = acked
      <3>1. ConnectionState' = "UP" /\ Confirmed' = Confirmed
        BY <2>1, <2>2, <2>4 DEF ConnectionState, Confirmed
      <3> QED
        BY <2>2, <2>3, <3>1 DEF Connection!vars, Confirmed, Channels
    <2>5. CASE
            /\ l3l4_config_state' =
                 IF AllChannelsDone THEN L3L4_CONFIG_END ELSE CONFIG_FILTERS
            /\ l3l4_channel' = IF AllChannelsDone THEN 0 ELSE l3l4_channel + 1
            /\ acked' = acked \cup {<<"SET_FILTER", l3l4_channel>>}
      <3>1. Confirmed' = Confirmed \cup {l3l4_channel}
        BY <2>1, <2>5 DEF Confirmed
      <3>2. Confirmed' = 0..l3l4_channel
        BY <2>1, <2>3, <3>1
      <3>3. l3l4_channel \in (0..Channels - 1) \ Confirmed
        BY <2>1, <2>3
      <3>4. Confirmed' = 0..Channels - 1 <=> AllChannelsDone
        BY <2>1, <2>3, <3>2 DEF AllChannelsDone
      <3>5. ConnectionState' = IF AllChannelsDone
                               THEN "UP_AND_CONFIGURED" ELSE "UP"
        BY <2>1, <2>2, <2>5 DEF ConnectionState
      <3>6. Connection!Confirm
        BY <2>1, <2>2, <2>3, <3>1, <3>3, <3>4, <3>5
           DEF Connection!Confirm, Confirmed, Channels
      <3> QED
        BY <3>6 DEF Connection!Next
    <2> QED
      BY <1>2, <2>4, <2>5, L3L4StepEffect DEF ConnInv
  <1> QED
    BY <1>1, <1>2 DEF L3L4Round, PollL3L4Config

LEMMA TestRefines ==
  ASSUME ConnInv, ConnInv', NEW rx, TestRound(rx)
  PROVE  [Connection!Next]_(Connection!vars)
  <1>1. CASE ClearState /\ enabled' = enabled /\ loopback' = loopback
    BY <1>1, ClearedRefines DEF Connection!Next
  <1>2. CASE TestUnchanged
    <2>1. acked' = acked
      BY <1>2, TestStepFrame DEF ConnInv
    <2>2. ConnectionState' = ConnectionState /\ Channels' = Channels
      BY <1>2 DEF TestUnchanged, ConnectionState, Channels
    <2>3. ConnectionState \in {"UP", "UP_AND_CONFIGURED"}
      BY DEF TestRound
    <2>4. hostless' \in {hostless, "hostless", "hostful"}
      BY DEF TestRound, SimpleEffects, Mode
    <2>5. Confirmed' = Confirmed
      BY <2>1 DEF Confirmed
    <2>6. CASE hostless' = hostless
      BY <2>2, <2>5, <2>6 DEF Connection!vars, Confirmed, Channels
    <2>7. CASE hostless' \in {"hostless", "hostful"}
      <3>1. Connection!Report
        BY <2>2, <2>3, <2>5, <2>7 DEF Connection!Report, Connection!Up,
           Confirmed, Channels
      <3> QED
        BY <3>1 DEF Connection!Next
    <2> QED
      BY <2>4, <2>6, <2>7
  <1> QED
    BY <1>1, <1>2 DEF TestRound, PollTest, TestParams, TestSend, TestPassed,
       TestRetried, TestFailed, TestEnd, TestUnchanged

LEMMA DisabledRefines ==
  ASSUME ConnInv, ConnInv', DisabledRound
  PROVE  [Connection!Next]_(Connection!vars)
  <1>1. /\ ConnectionState = "DISABLED"
        /\ UNCHANGED <<stateVars, loopback, hostless, acked>>
        /\ ~loopback
        /\ l2_config_state # L2_CONFIG_END
    BY DEF DisabledRound, ConnectionState, ConnInv, DisabledWithoutLoopback,
       IInv, DisabledAtStart
  <1>2. ConnectionState' \in {"DISABLED", "DOWN"}
    BY <1>1 DEF ConnectionState, stateVars
  <1>3. Confirmed' = Confirmed /\ Channels' = Channels
    BY <1>1 DEF stateVars, Confirmed, Channels
  <1>4. CASE ConnectionState' = "DISABLED"
    BY <1>1, <1>3, <1>4 DEF Connection!vars, Confirmed, Channels
  <1>5. CASE ConnectionState' = "DOWN"
    <2>1. Connection!Enable
      BY <1>1, <1>3, <1>5 DEF Connection!Enable, Confirmed, Channels
    <2> QED
      BY <2>1 DEF Connection!Next
  <1> QED
    BY <1>2, <1>4, <1>5

LEMMA ConnectionStep ==
  ASSUME ConnInv, ConnInv', [Next]_vars
  PROVE  [Connection!Next]_(Connection!vars)
  <1>1. CASE RunRound
    <2>1. PICK rx \in RxPackets \cup {NoPacket} : Round(rx)
      BY <1>1 DEF RunRound
    <2> QED
      BY <2>1, L2Refines, L3L4Refines, TestRefines, DisabledRefines DEF Round
  <1>2. CASE RequestStop \/ RequestRestart \/ UNCHANGED vars
    <2>1. UNCHANGED <<stateVars, enabled, loopback, hostless, acked>>
      BY <1>2, QuietStep
    <2>2. /\ ConnectionState' = ConnectionState
          /\ Confirmed' = Confirmed
          /\ Channels' = Channels
      BY <2>1 DEF stateVars, ConnectionState, Confirmed, Channels
    <2> QED
      BY <2>1, <2>2 DEF Connection!vars, Confirmed, Channels
  <1> QED
    BY <1>1, <1>2 DEF Next

(* Every round of the loop is a step of the promised connection or none.   *)
THEOREM LoopImplementsConnection == Spec => ImplementsConnection
  BY ConnectionInit, ConnectionStep, ConnInvariance, PTL
     DEF Spec, ImplementsConnection, Connection!Spec
===============================================================================
