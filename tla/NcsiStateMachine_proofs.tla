----------------------- MODULE NcsiStateMachine_proofs ------------------------
(***************************************************************************)
(* Proofs about NcsiStateMachine, for every set of packets the wire can    *)
(* deliver, every initial value of test.tries, every owner, every restart  *)
(* delay and every number of tries.                                        *)
(***************************************************************************)
EXTENDS NcsiStateMachine, TLAPS

USE DEF Channel
USE DEF RESTART, CLEAR_0, CLEAR_0_RESPONSE, GET_VERSION, GET_VERSION_RESPONSE,
        GET_CAPABILITIES, GET_CAPABILITIES_RESPONSE, CLEAR_1, CLEAR_1_RESPONSE,
        RESET_CHANNEL_0, RESET_CHANNEL_0_RESPONSE, RESET_CHANNEL_1, STOPPED,
        GET_MAC, GET_MAC_RESPONSE, SET_MAC_FILTER_0, SET_MAC_FILTER_0_RESPONSE,
        SET_MAC_FILTER_1, ENABLE_CHANNEL_0, ENABLE_CHANNEL_0_RESPONSE,
        ENABLE_CHANNEL_1, ENABLE_TX, L2_CONFIG_END, L3L4_CONFIG_BEGIN,
        CONFIG_FILTERS, L3L4_CONFIG_END, TEST_PARAMS, ECHO, ECHO_RESPONSE,
        CHECK_FILTERS, CHECK_FILTERS_RESPONSE, GET_PT_STATS,
        GET_PT_STATS_RESPONSE, GET_LINK_STATUS, GET_LINK_STATUS_RESPONSE,
        TEST_END

Command == StdCommand \cup OemCommand

-------------------------------------------------------------------------------
(* Every L2 send state has a command and a channel.                        *)
LEMMA L2CommandType ==
  ASSUME NEW s \in L2SendStates
  PROVE  L2Command(s) \in Command /\ L2Channel(s) \in Channel
  BY DEF L2SendStates, L2Command, L2Channel, Command, StdCommand, OemCommand,
         Channel

LEMMA TestCommandType ==
  ASSUME NEW s \in TestSendStates
  PROVE  TestCommand(s) \in Command
  BY DEF TestSendStates, TestCommand, Command, StdCommand, OemCommand

(* A response is always judged, and never as no response at all.           *)
LEMMA VerdictType ==
  ASSUME NEW rx, NEW want, NEW legacy
  PROVE  ValidateResponse(rx, want, legacy) \in ResponseType \ {"NONE"}
  BY DEF ValidateResponse, ResponseType

LEMMA RequestType ==
  ASSUME NEW c \in Command, NEW ch \in Channel, NEW mac \in Mac \cup {NoMac}
  PROVE  /\ Request(c, ch, mac) \in Requests
         /\ Request(c, ch, mac).cmd = c
         /\ Request(c, ch, mac).ch = ch
  BY DEF Request, Requests, Command

(* The states reached by an acknowledgement are no response states.        *)
LEMMA NextStateType ==
  ASSUME NEW s \in L2ResponseStates, NEW count \in 0..2
  PROVE  /\ L2NextState(s, count) \in L2State \ L2ResponseStates
         /\ L2NextState(s, count) # RESTART
  BY DEF L2ResponseStates, L2SendStates, L2NextState, GoToNextChannel, L2State

-------------------------------------------------------------------------------
(* What a failure leaves behind.                                           *)
LEMMA Cleared ==
  ASSUME ClearState, tx' = NoRequest, acked' = {}
  PROVE  /\ StateTypeOK'
         /\ FsmsRestartTogether'
         /\ AwaitsLastRequest'
         /\ NoTrafficToAbsentChannel'
         /\ LoopbackOnlyWhileSilent'
         /\ ReportedModeIsCurrent'
         /\ ChannelsExist'
         /\ DisabledAtStart'
         /\ L3L4BetweenTests'
         /\ HandshakeSoFar'
         /\ FiltersSoFar'
  <1> USE DEF ClearState
  <1>1. StateTypeOK'
    <2>1. l2_config_state' \in L2State
      BY DEF L2State
    <2>2. l3l4_waiting_response' \in BOOLEAN
      OBVIOUS
    <2>3. flowsteering' \in [Channel -> BOOLEAN]
      OBVIOUS
    <2> QED
      BY <2>1, <2>2, <2>3, RestartDelayAssumption DEF StateTypeOK
  <1>2. FsmsRestartTogether' /\ DisabledAtStart' /\ LoopbackOnlyWhileSilent'
    BY DEF FsmsRestartTogether, DisabledAtStart, LoopbackOnlyWhileSilent, Channel
  <1>3. AwaitsLastRequest' /\ NoTrafficToAbsentChannel'
    BY DEF AwaitsLastRequest, NoTrafficToAbsentChannel, L2ResponseStates,
           L2SendStates, TestResponseStates, TestSendStates, NoRequest, Request
  <1>4. ReportedModeIsCurrent' /\ L3L4BetweenTests' /\ ChannelsExist'
    BY DEF ReportedModeIsCurrent, L3L4BetweenTests, ChannelsExist
  <1>5. HandshakeSoFar' /\ FiltersSoFar'
    BY DEF HandshakeSoFar, FiltersSoFar, ReportedChannels, L2SendStates
  <1> QED
    BY <1>1, <1>2, <1>3, <1>4, <1>5

-------------------------------------------------------------------------------
(* The effects of a round on the variables of StateMachine.                *)
LEMMA ErrorType ==
  ASSUME NEW verdict \in ResponseType, ReportNcsiError(verdict)
  PROVE  rx_error' \in {"none", "timeout", "undersized", "nack",
                        "unexpected_type", "unexpected_size",
                        "filter_mismatch"}
  BY DEF ReportNcsiError, ResponseType

LEMMA RxType ==
  ASSUME NEW rx \in RxPackets \cup {NoPacket}
  PROVE  rx.mac \in Mac \cup {NoMac} /\ rx.flag \in BOOLEAN
  <1>1. CASE rx \in Packets
    BY <1>1 DEF Packets
  <1>2. CASE rx = NoPacket
    BY <1>2 DEF NoPacket
  <1> QED
    BY <1>1, <1>2, RxPacketsAssumption

LEMMA L2Effects ==
  ASSUME LoopTypeOK, NEW rx \in RxPackets \cup {NoPacket}, L2Round(rx),
         tx' \in Requests \cup {NoRequest}, response' \in ResponseType
  PROVE  LoopTypeOK'
  <1>1. rx_error' \in {"none", "timeout", "undersized", "nack",
                       "unexpected_type", "unexpected_size", "filter_mismatch"}
    BY ErrorType DEF L2Round, PollL2
  <1>2. host_mac' \in Mac \cup {NoMac}
    BY RxType DEF LoopTypeOK, L2Round, PollL2
  <1>3. hostless' = hostless
    BY DEF L2Round, PollL2
  <1> QED
    BY <1>1, <1>2, <1>3 DEF LoopTypeOK

LEMMA SimpleEffectsType ==
  ASSUME LoopTypeOK, NEW rx, SimpleEffects(rx),
         tx' \in Requests \cup {NoRequest}, response' \in ResponseType
  PROVE  LoopTypeOK'
  <1>1. rx_error' \in {"none", "timeout", "undersized", "nack",
                       "unexpected_type", "unexpected_size", "filter_mismatch"}
    BY ErrorType DEF SimpleEffects
  <1>2. hostless' \in {"unknown", "hostless", "hostful"}
    BY DEF SimpleEffects, LoopTypeOK, Mode
  <1>3. host_mac' = host_mac
    BY DEF SimpleEffects
  <1> QED
    BY <1>1, <1>2, <1>3 DEF LoopTypeOK

-------------------------------------------------------------------------------
(* The L2 machine.                                                         *)
LEMMA L2AcceptedKeeps ==
  ASSUME IInv, NEW rx \in RxPackets \cup {NoPacket}, L2Round(rx),
         received' \in BOOLEAN, L2Accepted(rx)
  PROVE  IInv'
  <1>1. /\ l2_config_state \in L2ResponseStates
        /\ l2_config_state' = L2NextState(l2_config_state, channel_count')
        /\ channel_count \in 0..2
        /\ channel_count' \in 0..2
        /\ channel_count' # channel_count =>
             l2_config_state = GET_CAPABILITIES_RESPONSE
        /\ l2_config_state = GET_CAPABILITIES_RESPONSE =>
             channel_count' \in {1, 2}
    BY DEF L2Accepted, L2Accepts, IInv, TypeOK, StateTypeOK
  <1>2. /\ l2_config_state' \in L2State \ L2ResponseStates
        /\ l2_config_state' # RESTART
    BY <1>1, NextStateType
  <1>3. /\ l3l4_config_state' = L3L4_CONFIG_BEGIN
        /\ ~l3l4_waiting_response'
        /\ test_state' = TEST_PARAMS
        /\ l3l4_channel' = 0
        /\ \A c \in Channel : ~flowsteering'[c]
    BY <1>1 DEF L2Accepted, L2Unchanged, IInv, FsmsRestartTogether,
         L3L4BetweenTests, L2ResponseStates, L2SendStates
  <1>4. tx' = NoRequest /\ response' = "ACK" /\ enabled' = enabled
    BY DEF L2Accepted
  <1>5. acked' = acked \cup
                   {<<L2Command(l2_config_state - 1),
                      L2Channel(l2_config_state - 1)>>}
    BY <1>1, <1>2, <1>4 DEF L2Round, RecordAck, IInv, AwaitsLastRequest
  <1>6. TypeOK'
    <2>1. StateTypeOK'
      BY <1>1, <1>2 DEF L2Accepted, L2Unchanged, IInv, TypeOK, StateTypeOK
    <2>2. DebugTypeOK'
      <3>1. loopback' \in BOOLEAN
        BY DEF L2Accepted, SenseLoopback, IInv, TypeOK, DebugTypeOK
      <3>2. mlx_legacy' \in BOOLEAN
        BY RxType DEF L2Accepted, IInv, TypeOK, DebugTypeOK
      <3> QED
        BY <3>1, <3>2 DEF L2Accepted, L2Unchanged, IInv, TypeOK, DebugTypeOK
    <2>3. LoopTypeOK'
      BY <1>4, L2Effects DEF IInv, TypeOK, ResponseType
    <2>4. HistoryTypeOK'
      <3>1. /\ L2Command(l2_config_state - 1) \in Command
            /\ L2Channel(l2_config_state - 1) \in Channel
        BY <1>1, L2CommandType DEF L2ResponseStates, L2SendStates
      <3> QED
        BY <3>1, <1>5 DEF IInv, TypeOK, HistoryTypeOK, L2Round, Command
    <2> QED
      BY <2>1, <2>2, <2>3, <2>4 DEF TypeOK
  <1>7. FsmsRestartTogether'
    BY <1>1, <1>3 DEF FsmsRestartTogether, IInv, L2NextState, GoToNextChannel,
       L2ResponseStates, L2SendStates
  <1>8. AwaitsLastRequest' /\ NoTrafficToAbsentChannel'
    BY <1>2, <1>3, <1>4 DEF AwaitsLastRequest, NoTrafficToAbsentChannel,
       TestResponseStates, TestSendStates, NoRequest, Request
  <1>9. LoopbackOnlyWhileSilent'
    <2>1. ~loopback'
      <3>1. loopback => l2_config_state = CLEAR_0_RESPONSE
        BY <1>1 DEF IInv, LoopbackOnlyWhileSilent, L2ResponseStates,
           L2SendStates
      <3> QED
        BY <3>1, Zenon DEF L2Accepted, SenseLoopback
    <2> QED
      BY <2>1 DEF LoopbackOnlyWhileSilent
  <1>10. ReportedModeIsCurrent' /\ L3L4BetweenTests' /\ DisabledAtStart'
    BY <1>1, <1>3, <1>4 DEF ReportedModeIsCurrent, L3L4BetweenTests, IInv,
       DisabledAtStart, L2ResponseStates, L2SendStates
  <1>11. ChannelsExist'
    BY <1>1, <1>3 DEF ChannelsExist, IInv, FsmsRestartTogether, L2NextState,
       GoToNextChannel, L2ResponseStates, L2SendStates, L2Channel
  <1>12. HandshakeSoFar'
    BY <1>1, <1>5 DEF HandshakeSoFar, IInv, FsmsRestartTogether, L2NextState,
       GoToNextChannel, L2ResponseStates, L2SendStates, L2Channel
  <1>13. FiltersSoFar'
    BY <1>1, <1>3 DEF FiltersSoFar, ReportedChannels
  <1> QED
    BY <1>6, <1>7, <1>8, <1>9, <1>10, <1>11, <1>12, <1>13 DEF IInv

(* The steps that read no response: the restart delay, sending, and skipping*)
(* the resets.                                                              *)
LEMMA L2SilentKeeps ==
  ASSUME IInv, NEW rx \in RxPackets \cup {NoPacket}, L2Round(rx),
         received' \in BOOLEAN,
         L2Restart \/ L2Send(host_mac) \/ L2SkipReset
  PROVE  IInv'
  <1>1. /\ l2_config_state \in 0..25
        /\ l2_config_state \notin L2ResponseStates
        /\ l2_config_state' \in
             {l2_config_state, l2_config_state + 1, GET_MAC}
        /\ l2_config_state' = GET_MAC => l2_config_state = RESET_CHANNEL_0
        /\ l2_config_state' = l2_config_state => l2_config_state = RESTART
        /\ channel_count' = channel_count
    BY DEF L2Restart, L2Send, L2SkipReset, L2SendStates, L2ResponseStates
  <1>2. /\ l3l4_config_state' = L3L4_CONFIG_BEGIN
        /\ ~l3l4_waiting_response'
        /\ test_state' = TEST_PARAMS
        /\ l3l4_channel' = 0
        /\ \A c \in Channel : ~flowsteering'[c]
    BY <1>1 DEF L2Restart, L2Send, L2SkipReset, L2Unchanged, IInv,
       FsmsRestartTogether, L3L4BetweenTests
  <1>3. response' = "NONE" /\ enabled' = enabled /\ loopback' = loopback
    BY DEF L2Restart, L2Send, L2SkipReset
  <1>4. acked' = IF l2_config_state' = RESTART THEN {} ELSE acked
    BY <1>3 DEF L2Round, RecordAck
  <1>5. \/ /\ tx' = NoRequest
           /\ l2_config_state' \notin L2ResponseStates
        \/ /\ l2_config_state \in L2SendStates
           /\ l2_config_state' = l2_config_state + 1
           /\ tx' \in Requests
           /\ tx'.cmd = L2Command(l2_config_state)
           /\ tx'.ch = L2Channel(l2_config_state)
    <2>1. CASE L2Restart
      BY <2>1 DEF L2Restart, L2ResponseStates, L2SendStates
    <2>2. CASE L2SkipReset
      BY <2>2 DEF L2SkipReset, L2ResponseStates, L2SendStates
    <2>3. CASE L2Send(host_mac)
      <3>1. host_mac \in Mac \cup {NoMac}
        BY DEF IInv, TypeOK, LoopTypeOK
      <3> QED
        BY <2>3, <3>1, L2CommandType, RequestType DEF L2Send, L2Request
    <2> QED
      BY <2>1, <2>2, <2>3
  <1>6. TypeOK'
    <2>1. StateTypeOK'
      <3>1. restart_delay_count' \in 0..RestartDelay
        BY RestartDelayAssumption DEF L2Restart, L2Send, L2SkipReset, IInv,
           TypeOK, StateTypeOK
      <3>2. l2_config_state' \in L2State
        BY <1>1 DEF L2State
      <3> QED
        BY <3>1, <3>2 DEF L2Restart, L2Send, L2SkipReset, L2Unchanged, IInv,
           TypeOK, StateTypeOK
    <2>2. DebugTypeOK'
      <3>1. pending_restart' \in BOOLEAN
        BY DEF L2Restart, L2Send, L2SkipReset, IInv, TypeOK, DebugTypeOK
      <3> QED
        BY <3>1 DEF L2Restart, L2Send, L2SkipReset, L2Unchanged, IInv, TypeOK,
           DebugTypeOK
    <2>3. LoopTypeOK'
      BY <1>3, <1>5, L2Effects DEF IInv, TypeOK, ResponseType
    <2>4. HistoryTypeOK'
      BY <1>4 DEF IInv, TypeOK, HistoryTypeOK, L2Round
    <2> QED
      BY <2>1, <2>2, <2>3, <2>4 DEF TypeOK
  <1>7. FsmsRestartTogether'
    BY <1>1, <1>2 DEF FsmsRestartTogether, IInv, L2ResponseStates, L2SendStates
  <1>8. AwaitsLastRequest'
    BY <1>1, <1>2, <1>5 DEF AwaitsLastRequest, TestResponseStates,
       TestSendStates
  <1>9. NoTrafficToAbsentChannel'
    <2>1. CASE tx' = NoRequest
      BY <2>1 DEF NoTrafficToAbsentChannel, NoRequest, Request
    <2>2. CASE l2_config_state \in L2SendStates /\ tx'.ch = L2Channel(l2_config_state)
      BY <1>1, <2>2 DEF NoTrafficToAbsentChannel, IInv, ChannelsExist,
         L2Channel
    <2> QED
      BY <1>5, <2>1, <2>2
  <1>10. LoopbackOnlyWhileSilent'
    BY <1>1, <1>3 DEF LoopbackOnlyWhileSilent, IInv, L2ResponseStates,
       L2SendStates
  <1>11. ReportedModeIsCurrent' /\ L3L4BetweenTests' /\ DisabledAtStart'
    BY <1>1, <1>2, <1>3 DEF ReportedModeIsCurrent, L3L4BetweenTests, IInv,
       DisabledAtStart, L2Round, ConnectionState
  <1>12. ChannelsExist'
    BY <1>1, <1>2 DEF ChannelsExist, IInv, L2ResponseStates, L2SendStates,
       L2Channel
  <1>13. HandshakeSoFar'
    BY <1>1, <1>4 DEF HandshakeSoFar, IInv, L2ResponseStates, L2SendStates,
       L2Channel
  <1>14. FiltersSoFar'
    BY <1>2 DEF FiltersSoFar, ReportedChannels
  <1> QED
    BY <1>6, <1>7, <1>8, <1>9, <1>10, <1>11, <1>12, <1>13, <1>14 DEF IInv

LEMMA L2ClearedKeeps ==
  ASSUME IInv, NEW rx \in RxPackets \cup {NoPacket}, L2Round(rx),
         received' \in BOOLEAN, L2Rejected(rx) \/ L2Stopped
  PROVE  IInv'
  <1>1. ClearState /\ tx' = NoRequest /\ acked' = {}
    BY DEF L2Rejected, L2Stopped, L2Round, RecordAck, ClearState
  <1>2. response' \in ResponseType
    BY VerdictType DEF L2Rejected, L2Stopped, L2Verdict, ResponseType
  <1>3. DebugTypeOK'
    <2>1. loopback' \in BOOLEAN
      BY DEF L2Rejected, L2Stopped, SenseLoopback, IsLoopback, IInv, TypeOK,
         DebugTypeOK
    <2>2. pending_stop' \in BOOLEAN /\ enabled' \in BOOLEAN
      BY DEF L2Rejected, L2Stopped, IInv, TypeOK, DebugTypeOK
    <2> QED
      BY <2>1, <2>2 DEF L2Rejected, L2Stopped, IInv, TypeOK, DebugTypeOK
  <1>4. LoopTypeOK'
    BY <1>1, <1>2, L2Effects DEF IInv, TypeOK
  <1>5. HistoryTypeOK'
    BY <1>1 DEF IInv, TypeOK, HistoryTypeOK, L2Round
  <1> QED
    BY <1>1, <1>3, <1>4, <1>5, Cleared DEF IInv, TypeOK

-------------------------------------------------------------------------------
(* The L3/L4 machine.                                                      *)
LEMMA L3L4StepKeeps ==
  ASSUME IInv, NEW rx \in RxPackets \cup {NoPacket}, L3L4Round(rx),
         received' \in BOOLEAN, L3L4Send(host_mac) \/ L3L4Accepted(rx)
  PROVE  IInv'
  <1>1. /\ l2_config_state = L2_CONFIG_END
        /\ l3l4_config_state \in {L3L4_CONFIG_BEGIN, CONFIG_FILTERS}
        /\ test_state = TEST_END
        /\ ~IsHostless(flowsteering, channel_count)
        /\ channel_count \in {1, 2}
        /\ l3l4_channel \in Channel
        /\ channel_count = 1 => l3l4_channel = 0
    BY DEF L3L4Round, ConnectionState, IInv, TypeOK, StateTypeOK,
       ChannelsExist, L2State
  <1>2. /\ UNCHANGED <<l2_config_state, test_state, channel_count,
                       restart_delay_count, flowsteering>>
        /\ UNCHANGED debugVars
    BY DEF L3L4Send, L3L4Accepted, L3L4Unchanged
  <1>3. \/ /\ l3l4_config_state' = CONFIG_FILTERS
           /\ l3l4_channel' = l3l4_channel
           /\ l3l4_waiting_response'
           /\ tx' \in Requests
           /\ tx'.cmd = "SET_FILTER"
           /\ tx'.ch = l3l4_channel'
           /\ response' = "NONE"
           /\ acked' = acked
        \/ /\ l3l4_channel + 1 < channel_count
           /\ l3l4_config_state' = CONFIG_FILTERS
           /\ l3l4_channel' = l3l4_channel + 1
           /\ ~l3l4_waiting_response'
           /\ tx' = NoRequest
           /\ response' = "ACK"
           /\ acked' = acked \cup {<<"SET_FILTER", l3l4_channel>>}
        \/ /\ l3l4_channel + 1 >= channel_count
           /\ l3l4_config_state' = L3L4_CONFIG_END
           /\ l3l4_channel' = 0
           /\ ~l3l4_waiting_response'
           /\ tx' = NoRequest
           /\ response' = "ACK"
           /\ acked' = acked \cup {<<"SET_FILTER", l3l4_channel>>}
    <2>1. CASE L3L4Send(host_mac)
      <3>1. /\ l3l4_config_state' = CONFIG_FILTERS
            /\ l3l4_channel' = l3l4_channel
            /\ l3l4_waiting_response'
            /\ tx' = Request("SET_FILTER", l3l4_channel', host_mac)
            /\ response' = "NONE"
        BY <1>1, <2>1 DEF L3L4Send, IInv, L3L4BetweenTests
      <3>2. acked' = acked
        BY <1>1, <1>2, <3>1 DEF L3L4Round, RecordAck
      <3>3. host_mac \in Mac \cup {NoMac} /\ "SET_FILTER" \in Command
        BY DEF IInv, TypeOK, LoopTypeOK, Command, OemCommand
      <3> QED
        BY <1>1, <3>1, <3>2, <3>3, RequestType
    <2>2. CASE L3L4Accepted(rx)
      <3>1. /\ l3l4_config_state = CONFIG_FILTERS
            /\ tx.cmd = "SET_FILTER"
            /\ tx.ch = l3l4_channel
        BY <1>1, <2>2 DEF L3L4Accepted, L3L4Waiting, IInv, AwaitsLastRequest
      <3>2. acked' = acked \cup {<<"SET_FILTER", l3l4_channel>>}
        BY <1>1, <1>2, <2>2, <3>1 DEF L3L4Accepted, L3L4Round, RecordAck
      <3> QED
        BY <1>1, <2>2, <3>1, <3>2 DEF L3L4Accepted, AllChannelsDone
    <2> QED
      BY <2>1, <2>2
  <1>4. TypeOK'
    <2>1. StateTypeOK'
      <3>1. l3l4_waiting_response' \in BOOLEAN
        BY DEF L3L4Send, L3L4Accepted
      <3> QED
        BY <1>1, <1>2, <1>3, <3>1 DEF IInv, TypeOK, StateTypeOK
    <2>2. DebugTypeOK'
      BY <1>2 DEF debugVars, IInv, TypeOK, DebugTypeOK
    <2>3. LoopTypeOK'
      BY <1>3, SimpleEffectsType DEF L3L4Round, IInv, TypeOK, ResponseType
    <2>4. HistoryTypeOK'
      BY <1>1, <1>3 DEF IInv, TypeOK, HistoryTypeOK, L3L4Round, OemCommand
    <2> QED
      BY <2>1, <2>2, <2>3, <2>4 DEF TypeOK
  <1>5. FsmsRestartTogether' /\ DisabledAtStart' /\ LoopbackOnlyWhileSilent'
    BY <1>1, <1>2 DEF FsmsRestartTogether, DisabledAtStart, IInv,
       LoopbackOnlyWhileSilent, debugVars
  <1>6. AwaitsLastRequest'
    BY <1>1, <1>2, <1>3 DEF AwaitsLastRequest, L2ResponseStates, L2SendStates,
       TestResponseStates, TestSendStates
  <1>7. NoTrafficToAbsentChannel' /\ ChannelsExist'
    BY <1>1, <1>2, <1>3 DEF NoTrafficToAbsentChannel, ChannelsExist, IInv,
       NoRequest, Request, debugVars, L2SendStates, L2Channel
  <1>8. ReportedModeIsCurrent'
    <2>1. hostless = "hostful" /\ hostless = Mode(flowsteering, channel_count)
      BY <1>1 DEF IInv, ReportedModeIsCurrent, Mode
    <2>2. hostless' = "hostful"
      BY <1>1, <1>2, <2>1 DEF L3L4Round, SimpleEffects, Mode
    <2> QED
      BY <1>2, <2>1, <2>2 DEF ReportedModeIsCurrent
  <1>9. L3L4BetweenTests'
    BY <1>1, <1>2, <1>3 DEF L3L4BetweenTests
  <1>10. HandshakeSoFar'
    BY <1>2, <1>3 DEF HandshakeSoFar, IInv
  <1>11. FiltersSoFar'
    BY <1>1, <1>2, <1>3 DEF FiltersSoFar, ReportedChannels, IInv
  <1> QED
    BY <1>4, <1>5, <1>6, <1>7, <1>8, <1>9, <1>10, <1>11 DEF IInv

LEMMA L3L4RejectedKeeps ==
  ASSUME IInv, NEW rx \in RxPackets \cup {NoPacket}, L3L4Round(rx),
         received' \in BOOLEAN, L3L4Rejected(rx)
  PROVE  IInv'
  <1>1. ClearState /\ tx' = NoRequest /\ acked' = {}
    BY DEF L3L4Rejected, L3L4Round, RecordAck, ClearState
  <1>2. response' \in ResponseType
    BY VerdictType DEF L3L4Rejected, L3L4Verdict
  <1>3. DebugTypeOK'
    BY DEF L3L4Rejected, debugVars, IInv, TypeOK, DebugTypeOK
  <1>4. LoopTypeOK'
    BY <1>1, <1>2, SimpleEffectsType DEF L3L4Round, IInv, TypeOK
  <1>5. HistoryTypeOK'
    BY <1>1 DEF IInv, TypeOK, HistoryTypeOK, L3L4Round
  <1> QED
    BY <1>1, <1>3, <1>4, <1>5, Cleared DEF IInv, TypeOK

-------------------------------------------------------------------------------
(* The test machine.                                                       *)
LEMMA AckMatches ==
  ASSUME NEW rx, NEW want, NEW legacy,
         ValidateResponse(rx, want, legacy) = "ACK"
  PROVE  rx.type = "response" /\ rx.cmd = want
  BY DEF ValidateResponse, SizeMatches

(* The two machines never run at the same time.                            *)
LEMMA TestRoundState ==
  ASSUME IInv, NEW rx, TestRound(rx)
  PROVE  /\ l2_config_state = L2_CONFIG_END
         /\ l3l4_config_state \in {L3L4_CONFIG_BEGIN, L3L4_CONFIG_END}
         /\ ~l3l4_waiting_response
         /\ l3l4_channel = 0
         /\ channel_count \in {1, 2}
         /\ enabled
         /\ ~loopback
  BY DEF TestRound, ConnectionState, IInv, TypeOK, StateTypeOK, ChannelsExist,
     L3L4BetweenTests, L2State, LoopbackOnlyWhileSilent

(* What a step that does not clear the state leaves alone settles most of  *)
(* the invariant.                                                          *)
LEMMA TestStepFrame ==
  ASSUME IInv, NEW rx, TestRound(rx), TestUnchanged
  PROVE  /\ acked' = acked
         /\ FsmsRestartTogether'
         /\ LoopbackOnlyWhileSilent'
         /\ DisabledAtStart'
         /\ L3L4BetweenTests'
         /\ HandshakeSoFar'
         /\ FiltersSoFar'
  <1> USE TestRoundState
  <1>1. acked' = acked
    BY DEF TestRound, TestUnchanged
  <1>2. /\ FsmsRestartTogether'
        /\ LoopbackOnlyWhileSilent'
        /\ DisabledAtStart'
        /\ L3L4BetweenTests'
    BY DEF TestUnchanged, FsmsRestartTogether, LoopbackOnlyWhileSilent,
       DisabledAtStart, L3L4BetweenTests
  <1>3. HandshakeSoFar' /\ FiltersSoFar'
    BY <1>1 DEF TestUnchanged, HandshakeSoFar, FiltersSoFar, IInv,
       ReportedChannels
  <1> QED
    BY <1>1, <1>2, <1>3

LEMMA TestStepKeeps ==
  ASSUME IInv, NEW rx \in RxPackets \cup {NoPacket}, TestRound(rx),
         received' \in BOOLEAN, TestUnchanged,
         \/ TestParams
         \/ TestSend
         \/ TestPassed(rx, host_mac)
         \/ TestRetried(rx, host_mac)
         \/ TestEnd
  PROVE  IInv'
  <1> USE TestRoundState
  <1>1. test_state \in TEST_PARAMS..TEST_END /\ ch_under_test \in Channel
    BY DEF IInv, TypeOK, StateTypeOK, DebugTypeOK
  <1>2. \/ /\ test_state' \notin TestResponseStates
           /\ tx' = NoRequest
        \/ /\ test_state \in TestSendStates
           /\ test_state' = test_state + 1
           /\ ch_under_test' = ch_under_test
           /\ tx' = TestRequest(test_state)
    <2>1. TestParams \/ TestPassed(rx, host_mac) \/ TestRetried(rx, host_mac)
            \/ TestEnd => test_state' \notin TestResponseStates /\ tx' = NoRequest
      BY DEF TestParams, TestPassed, TestRetried, TestEnd, ClearState,
         TestResponseStates, TestSendStates
    <2>2. TestSend => /\ test_state \in TestSendStates
                      /\ test_state' = test_state + 1
                      /\ ch_under_test' = ch_under_test
                      /\ tx' = TestRequest(test_state)
      BY DEF TestSend
    <2> QED
      BY <2>1, <2>2
  <1>3. response' \in ResponseType
    <2>1. TestReplyAcked(rx) \in ResponseType
      BY VerdictType DEF TestReplyAcked
    <2> QED
      BY <2>1 DEF TestParams, TestSend, TestPassed, TestRetried, TestEnd,
         TestVerdict, ResponseType
  <1>4. flowsteering' \in [Channel -> BOOLEAN]
    <2>1. flowsteering \in [Channel -> BOOLEAN]
      BY DEF IInv, TypeOK, StateTypeOK
    <2>2. Sampled(rx) \in [Channel -> BOOLEAN]
      BY <1>1, <2>1, RxType DEF Sampled
    <2> QED
      BY <2>1, <2>2 DEF TestParams, TestSend, TestPassed, TestRetried, TestEnd,
         ClearState
  <1>5. /\ test_state' \in TEST_PARAMS..TEST_END
        /\ ch_under_test' \in Channel
        /\ tries' \in 0..255
    <2>1. tries \in 0..255
      BY DEF IInv, TypeOK, DebugTypeOK
    <2> QED
      BY <1>1, <2>1 DEF TestParams, TestSend, TestPassed, TestRetried, TestEnd,
         ClearState, TestSendStates, TestResponseStates, NextChannelUnderTest
  <1>6. TypeOK'
    <2>1. StateTypeOK' /\ DebugTypeOK'
      BY <1>4, <1>5 DEF TestUnchanged, IInv, TypeOK, StateTypeOK, DebugTypeOK
    <2>2. tx' \in Requests \cup {NoRequest}
      <3>1. ASSUME test_state \in TestSendStates
            PROVE  TestRequest(test_state) \in Requests
        BY <1>1, <3>1, TestCommandType, RequestType DEF TestRequest
      <3> QED
        BY <1>2, <3>1
    <2>3. LoopTypeOK'
      BY <1>3, <2>2, SimpleEffectsType DEF TestRound, IInv, TypeOK
    <2>4. HistoryTypeOK'
      BY TestStepFrame DEF IInv, TypeOK, HistoryTypeOK, TestRound, RecordRetry
    <2> QED
      BY <2>1, <2>3, <2>4 DEF TypeOK
  <1>7. AwaitsLastRequest'
    BY <1>2 DEF AwaitsLastRequest, TestUnchanged, TestRequest, L2ResponseStates,
       L2SendStates, TestSendStates
  <1>8. ChannelsExist'
    BY <1>1 DEF ChannelsExist, TestUnchanged, IInv, TestParams, TestSend,
       TestPassed, TestRetried, TestEnd, ClearState, NextChannelUnderTest,
       TestSendStates, TestResponseStates
  <1>9. NoTrafficToAbsentChannel'
    <2>1. CASE tx' = NoRequest
      BY <2>1 DEF NoTrafficToAbsentChannel, NoRequest, Request
    <2>2. CASE test_state \in TestSendStates /\ tx' = TestRequest(test_state)
      BY <2>2 DEF TestRequest, Request, NoTrafficToAbsentChannel, IInv,
         ChannelsExist, TestSendStates, TestUnchanged
    <2> QED
      BY <1>2, <2>1, <2>2
  <1>10. ReportedModeIsCurrent'
    <2>1. SUFFICES ASSUME test_state' > CHECK_FILTERS_RESPONSE
                   PROVE  hostless' = Mode(flowsteering', channel_count')
      BY DEF ReportedModeIsCurrent, TestUnchanged
    <2>2. CASE TestPassed(rx, host_mac) /\ test_state = CHECK_FILTERS_RESPONSE
      <3>1. rx.type = "response" /\ rx.cmd = "GET_FILTER"
        BY <2>2, AckMatches DEF TestPassed, TestPasses, TestVerdict,
           TestReplyAcked, TestCommand
      <3> QED
        BY <2>2, <3>1 DEF TestPassed, TestRound, SimpleEffects, IsResponseTo
    <2>3. CASE ~(TestPassed(rx, host_mac) /\ test_state = CHECK_FILTERS_RESPONSE)
      <3>1. test_state > CHECK_FILTERS_RESPONSE /\ flowsteering' = flowsteering
        BY <1>1, <2>1, <2>3 DEF TestParams, TestSend, TestPassed, TestRetried,
           TestEnd, ClearState, TestSendStates, TestResponseStates, Sampled
      <3> QED
        BY <3>1 DEF TestRound, SimpleEffects, TestUnchanged, IInv,
           ReportedModeIsCurrent
    <2> QED
      BY <2>2, <2>3
  <1> QED
    BY <1>6, <1>7, <1>8, <1>9, <1>10, TestStepFrame DEF IInv

LEMMA TestClearedKeeps ==
  ASSUME IInv, NEW rx \in RxPackets \cup {NoPacket}, TestRound(rx),
         received' \in BOOLEAN, ClearState,
         TestFailed(rx, host_mac) \/ TestEnd
  PROVE  IInv'
  <1>1. tx' = NoRequest /\ acked' = {}
    BY DEF TestFailed, TestEnd, TestRound, ClearState
  <1>2. response' \in ResponseType
    <2>1. TestReplyAcked(rx) \in ResponseType
      BY VerdictType DEF TestReplyAcked
    <2> QED
      BY <2>1 DEF TestFailed, TestEnd, TestVerdict, ResponseType
  <1>3. DebugTypeOK'
    BY DEF TestFailed, TestEnd, IInv, TypeOK, DebugTypeOK
  <1>4. LoopTypeOK'
    BY <1>1, <1>2, SimpleEffectsType DEF TestRound, IInv, TypeOK
  <1>5. HistoryTypeOK'
    BY <1>1 DEF IInv, TypeOK, HistoryTypeOK, TestRound, RecordRetry
  <1> QED
    BY <1>1, <1>3, <1>4, <1>5, Cleared DEF IInv, TypeOK

-------------------------------------------------------------------------------
(* The other steps: a disabled round and the requests of an owner.         *)
LEMMA DisabledRoundKeeps ==
  ASSUME IInv, DisabledRound, received' \in BOOLEAN
  PROVE  IInv'
  <1>1. /\ ~enabled
        /\ l2_config_state = RESTART
        /\ test_state = TEST_PARAMS
        /\ ~l3l4_waiting_response
    BY DEF DisabledRound, ConnectionState, IInv, DisabledAtStart,
       FsmsRestartTogether
  <1>2. UNCHANGED <<stateVars, loopback, ch_under_test, hostless, acked>>
    BY DEF DisabledRound
  <1>3. TypeOK'
    BY DEF DisabledRound, stateVars, IInv, TypeOK, StateTypeOK, DebugTypeOK,
       LoopTypeOK, HistoryTypeOK, ResponseType
  <1>4. AwaitsLastRequest' /\ NoTrafficToAbsentChannel' /\ DisabledAtStart'
    BY <1>1, <1>2 DEF stateVars, AwaitsLastRequest, DisabledAtStart,
       NoTrafficToAbsentChannel, DisabledRound, NoRequest, Request,
       L2ResponseStates, L2SendStates, TestResponseStates, TestSendStates
  <1>5. /\ FsmsRestartTogether'
        /\ LoopbackOnlyWhileSilent'
        /\ ReportedModeIsCurrent'
        /\ ChannelsExist'
        /\ L3L4BetweenTests'
        /\ HandshakeSoFar'
        /\ FiltersSoFar'
    BY <1>2 DEF stateVars, IInv, FsmsRestartTogether, LoopbackOnlyWhileSilent,
       ReportedModeIsCurrent, ChannelsExist, L3L4BetweenTests, HandshakeSoFar,
       FiltersSoFar, ReportedChannels
  <1> QED
    BY <1>3, <1>4, <1>5 DEF IInv

LEMMA RequestKeeps ==
  ASSUME IInv, RequestStop \/ RequestRestart
  PROVE  IInv'
  <1>1. /\ UNCHANGED <<stateVars, tx, response, smVars, history>>
        /\ UNCHANGED <<enabled, loopback, mlx_legacy, ch_under_test, tries>>
    BY DEF RequestStop, RequestRestart
  <1>2. TypeOK'
    <2>1. pending_stop' \in BOOLEAN /\ pending_restart' \in BOOLEAN
      BY DEF RequestStop, RequestRestart, IInv, TypeOK, DebugTypeOK
    <2> QED
      BY <1>1, <2>1 DEF stateVars, smVars, history, IInv, TypeOK, StateTypeOK,
         DebugTypeOK, LoopTypeOK, HistoryTypeOK
  <1>3. AwaitsLastRequest'
    BY <1>1 DEF stateVars, IInv, AwaitsLastRequest, TestRequest
  <1>4. /\ FsmsRestartTogether'
        /\ NoTrafficToAbsentChannel'
        /\ LoopbackOnlyWhileSilent'
        /\ ReportedModeIsCurrent'
        /\ ChannelsExist'
        /\ DisabledAtStart'
        /\ L3L4BetweenTests'
        /\ HandshakeSoFar'
        /\ FiltersSoFar'
    BY <1>1 DEF stateVars, smVars, history, IInv, FsmsRestartTogether,
       NoTrafficToAbsentChannel, LoopbackOnlyWhileSilent, DisabledAtStart,
       ReportedModeIsCurrent, ChannelsExist, L3L4BetweenTests, HandshakeSoFar,
       FiltersSoFar, ReportedChannels
  <1> QED
    BY <1>2, <1>3, <1>4 DEF IInv

-------------------------------------------------------------------------------
(* The inductive invariant.                                                *)
LEMMA InitEstablishes ==
  ASSUME Init
  PROVE  IInv
  <1>1. TypeOK
    <2>1. StateTypeOK
      <3>1. restart_delay_count \in 0..RestartDelay
        BY RestartDelayAssumption DEF Init
      <3>2. flowsteering \in [Channel -> BOOLEAN] /\ l3l4_waiting_response \in BOOLEAN
        BY DEF Init
      <3> QED
        BY <3>1, <3>2 DEF Init, StateTypeOK, L2State
    <2>2. DebugTypeOK
      BY InitialTriesAssumption DEF Init, DebugTypeOK
    <2>3. LoopTypeOK /\ HistoryTypeOK
      BY DEF Init, LoopTypeOK, HistoryTypeOK, ResponseType
    <2> QED
      BY <2>1, <2>2, <2>3 DEF TypeOK
  <1>2. AwaitsLastRequest /\ NoTrafficToAbsentChannel
    BY DEF Init, AwaitsLastRequest, NoTrafficToAbsentChannel, NoRequest,
       Request, L2ResponseStates, L2SendStates, TestResponseStates,
       TestSendStates
  <1>3. /\ FsmsRestartTogether
        /\ LoopbackOnlyWhileSilent
        /\ ReportedModeIsCurrent
        /\ ChannelsExist
        /\ DisabledAtStart
        /\ L3L4BetweenTests
    BY DEF Init, FsmsRestartTogether, LoopbackOnlyWhileSilent,
       ReportedModeIsCurrent, ChannelsExist, DisabledAtStart, L3L4BetweenTests
  <1>4. HandshakeSoFar /\ FiltersSoFar
    BY DEF Init, HandshakeSoFar, FiltersSoFar, ReportedChannels, L2SendStates
  <1> QED
    BY <1>1, <1>2, <1>3, <1>4 DEF IInv

LEMMA RoundKeeps ==
  ASSUME IInv, NEW rx \in RxPackets \cup {NoPacket}, Round(rx)
  PROVE  IInv'
  <1>1. received' \in BOOLEAN
    BY DEF Round
  <1>2. CASE L2Round(rx)
    BY <1>1, <1>2, L2AcceptedKeeps, L2SilentKeeps, L2ClearedKeeps
       DEF L2Round, PollL2, PollL2Config
  <1>3. CASE L3L4Round(rx)
    BY <1>1, <1>3, L3L4StepKeeps, L3L4RejectedKeeps
       DEF L3L4Round, PollL3L4Config
  <1>4. CASE TestRound(rx)
    <2>1. CASE TestFailed(rx, host_mac)
      BY <1>1, <1>4, <2>1, TestClearedKeeps DEF TestFailed
    <2>2. CASE TestEnd
      <3>1. CASE pending_restart
        BY <1>1, <1>4, <2>2, <3>1, TestClearedKeeps DEF TestEnd
      <3>2. CASE ~pending_restart
        <4>1. TestUnchanged
          BY <2>2, <3>2 DEF TestEnd, TestUnchanged
        <4> QED
          BY <1>1, <1>4, <2>2, <4>1, TestStepKeeps
      <3> QED
        BY <3>1, <3>2
    <2>3. CASE TestParams \/ TestSend \/ TestPassed(rx, host_mac)
                 \/ TestRetried(rx, host_mac)
      <3>1. TestUnchanged
        BY <2>3 DEF TestParams, TestSend, TestPassed, TestRetried
      <3> QED
        BY <1>1, <1>4, <2>3, <3>1, TestStepKeeps
    <2> QED
      BY <1>4, <2>1, <2>2, <2>3 DEF TestRound, PollTest
  <1>5. CASE DisabledRound
    BY <1>1, <1>5, DisabledRoundKeeps
  <1> QED
    BY <1>2, <1>3, <1>4, <1>5 DEF Round

LEMMA StutterKeeps ==
  ASSUME IInv, UNCHANGED vars
  PROVE  IInv'
  BY DEF vars, fsmVars, stateVars, debugVars, smVars, history, IInv, TypeOK,
     StateTypeOK, DebugTypeOK, LoopTypeOK, HistoryTypeOK, FsmsRestartTogether,
     AwaitsLastRequest, TestRequest, NoTrafficToAbsentChannel,
     LoopbackOnlyWhileSilent, ReportedModeIsCurrent, ChannelsExist,
     DisabledAtStart, L3L4BetweenTests, HandshakeSoFar, FiltersSoFar,
     ReportedChannels

(* The inductive invariant holds in every reachable state.                 *)
THEOREM Invariance == Spec => []IInv
  <1>1. Init => IInv
    BY InitEstablishes
  <1>2. IInv /\ [Next]_vars => IInv'
    BY RoundKeeps, RequestKeeps, StutterKeeps DEF Next, RunRound
  <1> QED
    BY <1>1, <1>2, PTL DEF Spec

-------------------------------------------------------------------------------
(* Type correctness of the loop and its three machines.                    *)
THEOREM TypeCorrect == Spec => []TypeOK
  <1>1. IInv => TypeOK
    BY DEF IInv
  <1> QED
    BY <1>1, Invariance, PTL

(* A failure of any machine restarts all three (ncsi_fsm_fail()).          *)
THEOREM RestartTogether == Spec => []FsmsRestartTogether
  <1>1. IInv => FsmsRestartTogether
    BY DEF IInv
  <1> QED
    BY <1>1, Invariance, PTL

(* No machine waits for a response to a command that was not the last one  *)
(* written.                                                                *)
THEOREM AwaitsCorrect == Spec => []AwaitsLastRequest
  <1>1. IInv => AwaitsLastRequest
    BY DEF IInv
  <1> QED
    BY <1>1, Invariance, PTL

(* No command is ever written for a channel the NIC does not have.         *)
THEOREM ChannelSafety == Spec => []NoTrafficToAbsentChannel
  <1>1. IInv => NoTrafficToAbsentChannel
    BY DEF IInv
  <1> QED
    BY <1>1, Invariance, PTL

(* A loopback is reported only until the NIC answers.                      *)
THEOREM LoopbackSafety == Spec => []LoopbackOnlyWhileSilent
  <1>1. IInv => LoopbackOnlyWhileSilent
    BY DEF IInv
  <1> QED
    BY <1>1, Invariance, PTL

(* The mode the L3/L4 machine relies on is the one of this connection.     *)
THEOREM ModeSafety == Spec => []ReportedModeIsCurrent
  <1>1. IInv => ReportedModeIsCurrent
    BY DEF IInv
  <1> QED
    BY <1>1, Invariance, PTL

(* Whatever the wire delivers, the connection is called up only after the  *)
(* complete handshake, and configured only after the filter of every       *)
(* channel was acknowledged, all since the last restart.                   *)
THEOREM HandshakeComplete == Spec => []UpMeansAcknowledged
  <1>1. ASSUME IInv, l2_config_state = L2_CONFIG_END
        PROVE  channel_count \in {1, 2} /\ L2Handshake \subseteq acked
    <2>1. channel_count \in {1, 2}
      BY <1>1 DEF IInv, ChannelsExist
    <2>2. ASSUME NEW s \in L2SendStates \ {RESET_CHANNEL_0, RESET_CHANNEL_1},
                 L2Channel(s) \in ReportedChannels
          PROVE  <<L2Command(s), L2Channel(s)>> \in acked
      BY <1>1, <2>1, <2>2 DEF IInv, HandshakeSoFar, ReportedChannels,
         L2SendStates, L2Channel
    <2>3. /\ <<"GET_HOST_MAC", 0>> \in acked
          /\ <<"ENABLE_CHANNEL_NETWORK_TX", 0>> \in acked
      BY <2>1, <2>2 DEF L2SendStates, L2Channel, L2Command, ReportedChannels
    <2>4. ASSUME NEW c \in ReportedChannels
          PROVE  /\ <<"CLEAR_INITIAL_STATE", c>> \in acked
                 /\ <<"SET_MAC_ADDRESS", c>> \in acked
                 /\ <<"ENABLE_CHANNEL", c>> \in acked
      <3>1. CASE c = 0
        BY <2>2, <2>4, <3>1 DEF L2SendStates, L2Channel, L2Command
      <3>2. CASE c = 1
        BY <2>2, <2>4, <3>2 DEF L2SendStates, L2Channel, L2Command
      <3> QED
        BY <2>1, <2>4, <3>1, <3>2 DEF ReportedChannels
    <2>5. {"CLEAR_INITIAL_STATE", "SET_MAC_ADDRESS", "ENABLE_CHANNEL"}
            \X ReportedChannels \subseteq acked
      <3>1. ASSUME NEW x \in {"CLEAR_INITIAL_STATE", "SET_MAC_ADDRESS",
                              "ENABLE_CHANNEL"} \X ReportedChannels
            PROVE  x \in acked
        <4>1. PICK a \in {"CLEAR_INITIAL_STATE", "SET_MAC_ADDRESS",
                          "ENABLE_CHANNEL"},
                   c \in ReportedChannels : x = <<a, c>>
          OBVIOUS
        <4> QED
          BY <2>4, <4>1
      <3> QED
        BY <3>1, Zenon
    <2> QED
      BY <2>1, <2>3, <2>5 DEF L2Handshake
  <1>2. ASSUME IInv, ConnectionState = "UP_AND_CONFIGURED"
        PROVE  {"SET_FILTER"} \X ReportedChannels \subseteq acked
    BY <1>2 DEF IInv, FiltersSoFar, ConnectionState
  <1>3. IInv => UpMeansAcknowledged
    BY <1>1, <1>2 DEF UpMeansAcknowledged
  <1> QED
    BY <1>3, Invariance, PTL
===============================================================================
