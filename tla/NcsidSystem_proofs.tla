-------------------------- MODULE NcsidSystem_proofs ---------------------------
(***************************************************************************)
(* Proofs about ncsid talking to a NIC, for every bound on what goes wrong:*)
(* the composed system runs the loop of NcsiStateMachine, so that all that *)
(* is proved of the loop holds in it; the mode the BMC is told is the mode *)
(* of the NIC; and how many late and lost packets it takes before a test   *)
(* ends out of step or an old acknowledgement is believed.                 *)
(***************************************************************************)
EXTENDS NcsidSystem, NcsiConnection_proofs

USE DEF Channel

(* What the NIC answers.                                                   *)
NicAnswers == {p \in Packets : /\ p.type = "response"
                               /\ p.count \in NicChannels
                               /\ p.fault = "none"}

WireTypeOK ==
  /\ to_nic \in Seq(Requests)
  /\ inbox \in Seq(NicAnswers)
  /\ nic_channels \in NicChannels
  /\ nic_filter \in [Channel -> Mac \cup {NoMac}]
  /\ nic_hostless \in BOOLEAN
  /\ faults \in [late : Nat, lost : Nat, wiped : Nat, switched : Nat]

-------------------------------------------------------------------------------
LEMMA TailType ==
  ASSUME NEW S, NEW q \in Seq(S), q # <<>>
  PROVE  /\ Tail(q) \in Seq(S)
         /\ Len(Tail(q)) = Len(q) - 1
         /\ \A i \in 1..Len(q) - 1 : Tail(q)[i] = q[i + 1]
  OBVIOUS

LEMMA AnswerType ==
  ASSUME WireTypeOK, NEW req \in Requests
  PROVE  /\ Answer(req) \in NicAnswers
         /\ Answer(req).cmd = req.cmd
         /\ Answer(req).ch = req.ch
  <1>1. req.cmd \in StdCommand \cup OemCommand /\ req.ch \in Channel
    BY DEF Requests
  <1>2. nic_filter[req.ch] \in Mac \cup {NoMac}
    BY <1>1 DEF WireTypeOK
  <1>3. Answer(req).mac \in Mac \cup {NoMac}
    BY <1>2, NicAssumption DEF Answer
  <1>4. Answer(req).flag \in BOOLEAN
    BY DEF Answer, WireTypeOK
  <1>5. nic_channels \in 0..255 /\ nic_channels \in NicChannels
    BY NicAssumption DEF WireTypeOK
  <1>6. Answer(req) \in [type  : {"response", "command"},
                         cmd   : StdCommand \cup OemCommand,
                         ch    : Channel,
                         count : 0..255,
                         flag  : BOOLEAN,
                         mac   : Mac \cup {NoMac},
                         fault : Fault]
    BY <1>1, <1>3, <1>4, <1>5 DEF Answer, Fault
  <1> QED
    BY <1>5, <1>6 DEF Answer, NicAnswers, Packets

(* The daemon's state is touched by the rounds of its loop only.           *)
LEMMA LoopStep ==
  ASSUME WireTypeOK, NicAnswers \subseteq RxPackets, [SystemNext]_systemVars
  PROVE  [Next]_vars
  <1>1. CASE ReceiveRound
    <2>1. Head(inbox) \in RxPackets
      BY <1>1 DEF ReceiveRound, WireTypeOK
    <2> QED
      BY <1>1, <2>1 DEF ReceiveRound, Next, RunRound
  <1>2. CASE TimeoutRound
    BY <1>2 DEF TimeoutRound, Next, RunRound
  <1>3. CASE NicAnswer \/ LoseCommand \/ LoseAnswer \/ NicWipe \/ NicSwitch
               \/ UNCHANGED systemVars
    BY <1>3 DEF NicAnswer, LoseCommand, LoseAnswer, NicWipe, NicSwitch,
       systemVars
  <1> QED
    BY <1>1, <1>2, <1>3 DEF SystemNext, LoopRound

LEMMA WireStep ==
  ASSUME WireTypeOK, IInv', [SystemNext]_systemVars
  PROVE  WireTypeOK'
  <1>1. tx' \in Requests \cup {NoRequest}
    BY DEF IInv, TypeOK, LoopTypeOK
  <1>2. CASE ReceiveRound \/ TimeoutRound
    <2>1. to_nic' \in Seq(Requests)
      <3>1. tx' # NoRequest => tx' \in Requests
        BY <1>1
      <3>2. to_nic \in Seq(Requests)
        BY DEF WireTypeOK
      <3>3. to_nic' = to_nic \/ (tx' # NoRequest /\ to_nic' = Append(to_nic, tx'))
        BY <1>2 DEF ReceiveRound, TimeoutRound, WriteCommand
      <3> QED
        BY <3>1, <3>2, <3>3
    <2>2. inbox' \in Seq(NicAnswers)
      <3>1. \/ inbox # <<>> /\ inbox' = Tail(inbox)
            \/ inbox' = inbox
        BY <1>2 DEF ReceiveRound, TimeoutRound
      <3>2. inbox \in Seq(NicAnswers)
        BY DEF WireTypeOK
      <3> QED
        BY ONLY <3>1, <3>2, TailType
    <2>3. UNCHANGED nicVars
      BY <1>2 DEF ReceiveRound, TimeoutRound
    <2>4. faults' \in [late : Nat, lost : Nat, wiped : Nat, switched : Nat]
      BY <1>2 DEF ReceiveRound, TimeoutRound, WireTypeOK
    <2> QED
      BY <2>1, <2>2, <2>3, <2>4 DEF WireTypeOK, nicVars
  <1>3. CASE NicAnswer
    <2>1. /\ Head(to_nic) \in Requests
          /\ to_nic' \in Seq(Requests)
      BY <1>3 DEF NicAnswer, WireTypeOK
    <2>2. inbox' \in Seq(NicAnswers)
      BY <1>3, <2>1, AnswerType DEF NicAnswer, WireTypeOK
    <2>3. nic_filter' \in [Channel -> Mac \cup {NoMac}]
      BY <1>3, <2>1 DEF NicAnswer, WireTypeOK, Requests
    <2> QED
      BY <1>3, <2>1, <2>2, <2>3 DEF NicAnswer, WireTypeOK
  <1>4. CASE LoseCommand \/ LoseAnswer
    <2>1. /\ to_nic' = to_nic \/ (to_nic # <<>> /\ to_nic' = Tail(to_nic))
          /\ inbox' = inbox \/ (inbox # <<>> /\ inbox' = Tail(inbox))
      BY <1>4 DEF LoseCommand, LoseAnswer
    <2>2. to_nic' \in Seq(Requests) /\ inbox' \in Seq(NicAnswers)
      <3>1. to_nic \in Seq(Requests) /\ inbox \in Seq(NicAnswers)
        BY DEF WireTypeOK
      <3>2. to_nic' \in Seq(Requests)
        BY ONLY <2>1, <3>1, TailType
      <3>3. inbox' \in Seq(NicAnswers)
        BY ONLY <2>1, <3>1, TailType
      <3> QED
        BY <3>2, <3>3
    <2>3. faults' \in [late : Nat, lost : Nat, wiped : Nat, switched : Nat]
      <3>1. faults \in [late : Nat, lost : Nat, wiped : Nat, switched : Nat]
        BY DEF WireTypeOK
      <3>2. faults' = [faults EXCEPT !.lost = @ + 1]
        BY <1>4 DEF LoseCommand, LoseAnswer
      <3> QED
        BY ONLY <3>1, <3>2
    <2> QED
      BY <1>4, <2>2, <2>3 DEF LoseCommand, LoseAnswer, WireTypeOK, nicVars
  <1>5. CASE NicWipe
    <2>1. nic_filter' \in [Channel -> Mac \cup {NoMac}]
      BY <1>5 DEF NicWipe, WireTypeOK
    <2> QED
      BY <1>5, <2>1 DEF NicWipe, WireTypeOK
  <1>6. CASE NicSwitch
    BY <1>6 DEF NicSwitch, WireTypeOK
  <1>7. CASE UNCHANGED systemVars
    BY <1>7 DEF systemVars, nicVars, WireTypeOK
  <1> QED
    BY <1>2, <1>3, <1>4, <1>5, <1>6, <1>7 DEF SystemNext, LoopRound

LEMMA WireInit ==
  ASSUME SystemInit
  PROVE  WireTypeOK
  BY NicAssumption DEF SystemInit, WireTypeOK

LEMMA LoopKeepsInvariant ==
  ASSUME IInv, [Next]_vars
  PROVE  IInv'
  BY RoundKeeps, RequestKeeps, StutterKeeps DEF Next, RunRound

(* As long as the wire can deliver what the NIC answers, the daemon in the *)
(* system is the loop that has been proved correct against any wire.       *)
THEOREM SystemRunsTheLoop ==
  ASSUME NicAnswers \subseteq RxPackets
  PROVE  SystemSpec => Spec /\ [](IInv /\ WireTypeOK)
  <1>1. SystemInit => Init /\ IInv /\ WireTypeOK
    BY InitEstablishes, WireInit DEF SystemInit
  <1>2. IInv /\ WireTypeOK /\ [SystemNext]_systemVars =>
          (IInv /\ WireTypeOK)' /\ [Next]_vars
    BY LoopStep, LoopKeepsInvariant, WireStep
  <1> QED
    BY <1>1, <1>2, PTL DEF SystemSpec, Spec

-------------------------------------------------------------------------------
(* The mode of the NIC and what is known of it, as long as it keeps its    *)
(* mode: the answers on their way, the sampled flags and the reported mode.*)
ModeKnown ==
  faults.switched = 0 =>
    /\ \A i \in 1..Len(inbox) :
         inbox[i].cmd = "GET_FILTER" => inbox[i].flag = nic_hostless
    /\ \A c \in Channel : flowsteering[c] => nic_hostless
    /\ hostless = "hostless" => nic_hostless

(* A round learns of a mode from a GET_FILTER answer only.                 *)
LEMMA RoundLearns ==
  ASSUME IInv, IInv', NEW rx \in RxPackets \cup {NoPacket}, Round(rx)
  PROVE  /\ \A c \in Channel : flowsteering'[c] =>
              flowsteering[c] \/ (rx.cmd = "GET_FILTER" /\ rx.flag)
         /\ hostless' = "hostless" =>
              hostless = "hostless" \/ flowsteering'[0]
  <1>1. ASSUME NEW c \in Channel, flowsteering'[c]
        PROVE  flowsteering[c] \/ (rx.cmd = "GET_FILTER" /\ rx.flag)
    <2>1. \/ flowsteering' = flowsteering
          \/ flowsteering' = [x \in Channel |-> FALSE]
          \/ flowsteering' = Sampled(rx)
      <3>1. CASE L2Round(rx)
        BY <3>1 DEF L2Round, PollL2, PollL2Config, L2Restart, L2Send,
           L2SkipReset, L2Accepted, L2Rejected, L2Stopped, L2Unchanged,
           ClearState
      <3>2. CASE L3L4Round(rx)
        BY <3>2 DEF L3L4Round, PollL3L4Config, L3L4Send, L3L4Accepted,
           L3L4Rejected, L3L4Unchanged, ClearState
      <3>3. CASE TestRound(rx)
        BY <3>3 DEF TestRound, PollTest, TestParams, TestSend, TestPassed,
           TestRetried, TestFailed, TestEnd, ClearState
      <3>4. CASE DisabledRound
        BY <3>4 DEF DisabledRound, stateVars
      <3> QED
        BY <3>1, <3>2, <3>3, <3>4 DEF Round
    <2>2. CASE flowsteering' = Sampled(rx) /\ Sampled(rx) # flowsteering
      <3>1. /\ test_state = CHECK_FILTERS_RESPONSE
            /\ TestReplyAcked(rx) = "ACK"
            /\ flowsteering' = [flowsteering EXCEPT ![ch_under_test] = rx.flag]
        BY <2>2 DEF Sampled
      <3>2. rx.cmd = TestCommand(test_state - 1)
        BY <3>1, AckMatches, Zenon DEF TestReplyAcked
      <3>3. TestCommand(test_state - 1) = "GET_FILTER"
        BY <3>1 DEF TestCommand, CHECK_FILTERS_RESPONSE, ECHO,
             CHECK_FILTERS, GET_PT_STATS, GET_LINK_STATUS
      <3>4. flowsteering \in [Channel -> BOOLEAN]
        BY DEF IInv, TypeOK, StateTypeOK
      <3> QED
        BY <1>1, <3>1, <3>2, <3>3, <3>4
    <2> QED
      BY <1>1, <2>1, <2>2
  <1>2. hostless' = hostless \/ hostless' = Mode(flowsteering', channel_count')
    BY DEF Round, L2Round, PollL2, TestRound, L3L4Round, SimpleEffects,
       DisabledRound
  <1>3. Mode(flowsteering', channel_count') = "hostless" => flowsteering'[0]
    BY DEF Mode, IsHostless
  <1> QED
    BY <1>1, <1>2, <1>3

LEMMA ModeStep ==
  ASSUME NicAnswers \subseteq RxPackets, IInv, IInv', WireTypeOK, ModeKnown,
         [SystemNext]_systemVars
  PROVE  ModeKnown'
  <1>1. CASE ReceiveRound
    <2>0. SUFFICES ASSUME faults.switched = 0
                   PROVE  ModeKnown'
      BY <1>1 DEF ReceiveRound, ModeKnown
    <2>1. PICK rx \in NicAnswers : rx = inbox[1] /\ Round(rx)
      BY <1>1 DEF ReceiveRound, WireTypeOK
    <2>2. rx.cmd = "GET_FILTER" => rx.flag = nic_hostless
      BY <1>1, <2>0, <2>1 DEF ReceiveRound, ModeKnown, WireTypeOK
    <2>3. \A i \in 1..Len(inbox') :
            inbox'[i].cmd = "GET_FILTER" => inbox'[i].flag = nic_hostless
      BY <1>1, <2>0, TailType DEF ReceiveRound, ModeKnown, WireTypeOK
    <2>4. /\ \A c \in Channel : flowsteering'[c] =>
               flowsteering[c] \/ (rx.cmd = "GET_FILTER" /\ rx.flag)
          /\ hostless' = "hostless" =>
               hostless = "hostless" \/ flowsteering'[0]
      BY <2>1, RoundLearns
    <2>5. nic_hostless' = nic_hostless
      BY <1>1 DEF ReceiveRound, nicVars
    <2> QED
      BY <2>0, <2>2, <2>3, <2>4, <2>5 DEF ModeKnown
  <1>2. CASE TimeoutRound
    <2>0. SUFFICES ASSUME faults.switched = 0
                   PROVE  ModeKnown'
      BY <1>2 DEF TimeoutRound, ModeKnown, WireTypeOK
    <2>1. /\ \A c \in Channel : flowsteering'[c] => flowsteering[c]
          /\ hostless' = "hostless" =>
               hostless = "hostless" \/ flowsteering'[0]
      BY <1>2, RoundLearns DEF TimeoutRound, NoPacket
    <2>2. nic_hostless' = nic_hostless /\ inbox' = inbox
      BY <1>2 DEF TimeoutRound, nicVars
    <2> QED
      BY <2>0, <2>1, <2>2 DEF ModeKnown
  <1>3. CASE NicAnswer
    <2>0. SUFFICES ASSUME faults.switched = 0
                   PROVE  ModeKnown'
      BY <1>3 DEF NicAnswer, ModeKnown
    <2>1. PICK req \in Requests : inbox' = Append(inbox, Answer(req))
      BY <1>3 DEF NicAnswer, WireTypeOK
    <2>2. Answer(req).cmd = "GET_FILTER" => Answer(req).flag = nic_hostless
      BY DEF Answer
    <2>3. inbox \in Seq(NicAnswers) /\ Answer(req) \in NicAnswers
      BY AnswerType DEF WireTypeOK
    <2>4. \A i \in 1..Len(inbox') :
            inbox'[i].cmd = "GET_FILTER" => inbox'[i].flag = nic_hostless
      <3>1. ASSUME NEW i \in 1..Len(inbox')
            PROVE  \/ i \in 1..Len(inbox) /\ inbox'[i] = inbox[i]
                   \/ inbox'[i] = Answer(req)
        BY <2>1, <2>3, <3>1
      <3> QED
        BY <2>0, <2>2, <3>1 DEF ModeKnown
    <2> QED
      BY <1>3, <2>0, <2>4 DEF NicAnswer, ModeKnown, vars, fsmVars, stateVars,
         smVars
  <1>4. CASE LoseAnswer
    <2>1. \A i \in 1..Len(inbox') :
            i + 1 \in 1..Len(inbox) /\ inbox'[i] = inbox[i + 1]
      BY <1>4, TailType DEF LoseAnswer, WireTypeOK
    <2>2. faults'.switched = faults.switched
      BY <1>4 DEF LoseAnswer, WireTypeOK
    <2>3. UNCHANGED <<nic_hostless, flowsteering, hostless>>
      BY <1>4 DEF LoseAnswer, nicVars, vars, fsmVars, stateVars, smVars
    <2> QED
      BY <2>1, <2>2, <2>3 DEF ModeKnown
  <1>5. CASE LoseCommand \/ NicWipe
    <2>1. faults'.switched = faults.switched
      BY <1>5 DEF LoseCommand, NicWipe, WireTypeOK
    <2>2. UNCHANGED <<inbox, nic_hostless, flowsteering, hostless>>
      BY <1>5 DEF LoseCommand, NicWipe, nicVars, vars, fsmVars, stateVars,
         smVars
    <2> QED
      BY <2>1, <2>2 DEF ModeKnown
  <1>6. CASE NicSwitch
    BY <1>6 DEF NicSwitch, WireTypeOK, ModeKnown
  <1>7. CASE UNCHANGED systemVars
    BY <1>7 DEF systemVars, nicVars, vars, fsmVars, stateVars, smVars,
       ModeKnown
  <1> QED
    BY <1>1, <1>2, <1>3, <1>4, <1>5, <1>6, <1>7 DEF SystemNext, LoopRound

(* However late or lossy the wire is and however often it is retried, the  *)
(* BMC is told that the NIC is hostless only if it is, or changed its mode.*)
THEOREM ReportedModeIsTheNics ==
  ASSUME NicAnswers \subseteq RxPackets
  PROVE  SystemSpec => []HostlessOnlyIfSo
  <1>1. SystemInit => ModeKnown
    BY DEF SystemInit, Init, ModeKnown
  <1>2. /\ IInv /\ WireTypeOK
        /\ (IInv /\ WireTypeOK)'
        /\ ModeKnown
        /\ [SystemNext]_systemVars
        => ModeKnown'
    BY ModeStep
  <1>3. ModeKnown => HostlessOnlyIfSo
    BY DEF ModeKnown, HostlessOnlyIfSo
  <1>4. SystemSpec => [](IInv /\ WireTypeOK)
    BY SystemRunsTheLoop
  <1> QED
    BY <1>1, <1>2, <1>3, <1>4, PTL DEF SystemSpec
-------------------------------------------------------------------------------
(* The wire carries the commands from the writing of one to the receipt of *)
(* its answer, in order.  What is on it is told by how many commands were  *)
(* written after it.                                                       *)
InFlight == Len(inbox) + Len(to_nic)

AfterAnswer(i) == Len(inbox) - i + Len(to_nic)
AfterCommand(j) == Len(to_nic) - j

(* How far behind the last command those of the kind cmd are.              *)
Behind(cmd) ==
  {AfterAnswer(i) : i \in {k \in 1..Len(inbox) : inbox[k].cmd = cmd}}
    \cup {AfterCommand(j) : j \in {k \in 1..Len(to_nic) : to_nic[k].cmd = cmd}}

Awaiting == \/ l2_config_state \in L2ResponseStates
            \/ test_state \in TestResponseStates
            \/ l3l4_waiting_response

Starting == \/ l2_config_state = RESTART
            \/ l2_config_state = L2_CONFIG_END /\ test_state = TEST_PARAMS

(* One more command on the wire takes a round that waits in vain, one that *)
(* starts again and one that writes, all of them late.                     *)
LateRoundsPerCommand ==
  InFlight > 0 =>
    3 * (InFlight - 1) + (IF Awaiting THEN 0 ELSE IF Starting THEN 1 ELSE 2)
      <= faults.late

(* How many commands, at least, were written since the L2 machine started, *)
(* and since the test did.                                                 *)
L2Sent(s) ==
  IF s <= CLEAR_0 THEN 0
  ELSE IF s <= GET_VERSION THEN 1
  ELSE IF s <= GET_CAPABILITIES THEN 2
  ELSE IF s <= GET_MAC THEN 3
  ELSE IF s <= SET_MAC_FILTER_0 THEN 4
  ELSE IF s <= ENABLE_CHANNEL_0 THEN 5
  ELSE IF s <= ENABLE_TX THEN 6
  ELSE 7

TestSent(t) ==
  IF t <= ECHO THEN 0
  ELSE IF t <= CHECK_FILTERS THEN 1
  ELSE IF t <= GET_PT_STATS THEN 2
  ELSE IF t <= GET_LINK_STATUS THEN 3
  ELSE 4

Sent(s, t) == L2Sent(s) + TestSent(t)

FewFaults == faults.late + 3 * faults.lost < 35

(* A SET_FILTER of an earlier connection is followed by all that was       *)
(* written since, but for what was lost.                                   *)
OldFiltersFarBehind ==
  l3l4_config_state = L3L4_CONFIG_BEGIN =>
    \A d \in Behind("SET_FILTER") :
      Sent(l2_config_state, test_state) <= d + faults.lost

(* So is a GET_LINK_STATUS of an earlier test.                             *)
OldTestsFarBehind ==
  test_state # TEST_END =>
    \A d \in Behind("GET_LINK_STATUS") :
      \/ test_state = GET_LINK_STATUS_RESPONSE /\ d = 0
      \/ TestSent(test_state) <= d + faults.lost

(* Once filters are being configured, the only SET_FILTER on the wire is   *)
(* the one just written, and when it is answered the NIC has its filter.   *)
OnlyOwnFilterOnWire ==
  l3l4_config_state # L3L4_CONFIG_BEGIN /\ FewFaults =>
    \A d \in Behind("SET_FILTER") : l3l4_waiting_response /\ d = 0

OwnFilterIsRight ==
  l3l4_config_state # L3L4_CONFIG_BEGIN /\ FewFaults =>
    /\ \A j \in 1..Len(to_nic) : to_nic[j].cmd = "SET_FILTER" =>
         to_nic[j].ch = l3l4_channel /\ to_nic[j].mac = host_mac
    /\ faults.wiped = 0 =>
         \A i \in 1..Len(inbox) : inbox[i].cmd = "SET_FILTER" =>
           nic_filter[l3l4_channel] = host_mac

FilterInstalledSoFar ==
  l3l4_config_state # L3L4_CONFIG_BEGIN /\ FewFaults /\ faults.wiped = 0 =>
    \A c \in ReportedChannels :
      c < l3l4_channel \/ l3l4_config_state = L3L4_CONFIG_END =>
        nic_filter[c] = host_mac

WireInv ==
  /\ LateRoundsPerCommand
  /\ OldFiltersFarBehind
  /\ OldTestsFarBehind
  /\ OnlyOwnFilterOnWire
  /\ OwnFilterIsRight
  /\ FilterInstalledSoFar
  /\ TestEndsInSync

-------------------------------------------------------------------------------
(* The channels whose SET_FILTER has been written.                         *)
Told(c) ==
  /\ c \in ReportedChannels
  /\ \/ l3l4_config_state = L3L4_CONFIG_END
     \/ /\ l3l4_config_state = CONFIG_FILTERS
        /\ c < l3l4_channel \/ (c = l3l4_channel /\ l3l4_waiting_response)

SetsFilter(req, c) == req.cmd = "SET_FILTER" /\ req.ch = c

(* Without losses the last filter on its way to such a channel, or the one *)
(* it has, is the right one.                                               *)
RightFilterLast ==
  faults.lost = 0 /\ faults.wiped = 0 =>
    \A c \in Channel : Told(c) =>
      \/ /\ nic_filter[c] = host_mac
         /\ \A j \in 1..Len(to_nic) : ~SetsFilter(to_nic[j], c)
      \/ \E j \in 1..Len(to_nic) :
           /\ SetsFilter(to_nic[j], c) /\ to_nic[j].mac = host_mac
           /\ \A k \in j + 1..Len(to_nic) : ~SetsFilter(to_nic[k], c)

-------------------------------------------------------------------------------
(* What a round does as seen from the wire.                                *)
Written(req) == IF req = NoRequest THEN 0 ELSE 1

Paces(rx) ==
  /\ tx' # NoRequest => ~Awaiting /\ ~Starting /\ Awaiting'
  /\ Awaiting /\ rx = NoPacket => Starting'

Counts ==
  /\ l3l4_config_state' = L3L4_CONFIG_BEGIN =>
       /\ tx'.cmd # "SET_FILTER"
       /\ \/ Sent(l2_config_state', test_state') = 0
          \/ /\ l3l4_config_state = L3L4_CONFIG_BEGIN
             /\ Sent(l2_config_state', test_state')
                  <= Sent(l2_config_state, test_state) + Written(tx')
  /\ test_state' # TEST_END =>
       /\ tx'.cmd = "GET_LINK_STATUS" =>
            test_state' = GET_LINK_STATUS_RESPONSE
       /\ \/ TestSent(test_state') = 0
          \/ /\ test_state \notin {GET_LINK_STATUS_RESPONSE, TEST_END}
             /\ TestSent(test_state') <= TestSent(test_state) + Written(tx')

(* A test ends, and the filters are done, with an acknowledgement.         *)
Ends(rx) ==
  test_state' = TEST_END /\ l3l4_config_state' # CONFIG_FILTERS =>
    /\ tx' = NoRequest
    /\ \/ /\ test_state = GET_LINK_STATUS_RESPONSE
          /\ rx.cmd = "GET_LINK_STATUS"
       \/ /\ l3l4_config_state = CONFIG_FILTERS
          /\ l3l4_waiting_response
          /\ rx.cmd = "SET_FILTER"

FilterWritten ==
  /\ \/ /\ l3l4_config_state = L3L4_CONFIG_BEGIN
        /\ Sent(l2_config_state, test_state) = 11
        /\ l3l4_channel' = 0
     \/ /\ l3l4_config_state = CONFIG_FILTERS
        /\ ~l3l4_waiting_response
        /\ l3l4_channel' = l3l4_channel
  /\ l3l4_config_state' = CONFIG_FILTERS
  /\ l3l4_waiting_response'
  /\ tx' = Request("SET_FILTER", l3l4_channel', host_mac)

FilterAcked(rx) ==
  /\ l3l4_config_state = CONFIG_FILTERS
  /\ l3l4_waiting_response
  /\ ~l3l4_waiting_response'
  /\ rx.cmd = "SET_FILTER"
  /\ tx' = NoRequest
  /\ \/ /\ l3l4_config_state' = CONFIG_FILTERS
        /\ l3l4_channel' = l3l4_channel + 1
     \/ /\ l3l4_config_state' = L3L4_CONFIG_END
        /\ l3l4_channel' = 0
        /\ channel_count <= l3l4_channel + 1

FiltersKept ==
  /\ l3l4_config_state = L3L4_CONFIG_END
  /\ tx'.cmd # "SET_FILTER"
  /\ UNCHANGED <<l3l4_config_state, l3l4_channel, l3l4_waiting_response>>

Filters(rx) ==
  l3l4_config_state' # L3L4_CONFIG_BEGIN =>
    /\ UNCHANGED <<host_mac, channel_count>>
    /\ FilterWritten \/ FilterAcked(rx) \/ FiltersKept

RoundEffect(rx) == Paces(rx) /\ Counts /\ Ends(rx) /\ Filters(rx)

USE DEF RESTART, CLEAR_0, CLEAR_0_RESPONSE, GET_VERSION, GET_VERSION_RESPONSE,
        GET_CAPABILITIES, GET_CAPABILITIES_RESPONSE, CLEAR_1, CLEAR_1_RESPONSE,
        RESET_CHANNEL_0, RESET_CHANNEL_0_RESPONSE, RESET_CHANNEL_1, STOPPED,
        GET_MAC, GET_MAC_RESPONSE, SET_MAC_FILTER_0, SET_MAC_FILTER_0_RESPONSE,
        SET_MAC_FILTER_1, ENABLE_CHANNEL_0, ENABLE_CHANNEL_0_RESPONSE,
        ENABLE_CHANNEL_1, ENABLE_TX, L2_CONFIG_END, L3L4_CONFIG_BEGIN,
        CONFIG_FILTERS, L3L4_CONFIG_END, TEST_PARAMS, ECHO, ECHO_RESPONSE,
        CHECK_FILTERS, CHECK_FILTERS_RESPONSE, GET_PT_STATS,
        GET_PT_STATS_RESPONSE, GET_LINK_STATUS, GET_LINK_STATUS_RESPONSE,
        TEST_END, Sent

(* A failure, from whatever state.                                         *)
LEMMA ClearedOnWire ==
  ASSUME ClearState, tx' = NoRequest, NEW rx
  PROVE  RoundEffect(rx)
  <1>1. Paces(rx) /\ Counts
    BY DEF ClearState, Paces, Counts, Starting, L2Sent, TestSent, NoRequest,
       Request
  <1>2. Ends(rx) /\ Filters(rx)
    BY DEF ClearState, Ends, Filters
  <1> QED
    BY <1>1, <1>2 DEF RoundEffect

LEMMA SilenceIsNoAck ==
  ASSUME NEW want, NEW legacy
  PROVE  ValidateResponse(NoPacket, want, legacy) # "ACK"
  BY DEF ValidateResponse, NoPacket

LEMMA L2OnWire ==
  ASSUME IInv, NEW rx, L2Round(rx)
  PROVE  RoundEffect(rx)
  <1>1. CASE L2Rejected(rx) \/ L2Stopped
    BY <1>1, ClearedOnWire DEF L2Rejected, L2Stopped
  <1>2. CASE L2Restart \/ L2Send(host_mac) \/ L2SkipReset \/ L2Accepted(rx)
    <2>1. /\ enabled
          /\ l2_config_state \in 0..25
          /\ l3l4_config_state = L3L4_CONFIG_BEGIN
          /\ test_state = TEST_PARAMS
          /\ ~l3l4_waiting_response
      BY DEF L2Round, ConnectionState, IInv, TypeOK, StateTypeOK, L2State,
         FsmsRestartTogether
    <2>2. UNCHANGED <<l3l4_config_state, test_state, l3l4_waiting_response>>
      BY <1>2 DEF L2Restart, L2Send, L2SkipReset, L2Accepted, L2Unchanged
    <2>3. TestSent(test_state) = 0 /\ TestSent(test_state') = 0
      BY <2>1, <2>2 DEF TestSent
    <2>4. Ends(rx) /\ Filters(rx)
      BY <2>1, <2>2 DEF Ends, Filters
    <2>5. CASE L2Send(host_mac)
      <3>1. /\ l2_config_state \in L2SendStates
            /\ l2_config_state' = l2_config_state + 1
            /\ tx' = L2Request(l2_config_state, host_mac)
        BY <2>5 DEF L2Send
      <3>2. tx'.cmd = L2Command(l2_config_state)
        BY <3>1 DEF L2Request, Request
      <3>3. tx'.cmd \notin {"SET_FILTER", "GET_LINK_STATUS", "NONE"}
        BY <3>1, <3>2 DEF L2Command, L2SendStates
      <3>4. /\ L2Sent(l2_config_state') <= L2Sent(l2_config_state) + 1
            /\ L2Sent(l2_config_state') \in Nat
            /\ L2Sent(l2_config_state) \in Nat
        BY <3>1 DEF L2Sent, L2SendStates
      <3>5. ~Awaiting /\ ~Starting /\ Awaiting'
        BY <2>1, <3>1 DEF Awaiting, Starting, L2SendStates, L2ResponseStates,
           TestResponseStates, TestSendStates
      <3>6. tx' # NoRequest
        BY <3>3 DEF NoRequest, Request
      <3>7. Paces(rx)
        BY <3>5, Zenon DEF Paces
      <3>8. Counts
        <4>1. Written(tx') = 1
          BY <3>6 DEF Written
        <4>2. Sent(l2_config_state', test_state')
                <= Sent(l2_config_state, test_state) + Written(tx')
          BY <2>3, <3>4, <4>1
        <4>3. tx'.cmd # "SET_FILTER" /\ tx'.cmd # "GET_LINK_STATUS"
          BY <3>3
        <4>4. l3l4_config_state = L3L4_CONFIG_BEGIN /\ TestSent(test_state') = 0
          BY <2>1, <2>3
        <4> QED
          BY ONLY <4>2, <4>3, <4>4 DEF Counts
      <3> QED
        BY <2>4, <3>7, <3>8 DEF RoundEffect
    <2>6. CASE L2Restart \/ L2SkipReset \/ L2Accepted(rx)
      <3>1. tx' = NoRequest
        BY <2>6 DEF L2Restart, L2SkipReset, L2Accepted
      <3>2. L2Sent(l2_config_state') = L2Sent(l2_config_state)
        <4>1. CASE L2Restart \/ L2SkipReset
          BY <4>1 DEF L2Restart, L2SkipReset, L2Sent
        <4>2. CASE L2Accepted(rx)
          <5>1. /\ l2_config_state \in L2ResponseStates
                /\ l2_config_state' =
                     L2NextState(l2_config_state, channel_count')
            BY <4>2 DEF L2Accepted
          <5>2. l2_config_state = GET_VERSION_RESPONSE => channel_count' = 0
            BY <4>2 DEF L2Accepted, IInv, FsmsRestartTogether
          <5> HIDE DEF L2Accepted
          <5> QED
            BY <5>1, <5>2 DEF L2Sent, L2NextState, GoToNextChannel,
               L2ResponseStates, L2SendStates
        <4> QED
          BY <2>6, <4>1, <4>2
      <3>3. Awaiting /\ rx = NoPacket => FALSE
        <4>1. L2Accepted(rx) => rx # NoPacket
          BY SilenceIsNoAck, Zenon DEF L2Accepted, L2Accepts, L2Verdict
        <4>2. L2Restart \/ L2SkipReset => l2_config_state \notin L2ResponseStates
          BY DEF L2Restart, L2SkipReset, L2ResponseStates, L2SendStates
        <4>3. test_state \notin TestResponseStates
          BY <2>1 DEF TestResponseStates, TestSendStates
        <4> QED
          BY <2>1, <2>6, <4>1, <4>2, <4>3, Zenon DEF Awaiting
      <3>4. Paces(rx)
        BY <3>1, <3>3 DEF Paces
      <3>5. L2Sent(l2_config_state) \in Nat
        BY DEF L2Sent
      <3>6. Counts
        BY <2>1, <2>2, <2>3, <3>1, <3>2, <3>5
           DEF Counts, Written, NoRequest, Request
      <3> QED
        BY <2>4, <3>4, <3>6 DEF RoundEffect
    <2> QED
      BY <1>2, <2>5, <2>6
  <1> QED
    BY <1>1, <1>2 DEF L2Round, PollL2, PollL2Config

LEMMA L3L4OnWire ==
  ASSUME IInv, NEW rx, L3L4Round(rx)
  PROVE  RoundEffect(rx)
  <1>1. CASE L3L4Rejected(rx)
    BY <1>1, ClearedOnWire DEF L3L4Rejected
  <1>2. CASE L3L4Send(host_mac) \/ L3L4Accepted(rx)
    <2>1. /\ l2_config_state = L2_CONFIG_END
          /\ l3l4_config_state \in {L3L4_CONFIG_BEGIN, CONFIG_FILTERS}
          /\ test_state = TEST_END
          /\ l3l4_config_state = L3L4_CONFIG_BEGIN => ~l3l4_waiting_response
          /\ l3l4_channel \in 0..1 /\ channel_count \in 0..2
      BY L3L4RoundState DEF IInv, TypeOK, StateTypeOK, L3L4BetweenTests
    <2>2. /\ UNCHANGED <<l2_config_state, test_state, channel_count>>
          /\ host_mac' = host_mac
      BY <1>2 DEF L3L4Send, L3L4Accepted, L3L4Unchanged, L3L4Round,
         SimpleEffects
    <2>3. ~Starting
      BY <2>1 DEF Starting
    <2>4. CASE L3L4Send(host_mac)
      <3>1. /\ ~l3l4_waiting_response
            /\ l3l4_waiting_response'
            /\ l3l4_config_state' = CONFIG_FILTERS
            /\ tx' = Request("SET_FILTER", l3l4_channel', host_mac)
            /\ l3l4_channel' = IF l3l4_config_state = L3L4_CONFIG_BEGIN
                               THEN 0 ELSE l3l4_channel
        BY <2>1, <2>4 DEF L3L4Send, L3L4Waiting
      <3>2. ~Awaiting /\ Awaiting'
        BY <2>1, <3>1 DEF Awaiting, L2ResponseStates, L2SendStates,
           TestResponseStates, TestSendStates
      <3>3. Sent(l2_config_state, test_state) = 11
        BY <2>1 DEF L2Sent, TestSent
      <3>4. Paces(rx) /\ Counts /\ Ends(rx)
        BY <2>1, <2>2, <2>3, <3>1, <3>2 DEF Paces, Counts, Ends
      <3>5. FilterWritten
        BY <2>1, <3>1, <3>3 DEF FilterWritten
      <3> QED
        BY <2>2, <3>4, <3>5 DEF RoundEffect, Filters
    <2>5. CASE L3L4Accepted(rx)
      <3>1. /\ l3l4_waiting_response
            /\ ~l3l4_waiting_response'
            /\ l3l4_config_state = CONFIG_FILTERS
            /\ tx' = NoRequest
            /\ \/ /\ l3l4_config_state' = CONFIG_FILTERS
                  /\ l3l4_channel' = l3l4_channel + 1
               \/ /\ l3l4_config_state' = L3L4_CONFIG_END
                  /\ l3l4_channel' = 0
                  /\ channel_count <= l3l4_channel + 1
        BY <2>1, <2>5 DEF L3L4Accepted, L3L4Waiting, AllChannelsDone
      <3>2. ValidateResponse(rx, "SET_FILTER", FALSE) = "ACK"
        BY <2>5 DEF L3L4Accepted, L3L4Verdict
      <3>3. rx.cmd = "SET_FILTER"
        BY ONLY <3>2, AckMatches, Zenon
      <3>4. rx # NoPacket
        BY <3>3 DEF NoPacket
      <3>5. Paces(rx) /\ Counts /\ Ends(rx)
        BY <2>1, <2>2, <3>1, <3>3, <3>4 DEF Paces, Counts, Ends
      <3>6. FilterAcked(rx)
        BY <3>1, <3>3 DEF FilterAcked
      <3> QED
        BY <2>2, <3>5, <3>6 DEF RoundEffect, Filters
    <2> QED
      BY <1>2, <2>4, <2>5
  <1> QED
    BY <1>1, <1>2 DEF L3L4Round, PollL3L4Config

LEMMA TestOnWire ==
  ASSUME IInv, NEW rx, TestRound(rx)
  PROVE  RoundEffect(rx)
  <1>1. CASE TestFailed(rx, host_mac) \/ (TestEnd /\ pending_restart)
    BY <1>1, ClearedOnWire DEF TestFailed, TestEnd
  <1>2. CASE \/ TestParams \/ TestSend \/ TestPassed(rx, host_mac)
             \/ TestRetried(rx, host_mac) \/ (TestEnd /\ ~pending_restart)
    <2>1. /\ l2_config_state = L2_CONFIG_END
          /\ l3l4_config_state \in {L3L4_CONFIG_BEGIN, L3L4_CONFIG_END}
          /\ ~l3l4_waiting_response
          /\ test_state \in 0..9
      BY DEF TestRound, ConnectionState, IInv, TypeOK, StateTypeOK,
         L3L4BetweenTests
    <2>2. /\ UNCHANGED <<l2_config_state, l3l4_config_state, channel_count,
                         l3l4_channel, l3l4_waiting_response>>
          /\ host_mac' = host_mac
      BY <1>2 DEF TestParams, TestSend, TestPassed, TestRetried, TestEnd,
         TestUnchanged, TestRound, SimpleEffects
    <2>3. L2Sent(l2_config_state) = 7 /\ L2Sent(l2_config_state') = 7
      BY <2>1, <2>2 DEF L2Sent
    <2>4. l2_config_state \notin L2ResponseStates
      BY <2>1 DEF L2ResponseStates, L2SendStates
    <2>5. CASE TestSend
      <3>1. /\ test_state \in TestSendStates
            /\ test_state' = test_state + 1
            /\ tx' = TestRequest(test_state)
        BY <2>5 DEF TestSend
      <3>2. tx'.cmd = TestCommand(test_state)
        BY <3>1 DEF TestRequest, Request
      <3>3. /\ tx'.cmd \notin {"SET_FILTER", "NONE"}
            /\ tx'.cmd = "GET_LINK_STATUS" => test_state = GET_LINK_STATUS
        BY <3>1, <3>2 DEF TestCommand, TestSendStates
      <3>4. /\ TestSent(test_state') = TestSent(test_state) + 1
            /\ TestSent(test_state) \in Nat
            /\ test_state' # TEST_END
            /\ test_state \notin {GET_LINK_STATUS_RESPONSE, TEST_END}
        BY <3>1 DEF TestSent, TestSendStates
      <3>5. ~Awaiting /\ ~Starting /\ Awaiting'
        BY <2>1, <2>4, <3>1 DEF Awaiting, Starting, TestResponseStates,
           TestSendStates
      <3>6. tx' # NoRequest
        BY <3>3 DEF NoRequest, Request
      <3>7. Paces(rx) /\ Ends(rx)
        BY <3>4, <3>5 DEF Paces, Ends
      <3>8. Counts
        BY <2>2, <2>3, <3>1, <3>3, <3>4, <3>6 DEF Counts, Written
      <3>9. Filters(rx)
        BY <2>1, <2>2, <3>3 DEF Filters, FiltersKept
      <3> QED
        BY <3>7, <3>8, <3>9 DEF RoundEffect
    <2>6. CASE \/ TestParams \/ TestPassed(rx, host_mac)
               \/ TestRetried(rx, host_mac) \/ (TestEnd /\ ~pending_restart)
      <3>1. tx' = NoRequest
        BY <2>6 DEF TestParams, TestPassed, TestRetried, TestEnd
      <3>2. \/ TestPassed(rx, host_mac)
            \/ test_state = TEST_PARAMS /\ test_state' = ECHO
            \/ test_state' = TEST_PARAMS
        BY <2>6 DEF TestParams, TestRetried, TestEnd
      <3>3. TestPassed(rx, host_mac) =>
              /\ test_state \in TestResponseStates
              /\ test_state' = test_state + 1
              /\ rx.cmd = TestCommand(test_state - 1)
        <4>1. SUFFICES ASSUME TestPassed(rx, host_mac)
                       PROVE  rx.cmd = TestCommand(test_state - 1)
          BY DEF TestPassed
        <4>2. TestReplyAcked(rx) = "ACK"
          BY <4>1 DEF TestPassed, TestPasses, TestVerdict
        <4> QED
          BY <4>2, AckMatches, Zenon DEF TestReplyAcked
      <3>4. test_state' = TEST_END =>
              /\ test_state = GET_LINK_STATUS_RESPONSE
              /\ rx.cmd = "GET_LINK_STATUS"
        BY <3>2, <3>3 DEF TestCommand, TestResponseStates, TestSendStates
      <3>5. Ends(rx)
        BY <3>1, <3>4 DEF Ends
      <3>6. \/ TestSent(test_state') = 0
            \/ /\ TestSent(test_state') = TestSent(test_state)
               /\ test_state = GET_LINK_STATUS_RESPONSE =>
                    test_state' = TEST_END
               /\ test_state # TEST_END
        BY <3>2, <3>3 DEF TestSent, TestResponseStates, TestSendStates
      <3>7. TestSent(test_state) \in Nat /\ TestSent(test_state') \in Nat
        BY DEF TestSent
      <3>8. Counts
        <4>1. tx'.cmd = "NONE" /\ Written(tx') = 0
          BY <3>1 DEF NoRequest, Request, Written
        <4>2. /\ Sent(l2_config_state', test_state')
                <= Sent(l2_config_state, test_state) + Written(tx')
              /\ TestSent(test_state') <= TestSent(test_state) + Written(tx')
          BY <2>3, <3>6, <3>7, <4>1
        <4>3. l3l4_config_state' = l3l4_config_state
          BY <2>2
        <4>4. tx'.cmd # "SET_FILTER" /\ tx'.cmd # "GET_LINK_STATUS"
          BY <4>1
        <4>5. test_state' # TEST_END =>
                \/ TestSent(test_state') = 0
                \/ test_state \notin {GET_LINK_STATUS_RESPONSE, TEST_END}
          BY <3>6
        <4> QED
          BY ONLY <4>2, <4>3, <4>4, <4>5, Zenon DEF Counts
      <3>9. Awaiting /\ rx = NoPacket => Starting'
        <4>1. TestPassed(rx, host_mac) => rx # NoPacket
          BY <3>3 DEF NoPacket, TestCommand, TestResponseStates,
             TestSendStates
        <4>2. TestParams \/ TestEnd => ~Awaiting
          BY <2>1, <2>4 DEF Awaiting, TestResponseStates, TestSendStates,
             TestParams, TestEnd
        <4>3. TestRetried(rx, host_mac) => Starting'
          BY <2>1, <2>2 DEF TestRetried, Starting
        <4> QED
          BY <2>6, <4>1, <4>2, <4>3
      <3>10. Paces(rx)
        BY <3>1, <3>9 DEF Paces
      <3>11. Filters(rx)
        BY <2>1, <2>2, <3>1 DEF Filters, FiltersKept, NoRequest, Request
      <3> QED
        BY <3>5, <3>8, <3>10, <3>11 DEF RoundEffect
    <2> QED
      BY <1>2, <2>5, <2>6
  <1> QED
    BY <1>1, <1>2 DEF TestRound, PollTest

LEMMA DisabledOnWire ==
  ASSUME IInv, NEW rx, DisabledRound
  PROVE  RoundEffect(rx)
  <1>1. /\ l2_config_state = RESTART
        /\ l3l4_config_state = L3L4_CONFIG_BEGIN
        /\ test_state = TEST_PARAMS
        /\ ~l3l4_waiting_response
    BY DEF DisabledRound, ConnectionState, IInv, DisabledAtStart,
       FsmsRestartTogether
  <1>2. /\ UNCHANGED <<l2_config_state, l3l4_config_state, test_state>>
        /\ tx' = NoRequest
    BY DEF DisabledRound, stateVars
  <1> QED
    BY <1>1, <1>2 DEF RoundEffect, Paces, Counts, Ends, Filters, Starting,
       L2Sent, TestSent, NoRequest, Request

LEMMA RoundOnWire ==
  ASSUME IInv, NEW rx, Round(rx)
  PROVE  RoundEffect(rx)
  BY L2OnWire, L3L4OnWire, TestOnWire, DisabledOnWire DEF Round

-------------------------------------------------------------------------------
(* How the wire moves.                                                     *)
LEMMA AppendType ==
  ASSUME NEW S, NEW q \in Seq(S), NEW x \in S
  PROVE  /\ Append(q, x) \in Seq(S)
         /\ Len(Append(q, x)) = Len(q) + 1
         /\ Append(q, x)[Len(q) + 1] = x
         /\ \A i \in 1..Len(q) : Append(q, x)[i] = q[i]
  OBVIOUS

LEMMA BehindIs ==
  ASSUME WireTypeOK, NEW cmd, NEW d
  PROVE  d \in Behind(cmd) <=>
           \/ \E i \in 1..Len(inbox) :
                inbox[i].cmd = cmd /\ d = Len(inbox) - i + Len(to_nic)
           \/ \E j \in 1..Len(to_nic) :
                to_nic[j].cmd = cmd /\ d = Len(to_nic) - j
  BY DEF Behind, AfterAnswer, AfterCommand

LEMMA BehindType ==
  ASSUME WireTypeOK, NEW cmd, NEW d \in Behind(cmd)
  PROVE  d \in Nat /\ d + 1 <= Len(inbox) + Len(to_nic)
  <1>1. Len(inbox) \in Nat /\ Len(to_nic) \in Nat
    BY DEF WireTypeOK
  <1> QED
    BY <1>1, BehindIs

(* What a round writes and reads.                                          *)
LEMMA RoundMoves ==
  ASSUME WireTypeOK, IInv', ReceiveRound \/ TimeoutRound
  PROVE  /\ Len(inbox) \in Nat /\ Len(to_nic) \in Nat
         /\ Written(tx') \in {0, 1}
         /\ Len(to_nic') = Len(to_nic) + Written(tx')
         /\ \A j \in 1..Len(to_nic) : to_nic'[j] = to_nic[j]
         /\ Written(tx') = 1 => to_nic'[Len(to_nic')] = tx'
         /\ ReceiveRound =>
              /\ Len(inbox) > 0
              /\ Len(inbox') = Len(inbox) - 1
              /\ \A i \in 1..Len(inbox') : inbox'[i] = inbox[i + 1]
         /\ TimeoutRound => Len(inbox) = 0 /\ inbox' = inbox
  <1>1. Len(inbox) \in Nat /\ Len(to_nic) \in Nat
    BY DEF WireTypeOK
  <1>2. /\ Written(tx') \in {0, 1}
        /\ Len(to_nic') = Len(to_nic) + Written(tx')
        /\ \A j \in 1..Len(to_nic) : to_nic'[j] = to_nic[j]
        /\ Written(tx') = 1 => to_nic'[Len(to_nic')] = tx'
    <2>1. CASE tx' = NoRequest
      <3>1. to_nic' = to_nic /\ Written(tx') = 0
        BY <2>1 DEF ReceiveRound, TimeoutRound, WriteCommand, Written
      <3> QED
        BY <1>1, <3>1
    <2>2. CASE tx' # NoRequest
      <3>1. tx' \in Requests
        BY <2>2 DEF IInv, TypeOK, LoopTypeOK
      <3>2. to_nic' = Append(to_nic, tx') /\ Written(tx') = 1
        BY <2>2 DEF ReceiveRound, TimeoutRound, WriteCommand, Written
      <3>3. to_nic \in Seq(Requests)
        BY DEF WireTypeOK
      <3> QED
        BY <1>1, <3>1, <3>2, <3>3, AppendType
    <2> QED
      BY <2>1, <2>2
  <1>3. ReceiveRound =>
          /\ Len(inbox) > 0
          /\ Len(inbox') = Len(inbox) - 1
          /\ \A i \in 1..Len(inbox') : inbox'[i] = inbox[i + 1]
    <2>1. SUFFICES ASSUME ReceiveRound
                   PROVE  /\ Len(inbox) > 0
                          /\ Len(inbox') = Len(inbox) - 1
                          /\ \A i \in 1..Len(inbox') : inbox'[i] = inbox[i + 1]
      OBVIOUS
    <2>2. inbox \in Seq(NicAnswers) /\ inbox # <<>> /\ inbox' = Tail(inbox)
      BY <2>1 DEF ReceiveRound, WireTypeOK
    <2> QED
      BY <2>2, TailType
  <1>4. TimeoutRound => Len(inbox) = 0 /\ inbox' = inbox
    BY DEF TimeoutRound
  <1> QED
    BY <1>1, <1>2, <1>3, <1>4

LEMMA BehindRound ==
  ASSUME WireTypeOK, WireTypeOK', IInv', ReceiveRound \/ TimeoutRound,
         NEW cmd, NEW d \in Behind(cmd)'
  PROVE  \/ d = 0 /\ Written(tx') = 1 /\ tx'.cmd = cmd
         \/ d - Written(tx') \in Behind(cmd)
  <1> USE RoundMoves
  <1>1. \/ \E i \in 1..Len(inbox') :
             inbox'[i].cmd = cmd /\ d = Len(inbox') - i + Len(to_nic')
        \/ \E j \in 1..Len(to_nic') :
             to_nic'[j].cmd = cmd /\ d = Len(to_nic') - j
    BY DEF Behind, AfterAnswer, AfterCommand
  <1>2. CASE \E i \in 1..Len(inbox') :
               inbox'[i].cmd = cmd /\ d = Len(inbox') - i + Len(to_nic')
    <2>1. PICK i \in 1..Len(inbox') :
            inbox'[i].cmd = cmd /\ d = Len(inbox') - i + Len(to_nic')
      BY <1>2
    <2>2. ReceiveRound
      BY <2>1
    <2>3. /\ i + 1 \in 1..Len(inbox)
          /\ inbox[i + 1].cmd = cmd
          /\ d - Written(tx') = Len(inbox) - (i + 1) + Len(to_nic)
      BY <2>1, <2>2
    <2> QED
      BY <2>3, BehindIs
  <1>3. CASE \E j \in 1..Len(to_nic') :
               to_nic'[j].cmd = cmd /\ d = Len(to_nic') - j
    <2>1. PICK j \in 1..Len(to_nic') :
            to_nic'[j].cmd = cmd /\ d = Len(to_nic') - j
      BY <1>3
    <2>2. CASE j \in 1..Len(to_nic)
      <3>1. to_nic[j].cmd = cmd /\ d - Written(tx') = Len(to_nic) - j
        BY <2>1, <2>2
      <3> QED
        BY <2>2, <3>1, BehindIs
    <2>3. CASE j \notin 1..Len(to_nic)
      <3>1. Written(tx') = 1 /\ j = Len(to_nic')
        BY <2>1, <2>3
      <3> QED
        BY <2>1, <3>1
    <2> QED
      BY <2>2, <2>3
  <1> QED
    BY <1>1, <1>2, <1>3

(* The answer takes the place of its command.                              *)
LEMMA AnswerMoves ==
  ASSUME WireTypeOK, NicAnswer
  PROVE  /\ Len(inbox) \in Nat /\ Len(to_nic) \in Nat /\ Len(to_nic) > 0
         /\ to_nic[1] \in Requests
         /\ Len(to_nic') = Len(to_nic) - 1
         /\ \A j \in 1..Len(to_nic') : to_nic'[j] = to_nic[j + 1]
         /\ Len(inbox') = Len(inbox) + 1
         /\ inbox'[Len(inbox')].cmd = to_nic[1].cmd
         /\ inbox'[Len(inbox')].ch = to_nic[1].ch
         /\ \A i \in 1..Len(inbox) : inbox'[i] = inbox[i]
  <1>1. /\ to_nic \in Seq(Requests) /\ to_nic # <<>> /\ to_nic' = Tail(to_nic)
        /\ inbox \in Seq(NicAnswers)
    BY DEF NicAnswer, WireTypeOK
  <1>2. /\ Len(inbox) \in Nat /\ Len(to_nic) \in Nat /\ Len(to_nic) > 0
        /\ to_nic[1] \in Requests
        /\ Head(to_nic) = to_nic[1]
    BY <1>1
  <1>3. /\ Len(to_nic') = Len(to_nic) - 1
        /\ \A j \in 1..Len(to_nic') : to_nic'[j] = to_nic[j + 1]
    BY <1>1, TailType
  <1>4. /\ Answer(to_nic[1]) \in NicAnswers
        /\ Answer(to_nic[1]).cmd = to_nic[1].cmd
        /\ Answer(to_nic[1]).ch = to_nic[1].ch
        /\ inbox' = Append(inbox, Answer(to_nic[1]))
    BY <1>2, AnswerType DEF NicAnswer
  <1> HIDE DEF Answer
  <1>5. /\ Len(inbox') = Len(inbox) + 1
        /\ inbox'[Len(inbox) + 1] = Answer(to_nic[1])
        /\ \A i \in 1..Len(inbox) : inbox'[i] = inbox[i]
    BY <1>1, <1>4, AppendType
  <1> QED
    BY <1>2, <1>3, <1>4, <1>5

LEMMA BehindAnswer ==
  ASSUME WireTypeOK, WireTypeOK', NicAnswer, NEW cmd, NEW d \in Behind(cmd)'
  PROVE  d \in Behind(cmd)
  <1> USE AnswerMoves
  <1>1. \/ \E i \in 1..Len(inbox') :
             inbox'[i].cmd = cmd /\ d = Len(inbox') - i + Len(to_nic')
        \/ \E j \in 1..Len(to_nic') :
             to_nic'[j].cmd = cmd /\ d = Len(to_nic') - j
    BY DEF Behind, AfterAnswer, AfterCommand
  <1>2. ASSUME NEW i \in 1..Len(inbox'),
               inbox'[i].cmd = cmd, d = Len(inbox') - i + Len(to_nic')
        PROVE  d \in Behind(cmd)
    <2>1. CASE i \in 1..Len(inbox)
      <3>1. inbox[i].cmd = cmd
        BY <1>2, <2>1
      <3>2. /\ Len(inbox) \in Nat /\ Len(to_nic) \in Nat
            /\ Len(inbox') = Len(inbox) + 1
            /\ Len(to_nic') = Len(to_nic) - 1
            /\ i \in Nat
            /\ d = Len(inbox') - i + Len(to_nic')
        BY <1>2, <2>1
      <3>3. d = Len(inbox) - i + Len(to_nic)
        BY ONLY <3>2
      <3> QED
        BY <2>1, <3>1, <3>3, BehindIs
    <2>2. CASE i \notin 1..Len(inbox)
      <3>1. i = Len(inbox')
        BY <2>2
      <3>2. to_nic[1].cmd = cmd
        BY <1>2, <3>1
      <3>3. 1 \in 1..Len(to_nic) /\ d = Len(to_nic) - 1
        BY <1>2, <3>1
      <3> QED
        BY <3>2, <3>3, BehindIs
    <2> QED
      BY <2>1, <2>2
  <1>3. ASSUME NEW j \in 1..Len(to_nic'),
               to_nic'[j].cmd = cmd, d = Len(to_nic') - j
        PROVE  d \in Behind(cmd)
    <2>1. /\ j + 1 \in 1..Len(to_nic)
          /\ to_nic[j + 1].cmd = cmd
          /\ d = Len(to_nic) - (j + 1)
      BY <1>3
    <2> QED
      BY <2>1, BehindIs
  <1> QED
    BY <1>1, <1>2, <1>3

(* A loss brings what was before it one place nearer, at most.             *)
LEMMA LossMoves ==
  ASSUME WireTypeOK, LoseCommand \/ LoseAnswer
  PROVE  /\ Len(inbox) \in Nat /\ Len(to_nic) \in Nat
         /\ \/ /\ Len(to_nic) > 0
               /\ Len(to_nic') = Len(to_nic) - 1
               /\ \A j \in 1..Len(to_nic') : to_nic'[j] = to_nic[j + 1]
               /\ inbox' = inbox
            \/ /\ Len(inbox) > 0
               /\ Len(inbox') = Len(inbox) - 1
               /\ \A i \in 1..Len(inbox') : inbox'[i] = inbox[i + 1]
               /\ to_nic' = to_nic
  <1>1. CASE LoseCommand
    <2>1. to_nic \in Seq(Requests) /\ to_nic # <<>> /\ to_nic' = Tail(to_nic)
      BY <1>1 DEF LoseCommand, WireTypeOK
    <2>2. inbox' = inbox /\ Len(inbox) \in Nat
      BY <1>1 DEF LoseCommand, WireTypeOK
    <2> QED
      BY <2>1, <2>2, TailType
  <1>2. CASE LoseAnswer
    <2>1. inbox \in Seq(NicAnswers) /\ inbox # <<>> /\ inbox' = Tail(inbox)
      BY <1>2 DEF LoseAnswer, WireTypeOK
    <2>2. to_nic' = to_nic /\ Len(to_nic) \in Nat
      BY <1>2 DEF LoseAnswer, WireTypeOK
    <2> QED
      BY <2>1, <2>2, TailType
  <1> QED
    BY <1>1, <1>2

LEMMA BehindLoss ==
  ASSUME WireTypeOK, WireTypeOK', LoseCommand \/ LoseAnswer,
         NEW cmd, NEW d \in Behind(cmd)'
  PROVE  d \in Behind(cmd) \/ d + 1 \in Behind(cmd)
  <1> USE LossMoves
  <1>1. \/ \E i \in 1..Len(inbox') :
             inbox'[i].cmd = cmd /\ d = Len(inbox') - i + Len(to_nic')
        \/ \E j \in 1..Len(to_nic') :
             to_nic'[j].cmd = cmd /\ d = Len(to_nic') - j
    BY DEF Behind, AfterAnswer, AfterCommand
  <1>2. ASSUME NEW i \in 1..Len(inbox'),
               inbox'[i].cmd = cmd, d = Len(inbox') - i + Len(to_nic')
        PROVE  d \in Behind(cmd) \/ d + 1 \in Behind(cmd)
    <2>1. CASE inbox' = inbox /\ Len(to_nic') = Len(to_nic) - 1
      <3>1. /\ i \in 1..Len(inbox)
            /\ inbox[i].cmd = cmd
            /\ d + 1 = Len(inbox) - i + Len(to_nic)
        BY <1>2, <2>1
      <3> QED
        BY <3>1, BehindIs
    <2>2. CASE /\ Len(inbox') = Len(inbox) - 1
               /\ \A k \in 1..Len(inbox') : inbox'[k] = inbox[k + 1]
               /\ to_nic' = to_nic
      <3>1. /\ i + 1 \in 1..Len(inbox)
            /\ inbox[i + 1].cmd = cmd
            /\ d = Len(inbox) - (i + 1) + Len(to_nic)
        BY <1>2, <2>2
      <3> QED
        BY <3>1, BehindIs
    <2> QED
      BY <2>1, <2>2
  <1>3. ASSUME NEW j \in 1..Len(to_nic'),
               to_nic'[j].cmd = cmd, d = Len(to_nic') - j
        PROVE  d \in Behind(cmd)
    <2>1. \/ /\ j \in 1..Len(to_nic)
             /\ to_nic[j].cmd = cmd
             /\ d = Len(to_nic) - j
          \/ /\ j + 1 \in 1..Len(to_nic)
             /\ to_nic[j + 1].cmd = cmd
             /\ d = Len(to_nic) - (j + 1)
      BY <1>3
    <2> QED
      BY <2>1, BehindIs
  <1> QED
    BY <1>1, <1>2, <1>3

(* The answer a round reads is the one furthest behind.                    *)
LEMMA HeadBehind ==
  ASSUME WireTypeOK, ReceiveRound
  PROVE  /\ inbox[1] \in NicAnswers
         /\ Round(inbox[1])
         /\ Len(inbox) + Len(to_nic) - 1 \in Behind(inbox[1].cmd)
  <1>1. inbox \in Seq(NicAnswers) /\ inbox # <<>> /\ Round(Head(inbox))
    BY DEF ReceiveRound, WireTypeOK
  <1>2. /\ 1 \in 1..Len(inbox)
        /\ Head(inbox) = inbox[1]
        /\ inbox[1] \in NicAnswers
    BY <1>1
  <1>3. Len(inbox) - 1 + Len(to_nic) \in Behind(inbox[1].cmd)
    BY <1>2, BehindIs
  <1>4. Len(inbox) \in Nat /\ Len(to_nic) \in Nat
    BY DEF WireTypeOK
  <1>5. Len(inbox) - 1 + Len(to_nic) = Len(inbox) + Len(to_nic) - 1
    BY <1>4
  <1> QED
    BY <1>1, <1>2, <1>3, <1>5

-------------------------------------------------------------------------------
(* The steps, one part of the invariant after the other.                   *)
Quiet == UNCHANGED <<l2_config_state, l3l4_config_state, test_state,
                     channel_count, l3l4_channel, l3l4_waiting_response,
                     host_mac, enabled>>

LEMMA QuietWire ==
  ASSUME \/ NicAnswer \/ LoseCommand \/ LoseAnswer \/ NicWipe \/ NicSwitch
         \/ UNCHANGED systemVars
  PROVE  Quiet
  BY DEF NicAnswer, LoseCommand, LoseAnswer, NicWipe, NicSwitch, systemVars,
     vars, fsmVars, stateVars, debugVars, smVars, Quiet

(* What goes wrong is counted.                                             *)
LEMMA FaultsCounted ==
  ASSUME WireTypeOK
  PROVE  /\ faults.late \in Nat /\ faults.lost \in Nat /\ faults.wiped \in Nat
         /\ ReceiveRound \/ NicAnswer => faults' = faults
         /\ TimeoutRound =>
              /\ faults'.lost = faults.lost
              /\ faults'.wiped = faults.wiped
              /\ faults'.late = faults.late + (IF to_nic = <<>> THEN 0 ELSE 1)
         /\ LoseCommand \/ LoseAnswer =>
              /\ faults'.lost = faults.lost + 1
              /\ faults'.wiped = faults.wiped
              /\ faults'.late = faults.late
         /\ NicWipe =>
              /\ faults'.lost = faults.lost
              /\ faults'.wiped = faults.wiped + 1
              /\ faults'.late = faults.late
         /\ NicSwitch =>
              /\ faults'.lost = faults.lost
              /\ faults'.wiped = faults.wiped
              /\ faults'.late = faults.late
  BY DEF WireTypeOK, ReceiveRound, NicAnswer, TimeoutRound, LoseCommand,
     LoseAnswer, NicWipe, NicSwitch

LEMMA RoundEffects ==
  ASSUME IInv, WireTypeOK
  PROVE  /\ ReceiveRound => RoundEffect(inbox[1])
         /\ TimeoutRound => RoundEffect(NoPacket)
  BY HeadBehind, RoundOnWire DEF TimeoutRound

LEMMA LateStep ==
  ASSUME IInv, IInv', WireTypeOK, WireTypeOK', LateRoundsPerCommand,
         [SystemNext]_systemVars
  PROVE  LateRoundsPerCommand'
  <1> DEFINE n == Len(inbox) + Len(to_nic)
  <1>1. CASE ReceiveRound
    <2>1. /\ n > 0 /\ n \in Nat
          /\ Written(tx') \in {0, 1}
          /\ Len(inbox') + Len(to_nic') = n - 1 + Written(tx')
      <3>1. /\ Len(inbox) \in Nat /\ Len(to_nic) \in Nat /\ Len(inbox) > 0
            /\ Written(tx') \in {0, 1}
            /\ Len(to_nic') = Len(to_nic) + Written(tx')
            /\ Len(inbox') = Len(inbox) - 1
        BY <1>1, RoundMoves
      <3> QED
        BY ONLY <3>1
    <2>2. /\ Written(tx') = 1 => ~Awaiting /\ ~Starting /\ Awaiting'
      BY <1>1, RoundEffects DEF RoundEffect, Paces, Written
    <2>3. faults.late \in Nat /\ faults'.late = faults.late
      BY <1>1, FaultsCounted
    <2>4. /\ 3 * (n - 1) <= faults.late
          /\ ~Awaiting /\ ~Starting => 3 * (n - 1) + 2 <= faults.late
      BY <2>1, <2>3 DEF LateRoundsPerCommand, InFlight
    <2> HIDE DEF n
    <2>5. CASE Written(tx') = 1
      <3>1. Len(inbox') + Len(to_nic') = n
        BY <2>1, <2>5
      <3>2. 3 * (n - 1) <= faults'.late
        BY <2>3, <2>4
      <3> QED
        BY <2>1, <2>2, <2>5, <3>1, <3>2 DEF LateRoundsPerCommand, InFlight
    <2>6. CASE Written(tx') = 0
      <3>1. Len(inbox') + Len(to_nic') = n - 1
        BY <2>1, <2>6
      <3>2. 3 * (n - 1 - 1) + 2 <= faults'.late
        BY <2>1, <2>3, <2>4
      <3> QED
        BY <2>1, <2>3, <3>1, <3>2 DEF LateRoundsPerCommand, InFlight
    <2> QED
      BY <2>1, <2>5, <2>6
  <1>2. CASE TimeoutRound
    <2>1. /\ n \in Nat /\ n = Len(to_nic)
          /\ Written(tx') \in {0, 1}
          /\ Len(inbox') + Len(to_nic') = n + Written(tx')
      BY <1>2, RoundMoves
    <2>2. /\ Written(tx') = 1 => ~Awaiting /\ ~Starting /\ Awaiting'
          /\ Awaiting => Starting'
      BY <1>2, RoundEffects DEF RoundEffect, Paces, Written
    <2>3. /\ faults.late \in Nat
          /\ faults'.late = faults.late + (IF n = 0 THEN 0 ELSE 1)
      <3>1. n = 0 <=> to_nic = <<>>
        BY <2>1 DEF WireTypeOK
      <3> QED
        BY <1>2, <3>1, FaultsCounted
    <2>4. n > 0 =>
            /\ 3 * (n - 1) <= faults.late
            /\ ~Awaiting => 3 * (n - 1) + 1 <= faults.late
            /\ ~Awaiting /\ ~Starting => 3 * (n - 1) + 2 <= faults.late
      BY <2>1, <2>3 DEF LateRoundsPerCommand, InFlight
    <2> HIDE DEF n
    <2>5. CASE n = 0
      <3>1. Len(inbox') + Len(to_nic') = Written(tx')
        BY <2>1, <2>5
      <3> QED
        BY <2>1, <2>2, <2>3, <2>5, <3>1 DEF LateRoundsPerCommand, InFlight
    <2>6. CASE n > 0 /\ Written(tx') = 1
      <3>1. Len(inbox') + Len(to_nic') = n + 1
        BY <2>1, <2>6
      <3>2. 3 * (n + 1 - 1) <= faults'.late
        BY <2>1, <2>2, <2>3, <2>4, <2>6
      <3> QED
        BY <2>1, <2>2, <2>6, <3>1, <3>2 DEF LateRoundsPerCommand, InFlight
    <2>7. CASE n > 0 /\ Written(tx') = 0
      <3>1. Len(inbox') + Len(to_nic') = n
        BY <2>1, <2>7
      <3>2. /\ 3 * (n - 1) + 1 <= faults'.late
            /\ ~Awaiting => 3 * (n - 1) + 2 <= faults'.late
        BY <2>1, <2>3, <2>4, <2>7
      <3> QED
        BY <2>1, <2>2, <2>3, <3>1, <3>2 DEF LateRoundsPerCommand, InFlight
    <2> QED
      BY <2>1, <2>5, <2>6, <2>7
  <1>3. CASE \/ NicAnswer \/ LoseCommand \/ LoseAnswer \/ NicWipe
             \/ NicSwitch \/ UNCHANGED systemVars
    <2>1. Awaiting' = Awaiting /\ Starting' = Starting
      BY <1>3, QuietWire DEF Quiet, Awaiting, Starting
    <2>2. n \in Nat /\ Len(inbox') + Len(to_nic') \in {n, n - 1}
      <3>1. n \in Nat
        BY DEF WireTypeOK
      <3>2. CASE NicAnswer
        <4>1. /\ Len(inbox) \in Nat /\ Len(to_nic) \in Nat
              /\ Len(to_nic') = Len(to_nic) - 1
              /\ Len(inbox') = Len(inbox) + 1
          BY <3>2, AnswerMoves
        <4> QED
          BY ONLY <4>1
      <3>3. CASE LoseCommand \/ LoseAnswer
        <4>1. /\ Len(inbox) \in Nat /\ Len(to_nic) \in Nat
              /\ \/ Len(to_nic') = Len(to_nic) - 1 /\ inbox' = inbox
                 \/ Len(inbox') = Len(inbox) - 1 /\ to_nic' = to_nic
          BY <3>3, LossMoves
        <4> QED
          BY ONLY <4>1
      <3>4. CASE NicWipe \/ NicSwitch \/ UNCHANGED systemVars
        BY <3>1, <3>4 DEF NicWipe, NicSwitch, systemVars
      <3> QED
        BY <1>3, <3>1, <3>2, <3>3, <3>4
    <2>3. faults.late \in Nat /\ faults'.late = faults.late
      <3>1. CASE UNCHANGED systemVars
        BY <3>1, FaultsCounted DEF systemVars
      <3> QED
        BY <1>3, <3>1, FaultsCounted
    <2>4. n > 0 =>
            3 * (n - 1)
                + (IF Awaiting THEN 0 ELSE IF Starting THEN 1 ELSE 2)
              <= faults.late
      BY DEF LateRoundsPerCommand, InFlight
    <2> HIDE DEF n
    <2>5. CASE Len(inbox') + Len(to_nic') = n
      BY <2>1, <2>3, <2>4, <2>5 DEF LateRoundsPerCommand, InFlight
    <2>6. CASE Len(inbox') + Len(to_nic') = n - 1
      BY <2>1, <2>2, <2>3, <2>4, <2>6 DEF LateRoundsPerCommand, InFlight
    <2> QED
      BY <2>2, <2>5, <2>6
  <1> QED
    BY <1>1, <1>2, <1>3 DEF SystemNext, LoopRound


LEMMA SentType ==
  ASSUME NEW s, NEW t
  PROVE  L2Sent(s) \in Nat /\ TestSent(t) \in Nat
  BY DEF L2Sent, TestSent

(* Every step moves a command nearer by what it writes or loses, if at all.*)
LEMMA BehindStep ==
  ASSUME IInv', WireTypeOK, WireTypeOK', [SystemNext]_systemVars,
         NEW cmd, NEW d \in Behind(cmd)'
  PROVE  /\ d \in Nat /\ faults.lost \in Nat
         /\ \/ /\ ReceiveRound \/ TimeoutRound
               /\ faults'.lost = faults.lost
               /\ Written(tx') \in {0, 1}
               /\ \/ d = 0 /\ Written(tx') = 1 /\ tx'.cmd = cmd
                  \/ d - Written(tx') \in Behind(cmd)
            \/ /\ Quiet
               /\ faults'.lost = faults.lost
               /\ d \in Behind(cmd)
            \/ /\ Quiet
               /\ faults'.lost = faults.lost + 1
               /\ d \in Behind(cmd) \/ d + 1 \in Behind(cmd)
  <1>1. d \in Nat
    <2>1. Len(inbox') \in Nat /\ Len(to_nic') \in Nat
      BY DEF WireTypeOK
    <2> QED
      BY <2>1 DEF Behind, AfterAnswer, AfterCommand
  <1>2. faults.lost \in Nat
    BY FaultsCounted
  <1>3. CASE ReceiveRound \/ TimeoutRound
    <2>1. faults'.lost = faults.lost
      BY <1>3, FaultsCounted
    <2>2. Written(tx') \in {0, 1}
      BY <1>3, RoundMoves
    <2>3. \/ d = 0 /\ Written(tx') = 1 /\ tx'.cmd = cmd
          \/ d - Written(tx') \in Behind(cmd)
      BY <1>3, BehindRound
    <2> QED
      BY <1>1, <1>2, <1>3, <2>1, <2>2, <2>3
  <1>4. CASE NicAnswer
    <2>1. d \in Behind(cmd)
      BY <1>4, BehindAnswer
    <2>2. faults'.lost = faults.lost
      BY <1>4, FaultsCounted
    <2>3. Quiet
      BY <1>4, QuietWire
    <2> QED
      BY <1>1, <1>2, <2>1, <2>2, <2>3
  <1>5. CASE LoseCommand \/ LoseAnswer
    <2>1. d \in Behind(cmd) \/ d + 1 \in Behind(cmd)
      BY <1>5, BehindLoss
    <2>2. faults'.lost = faults.lost + 1
      BY <1>5, FaultsCounted
    <2>3. Quiet
      BY <1>5, QuietWire
    <2> QED
      BY <1>1, <1>2, <2>1, <2>2, <2>3
  <1>6. CASE NicWipe \/ NicSwitch \/ UNCHANGED systemVars
    <2>1. inbox' = inbox /\ to_nic' = to_nic
      BY <1>6 DEF NicWipe, NicSwitch, systemVars
    <2>2. d \in Behind(cmd)
      BY <2>1 DEF Behind, AfterAnswer, AfterCommand
    <2>3. faults'.lost = faults.lost
      <3>1. UNCHANGED systemVars => faults' = faults
        BY DEF systemVars
      <3> QED
        BY <1>6, <3>1, FaultsCounted
    <2>4. Quiet
      BY <1>6, QuietWire
    <2> QED
      BY <1>1, <1>2, <2>2, <2>3, <2>4
  <1> QED
    BY <1>3, <1>4, <1>5, <1>6 DEF SystemNext, LoopRound

LEMMA CountsStep ==
  ASSUME IInv, WireTypeOK, ReceiveRound \/ TimeoutRound
  PROVE  Counts
  BY RoundEffects DEF RoundEffect

LEMMA OldFiltersStep ==
  ASSUME IInv, IInv', WireTypeOK, WireTypeOK', OldFiltersFarBehind,
         [SystemNext]_systemVars
  PROVE  OldFiltersFarBehind'
  <1>1. SUFFICES ASSUME l3l4_config_state' = L3L4_CONFIG_BEGIN,
                        NEW d \in Behind("SET_FILTER")'
                 PROVE  L2Sent(l2_config_state') + TestSent(test_state')
                          <= d + faults'.lost
    BY DEF OldFiltersFarBehind
  <1>2. l3l4_config_state = L3L4_CONFIG_BEGIN =>
          \A e \in Behind("SET_FILTER") :
            L2Sent(l2_config_state) + TestSent(test_state) <= e + faults.lost
    BY DEF OldFiltersFarBehind
  <1>3. /\ L2Sent(l2_config_state) \in Nat /\ TestSent(test_state) \in Nat
        /\ L2Sent(l2_config_state') \in Nat /\ TestSent(test_state') \in Nat
        /\ d \in Nat /\ faults.lost \in Nat
    BY SentType, BehindStep
  <1>4. CASE ReceiveRound \/ TimeoutRound
    <2>1. Counts
      BY <1>4, CountsStep
    <2>2. /\ tx'.cmd # "SET_FILTER"
          /\ \/ L2Sent(l2_config_state') + TestSent(test_state') = 0
             \/ /\ l3l4_config_state = L3L4_CONFIG_BEGIN
                /\ L2Sent(l2_config_state') + TestSent(test_state')
                     <= L2Sent(l2_config_state) + TestSent(test_state)
                          + Written(tx')
      BY <1>1, <2>1 DEF Counts
    <2>3. /\ faults'.lost = faults.lost
          /\ Written(tx') \in {0, 1}
          /\ d - Written(tx') \in Behind("SET_FILTER")
      <3>1. /\ faults'.lost = faults.lost
            /\ Written(tx') \in {0, 1}
        BY <1>4, FaultsCounted, RoundMoves
      <3> QED
        BY <1>4, <2>2, <3>1, BehindRound
    <2>4. CASE l3l4_config_state = L3L4_CONFIG_BEGIN
      <3>1. L2Sent(l2_config_state) + TestSent(test_state)
              <= d - Written(tx') + faults.lost
        BY <1>2, <2>3, <2>4
      <3> QED
        BY <1>3, <2>2, <2>3, <3>1
    <2> QED
      BY <1>3, <2>2, <2>3, <2>4
  <1>5. CASE ~(ReceiveRound \/ TimeoutRound)
    <2>1. /\ Quiet
          /\ \/ faults'.lost = faults.lost /\ d \in Behind("SET_FILTER")
             \/ /\ faults'.lost = faults.lost + 1
                /\ \/ d \in Behind("SET_FILTER")
                   \/ d + 1 \in Behind("SET_FILTER")
      BY <1>5, BehindStep
    <2>2. /\ l2_config_state' = l2_config_state
          /\ test_state' = test_state
          /\ l3l4_config_state = L3L4_CONFIG_BEGIN
      BY <1>1, <2>1 DEF Quiet
    <2> QED
      BY <1>2, <1>3, <2>1, <2>2
  <1> QED
    BY <1>4, <1>5

LEMMA OldTestsStep ==
  ASSUME IInv, IInv', WireTypeOK, WireTypeOK', OldTestsFarBehind,
         [SystemNext]_systemVars
  PROVE  OldTestsFarBehind'
  <1>1. SUFFICES ASSUME test_state' # TEST_END,
                        NEW d \in Behind("GET_LINK_STATUS")'
                 PROVE  \/ test_state' = GET_LINK_STATUS_RESPONSE /\ d = 0
                        \/ TestSent(test_state') <= d + faults'.lost
    BY DEF OldTestsFarBehind
  <1>2. test_state # TEST_END =>
          \A e \in Behind("GET_LINK_STATUS") :
            \/ test_state = GET_LINK_STATUS_RESPONSE /\ e = 0
            \/ TestSent(test_state) <= e + faults.lost
    BY DEF OldTestsFarBehind
  <1>3. /\ TestSent(test_state) \in Nat /\ TestSent(test_state') \in Nat
        /\ d \in Nat /\ faults.lost \in Nat
    BY SentType, BehindStep
  <1>4. CASE ReceiveRound \/ TimeoutRound
    <2>1. Counts
      BY <1>4, CountsStep
    <2>2. /\ tx'.cmd = "GET_LINK_STATUS" =>
               test_state' = GET_LINK_STATUS_RESPONSE
          /\ \/ TestSent(test_state') = 0
             \/ /\ test_state \notin {GET_LINK_STATUS_RESPONSE, TEST_END}
                /\ TestSent(test_state') <= TestSent(test_state) + Written(tx')
      BY <1>1, <2>1 DEF Counts
    <2>3. /\ faults'.lost = faults.lost
          /\ Written(tx') \in {0, 1}
      BY <1>4, FaultsCounted, RoundMoves
    <2>4. \/ d = 0 /\ tx'.cmd = "GET_LINK_STATUS"
          \/ d - Written(tx') \in Behind("GET_LINK_STATUS")
      BY <1>4, BehindRound
    <2>5. CASE test_state \notin {GET_LINK_STATUS_RESPONSE, TEST_END}
      <3>1. d - Written(tx') \in Behind("GET_LINK_STATUS") =>
              TestSent(test_state) <= d - Written(tx') + faults.lost
        BY <1>2, <2>5
      <3> QED
        BY <1>3, <2>2, <2>3, <2>4, <3>1
    <2> QED
      BY <1>3, <2>2, <2>3, <2>5
  <1>5. CASE ~(ReceiveRound \/ TimeoutRound)
    <2>1. /\ Quiet
          /\ \/ faults'.lost = faults.lost /\ d \in Behind("GET_LINK_STATUS")
             \/ /\ faults'.lost = faults.lost + 1
                /\ \/ d \in Behind("GET_LINK_STATUS")
                   \/ d + 1 \in Behind("GET_LINK_STATUS")
      BY <1>5, BehindStep
    <2>2. test_state' = test_state
      BY <2>1 DEF Quiet
    <2> QED
      BY <1>1, <1>2, <1>3, <2>1, <2>2
  <1> QED
    BY <1>4, <1>5

(* What went wrong stays counted.                                          *)
LEMMA FaultsGrow ==
  ASSUME WireTypeOK, [SystemNext]_systemVars
  PROVE  /\ faults.late \in Nat /\ faults.lost \in Nat /\ faults.wiped \in Nat
         /\ faults'.late \in Nat /\ faults'.lost \in Nat
         /\ faults'.wiped \in Nat
         /\ faults.late <= faults'.late
         /\ faults.lost <= faults'.lost
         /\ faults.wiped <= faults'.wiped
  <1>1. /\ faults.late \in Nat /\ faults.lost \in Nat /\ faults.wiped \in Nat
    BY FaultsCounted
  <1>2. CASE ReceiveRound \/ NicAnswer \/ UNCHANGED systemVars
    <2>1. faults' = faults
      BY <1>2, FaultsCounted DEF systemVars
    <2> QED
      BY <1>1, <2>1
  <1>3. CASE \/ TimeoutRound \/ LoseCommand \/ LoseAnswer \/ NicWipe
             \/ NicSwitch
    <2>1. /\ faults'.late \in {faults.late, faults.late + 1}
          /\ faults'.lost \in {faults.lost, faults.lost + 1}
          /\ faults'.wiped \in {faults.wiped, faults.wiped + 1}
      BY <1>3, FaultsCounted
    <2> QED
      BY <1>1, <2>1
  <1> QED
    BY <1>2, <1>3 DEF SystemNext, LoopRound

LEMMA FewFaultsBefore ==
  ASSUME WireTypeOK, [SystemNext]_systemVars, FewFaults'
  PROVE  FewFaults
  BY FaultsGrow DEF FewFaults

LEMMA NothingBehind ==
  ASSUME NEW cmd, Len(inbox') = 0, Len(to_nic') = 0
  PROVE  Behind(cmd)' = {}
  BY DEF Behind, AfterAnswer, AfterCommand

(* What acknowledges a filter is the only SET_FILTER on the wire, and the  *)
(* wire is empty then.                                                     *)
LEMMA AckEmptiesWire ==
  ASSUME IInv', WireTypeOK, OnlyOwnFilterOnWire, FewFaults, ReceiveRound,
         FilterAcked(inbox[1])
  PROVE  Len(inbox') = 0 /\ Len(to_nic') = 0
  <1>1. Len(inbox) + Len(to_nic) - 1 \in Behind("SET_FILTER")
    BY HeadBehind DEF FilterAcked
  <1>2. Len(inbox) + Len(to_nic) - 1 = 0
    BY <1>1 DEF OnlyOwnFilterOnWire, FilterAcked
  <1>3. Written(tx') = 0
    BY DEF FilterAcked, Written
  <1> QED
    BY <1>2, <1>3, RoundMoves

LEMMA FilterAfterRound ==
  ASSUME IInv, WireTypeOK, ReceiveRound \/ TimeoutRound,
         l3l4_config_state' # L3L4_CONFIG_BEGIN
  PROVE  /\ host_mac' = host_mac /\ channel_count' = channel_count
         /\ \/ FilterWritten
            \/ ReceiveRound /\ FilterAcked(inbox[1])
            \/ FiltersKept /\ ~l3l4_waiting_response
  <1>1. PICK rx : /\ RoundEffect(rx)
                  /\ \/ ReceiveRound /\ rx = inbox[1]
                     \/ TimeoutRound /\ rx = NoPacket
    BY RoundEffects
  <1>2. /\ UNCHANGED <<host_mac, channel_count>>
        /\ FilterWritten \/ FilterAcked(rx) \/ FiltersKept
    BY <1>1 DEF RoundEffect, Filters
  <1>3. rx = NoPacket => ~FilterAcked(rx)
    BY DEF FilterAcked, NoPacket
  <1>4. FiltersKept => ~l3l4_waiting_response
    BY DEF FiltersKept, IInv, L3L4BetweenTests
  <1> QED
    BY <1>1, <1>2, <1>3, <1>4

LEMMA OnlyOwnFilterStep ==
  ASSUME IInv, IInv', WireTypeOK, WireTypeOK', LateRoundsPerCommand,
         OldFiltersFarBehind, OnlyOwnFilterOnWire, [SystemNext]_systemVars
  PROVE  OnlyOwnFilterOnWire'
  <1>1. SUFFICES ASSUME l3l4_config_state' # L3L4_CONFIG_BEGIN, FewFaults',
                        NEW d \in Behind("SET_FILTER")'
                 PROVE  l3l4_waiting_response' /\ d = 0
    BY DEF OnlyOwnFilterOnWire
  <1>2. FewFaults
    BY <1>1, FewFaultsBefore
  <1>3. l3l4_config_state # L3L4_CONFIG_BEGIN =>
          \A e \in Behind("SET_FILTER") : l3l4_waiting_response /\ e = 0
    BY <1>2 DEF OnlyOwnFilterOnWire
  <1>4. d \in Nat
    BY BehindStep
  <1>5. CASE ReceiveRound \/ TimeoutRound
    <2>1. CASE FilterWritten
      <3>1. /\ tx'.cmd = "SET_FILTER" /\ tx' # NoRequest
            /\ l3l4_waiting_response'
        BY <2>1 DEF FilterWritten, Request, NoRequest
      <3>2. Written(tx') = 1
        BY <3>1 DEF Written
      <3>3. d = 0 \/ d - 1 \in Behind("SET_FILTER")
        BY <1>5, <3>2, BehindRound
      <3>4. CASE d - 1 \in Behind("SET_FILTER")
        <4>1. CASE l3l4_config_state = L3L4_CONFIG_BEGIN
          <5>1. /\ L2Sent(l2_config_state) + TestSent(test_state) = 11
                /\ L2Sent(l2_config_state) + TestSent(test_state)
                     <= d - 1 + faults.lost
            BY <2>1, <3>4, <4>1 DEF FilterWritten, OldFiltersFarBehind
          <5>2. d - 1 \in Nat /\ d <= Len(inbox) + Len(to_nic)
            <6>1. PICK e \in Behind("SET_FILTER") : e = d - 1
              BY <3>4
            <6>2. e \in Nat /\ e + 1 <= Len(inbox) + Len(to_nic)
              BY BehindType
            <6> QED
              BY <1>4, <6>1, <6>2
          <5>3. Len(inbox) \in Nat /\ Len(to_nic) \in Nat
            BY <1>5, RoundMoves
          <5>4. ~Awaiting /\ ~Starting
            BY <1>5, <3>1, RoundEffects DEF RoundEffect, Paces
          <5>5. 3 * (Len(inbox) + Len(to_nic) - 1) + 2 <= faults.late
            <6>1. Len(inbox) + Len(to_nic) > 0
              BY <1>4, <5>2, <5>3
            <6> QED
              BY <5>4, <6>1 DEF LateRoundsPerCommand, InFlight
          <5>6. faults.late + 3 * faults.lost < 35
            BY <1>2 DEF FewFaults
          <5>7. faults.late \in Nat /\ faults.lost \in Nat
            BY FaultsCounted
          <5>8. 11 <= d - 1 + faults.lost
            BY <5>1
          <5>9. FALSE
            BY ONLY <1>4, <5>2, <5>3, <5>5, <5>6, <5>7, <5>8
          <5> QED
            BY <5>9
        <4>2. CASE l3l4_config_state # L3L4_CONFIG_BEGIN
          BY <1>3, <2>1, <3>4, <4>2 DEF FilterWritten
        <4> QED
          BY <4>1, <4>2
      <3> QED
        BY <3>1, <3>3, <3>4
    <2>2. CASE ReceiveRound /\ FilterAcked(inbox[1])
      BY <1>1, <1>2, <2>2, AckEmptiesWire, NothingBehind
    <2>3. CASE FiltersKept /\ ~l3l4_waiting_response
      <3>1. d - Written(tx') \in Behind("SET_FILTER")
        BY <1>5, <2>3, BehindRound DEF FiltersKept
      <3> QED
        BY <1>3, <2>3, <3>1 DEF FiltersKept
    <2> QED
      BY <1>1, <1>5, <2>1, <2>2, <2>3, FilterAfterRound
  <1>6. CASE ~(ReceiveRound \/ TimeoutRound)
    <2>1. Quiet /\ (d \in Behind("SET_FILTER") \/ d + 1 \in Behind("SET_FILTER"))
      BY <1>6, BehindStep
    <2>2. /\ l3l4_config_state # L3L4_CONFIG_BEGIN
          /\ l3l4_waiting_response' = l3l4_waiting_response
      BY <1>1, <2>1 DEF Quiet
    <2> QED
      BY <1>3, <1>4, <2>1, <2>2
  <1> QED
    BY <1>5, <1>6

LEMMA TestEndsStep ==
  ASSUME IInv, IInv', WireTypeOK, WireTypeOK', LateRoundsPerCommand,
         OldTestsFarBehind, OnlyOwnFilterOnWire, TestEndsInSync,
         [SystemNext]_systemVars
  PROVE  TestEndsInSync'
  <1>1. SUFFICES ASSUME test_state' = TEST_END,
                        l3l4_config_state' # CONFIG_FILTERS,
                        faults'.late + 3 * faults'.lost < 12
                 PROVE  to_nic' = <<>> /\ inbox' = <<>>
    BY DEF TestEndsInSync
  <1>2. /\ faults.late + 3 * faults.lost < 12
        /\ faults.late \in Nat /\ faults.lost \in Nat
    BY <1>1, FaultsGrow
  <1>3. CASE ReceiveRound \/ TimeoutRound
    <2>1. PICK rx : /\ RoundEffect(rx)
                    /\ \/ ReceiveRound /\ rx = inbox[1]
                       \/ TimeoutRound /\ rx = NoPacket
      BY <1>3, RoundEffects
    <2>2. /\ tx' = NoRequest
          /\ \/ /\ test_state = GET_LINK_STATUS_RESPONSE
                /\ rx.cmd = "GET_LINK_STATUS"
             \/ /\ l3l4_config_state = CONFIG_FILTERS
                /\ rx.cmd = "SET_FILTER"
      BY <1>1, <2>1 DEF RoundEffect, Ends
    <2>3. ReceiveRound /\ rx = inbox[1]
      BY <2>1, <2>2 DEF NoPacket
    <2>4. /\ Len(inbox) \in Nat /\ Len(to_nic) \in Nat
          /\ Len(inbox) > 0
          /\ Len(inbox') = Len(inbox) - 1
          /\ Len(to_nic') = Len(to_nic)
      BY <2>2, <2>3, RoundMoves DEF Written
    <2>5. Len(inbox) + Len(to_nic) - 1 \in Behind(rx.cmd)
      BY <2>3, HeadBehind
    <2>6. Len(inbox) + Len(to_nic) - 1 = 0
      <3>1. CASE /\ test_state = GET_LINK_STATUS_RESPONSE
                 /\ rx.cmd = "GET_LINK_STATUS"
        <4>1. \/ Len(inbox) + Len(to_nic) - 1 = 0
              \/ 4 <= Len(inbox) + Len(to_nic) - 1 + faults.lost
          BY <2>5, <3>1 DEF OldTestsFarBehind, TestSent
        <4>2. 3 * (Len(inbox) + Len(to_nic) - 1) <= faults.late
          BY <1>2, <2>4 DEF LateRoundsPerCommand, InFlight
        <4> QED
          BY ONLY <1>2, <2>4, <4>1, <4>2
      <3>2. CASE l3l4_config_state = CONFIG_FILTERS /\ rx.cmd = "SET_FILTER"
        <4>1. FewFaults
          BY <1>2 DEF FewFaults
        <4> QED
          BY <2>5, <3>2, <4>1 DEF OnlyOwnFilterOnWire
      <3> QED
        BY <2>2, <3>1, <3>2
    <2>7. Len(inbox') = 0 /\ Len(to_nic') = 0
      BY ONLY <2>4, <2>6
    <2>8. to_nic' \in Seq(Requests) /\ inbox' \in Seq(NicAnswers)
      BY DEF WireTypeOK
    <2> QED
      BY <2>7, <2>8
  <1>4. CASE \/ NicAnswer \/ LoseCommand \/ LoseAnswer \/ NicWipe
             \/ NicSwitch \/ UNCHANGED systemVars
    <2>1. /\ test_state = TEST_END
          /\ l3l4_config_state # CONFIG_FILTERS
      BY <1>1, <1>4, QuietWire DEF Quiet
    <2>2. to_nic = <<>> /\ inbox = <<>>
      BY <1>2, <2>1 DEF TestEndsInSync
    <2> QED
      BY <1>4, <2>2 DEF NicAnswer, LoseCommand, LoseAnswer, NicWipe,
         NicSwitch, systemVars
  <1> QED
    BY <1>3, <1>4 DEF SystemNext, LoopRound

LEMMA AnswerInstalls ==
  ASSUME WireTypeOK, NicAnswer
  PROVE  nic_filter' = IF to_nic[1].cmd = "SET_FILTER"
                       THEN [nic_filter EXCEPT ![to_nic[1].ch] = to_nic[1].mac]
                       ELSE nic_filter
  <1>1. to_nic \in Seq(Requests) /\ to_nic # <<>>
    BY DEF NicAnswer, WireTypeOK
  <1>2. Head(to_nic) = to_nic[1]
    BY <1>1
  <1> QED
    BY <1>2 DEF NicAnswer

(* The last command on the wire after a round is the SET_FILTER that the   *)
(* round wrote, or there is none.                                          *)
LEMMA OwnFilterWritten ==
  ASSUME IInv, IInv', WireTypeOK, WireTypeOK', OnlyOwnFilterOnWire,
         OnlyOwnFilterOnWire', [SystemNext]_systemVars,
         ReceiveRound \/ TimeoutRound,
         l3l4_config_state' # L3L4_CONFIG_BEGIN, FewFaults',
         NEW d \in Behind("SET_FILTER")'
  PROVE  FilterWritten /\ Written(tx') = 1 /\ d = 0
  <1>1. l3l4_waiting_response' /\ d = 0
    BY DEF OnlyOwnFilterOnWire
  <1>2. FewFaults
    BY FewFaultsBefore
  <1>3. ~(ReceiveRound /\ FilterAcked(inbox[1]))
    BY <1>1 DEF FilterAcked
  <1>4. ~(FiltersKept /\ ~l3l4_waiting_response)
    BY <1>1 DEF FiltersKept
  <1>5. FilterWritten
    BY <1>3, <1>4, FilterAfterRound
  <1>6. Written(tx') = 1
    BY <1>5 DEF FilterWritten, Written, Request, NoRequest
  <1> QED
    BY <1>1, <1>5, <1>6

LEMMA OwnFilterStep ==
  ASSUME IInv, IInv', WireTypeOK, WireTypeOK', OnlyOwnFilterOnWire,
         OnlyOwnFilterOnWire', OwnFilterIsRight, [SystemNext]_systemVars
  PROVE  OwnFilterIsRight'
  <1>1. SUFFICES ASSUME l3l4_config_state' # L3L4_CONFIG_BEGIN, FewFaults'
                 PROVE  /\ \A j \in 1..Len(to_nic') :
                             to_nic'[j].cmd = "SET_FILTER" =>
                               /\ to_nic'[j].ch = l3l4_channel'
                               /\ to_nic'[j].mac = host_mac'
                        /\ faults'.wiped = 0 =>
                             \A i \in 1..Len(inbox') :
                               inbox'[i].cmd = "SET_FILTER" =>
                                 nic_filter'[l3l4_channel'] = host_mac'
    BY DEF OwnFilterIsRight
  <1>2. FewFaults
    BY <1>1, FewFaultsBefore
  <1>3. /\ Len(inbox) \in Nat /\ Len(to_nic) \in Nat
        /\ Len(inbox') \in Nat /\ Len(to_nic') \in Nat
    BY DEF WireTypeOK
  <1>4. CASE ReceiveRound \/ TimeoutRound
    <2>1. ASSUME NEW j \in 1..Len(to_nic'), to_nic'[j].cmd = "SET_FILTER"
          PROVE  /\ to_nic'[j].ch = l3l4_channel'
                 /\ to_nic'[j].mac = host_mac'
      <3>1. Len(to_nic') - j \in Behind("SET_FILTER")'
        BY <2>1 DEF Behind, AfterCommand
      <3>2. FilterWritten /\ Written(tx') = 1 /\ Len(to_nic') - j = 0
        BY <1>1, <1>4, <3>1, OwnFilterWritten
      <3>3. j = Len(to_nic')
        BY <1>3, <3>2
      <3>4. to_nic'[j] = tx'
        BY <1>4, <3>2, <3>3, RoundMoves
      <3>5. tx' = Request("SET_FILTER", l3l4_channel', host_mac)
        BY <3>2 DEF FilterWritten
      <3>6. host_mac' = host_mac
        BY <1>1, <1>4, FilterAfterRound
      <3> QED
        BY <3>4, <3>5, <3>6 DEF Request
    <2>2. ASSUME NEW i \in 1..Len(inbox'), inbox'[i].cmd = "SET_FILTER"
          PROVE  FALSE
      <3>1. Len(inbox') - i + Len(to_nic') \in Behind("SET_FILTER")'
        BY <2>2 DEF Behind, AfterAnswer
      <3>2. Written(tx') = 1 /\ Len(inbox') - i + Len(to_nic') = 0
        BY <1>1, <1>4, <3>1, OwnFilterWritten
      <3>3. Len(to_nic') > 0
        BY <1>4, <3>2, RoundMoves
      <3> QED
        BY <1>3, <3>2, <3>3
    <2> QED
      BY <2>1, <2>2
  <1>5. CASE Quiet
    <2>1. /\ l3l4_config_state # L3L4_CONFIG_BEGIN
          /\ l3l4_channel' = l3l4_channel /\ host_mac' = host_mac
      BY <1>1, <1>5 DEF Quiet
    <2>2. /\ \A j \in 1..Len(to_nic) : to_nic[j].cmd = "SET_FILTER" =>
               to_nic[j].ch = l3l4_channel /\ to_nic[j].mac = host_mac
          /\ faults.wiped = 0 =>
               \A i \in 1..Len(inbox) : inbox[i].cmd = "SET_FILTER" =>
                 nic_filter[l3l4_channel] = host_mac
      BY <1>2, <2>1 DEF OwnFilterIsRight
    <2>3. CASE NicAnswer
      <3>1. /\ \A j \in 1..Len(to_nic') :
                 j + 1 \in 1..Len(to_nic) /\ to_nic'[j] = to_nic[j + 1]
            /\ \A i \in 1..Len(inbox') :
                 \/ i \in 1..Len(inbox) /\ inbox'[i] = inbox[i]
                 \/ inbox'[i].cmd = to_nic[1].cmd
            /\ 1 \in 1..Len(to_nic)
        BY <2>3, AnswerMoves
      <3>2. nic_filter' = IF to_nic[1].cmd = "SET_FILTER"
                          THEN [nic_filter EXCEPT ![to_nic[1].ch] =
                                  to_nic[1].mac]
                          ELSE nic_filter
        BY <2>3, AnswerInstalls
      <3>3. l3l4_channel \in Channel /\ nic_filter \in [Channel -> Mac \cup {NoMac}]
        BY DEF WireTypeOK, IInv, TypeOK, StateTypeOK
      <3>4. to_nic[1].cmd = "SET_FILTER" => nic_filter'[l3l4_channel] = host_mac
        BY <2>2, <3>1, <3>2, <3>3
      <3>5. nic_filter[l3l4_channel] = host_mac =>
              nic_filter'[l3l4_channel] = host_mac
        BY <3>2, <3>4
      <3>6. faults' = faults
        BY <2>3, FaultsCounted
      <3>7. ASSUME NEW i \in 1..Len(inbox'), inbox'[i].cmd = "SET_FILTER",
                   faults.wiped = 0
            PROVE  nic_filter'[l3l4_channel] = host_mac
        BY <2>2, <3>1, <3>4, <3>5, <3>7
      <3>8. ASSUME NEW j \in 1..Len(to_nic'), to_nic'[j].cmd = "SET_FILTER"
            PROVE  /\ to_nic'[j].ch = l3l4_channel
                   /\ to_nic'[j].mac = host_mac
        BY <2>2, <3>1, <3>8
      <3> QED
        BY <2>1, <3>6, <3>7, <3>8
    <2>4. CASE LoseCommand \/ LoseAnswer
      <3>1. /\ \A j \in 1..Len(to_nic') : \E k \in 1..Len(to_nic) :
                 to_nic'[j] = to_nic[k]
            /\ \A i \in 1..Len(inbox') : \E k \in 1..Len(inbox) :
                 inbox'[i] = inbox[k]
        <4>1. CASE /\ Len(to_nic') = Len(to_nic) - 1
                   /\ \A j \in 1..Len(to_nic') : to_nic'[j] = to_nic[j + 1]
                   /\ inbox' = inbox
          <5>1. \A j \in 1..Len(to_nic') : j + 1 \in 1..Len(to_nic)
            BY <1>3, <4>1
          <5> QED
            BY <4>1, <5>1
        <4>2. CASE /\ Len(inbox') = Len(inbox) - 1
                   /\ \A i \in 1..Len(inbox') : inbox'[i] = inbox[i + 1]
                   /\ to_nic' = to_nic
          <5>1. \A i \in 1..Len(inbox') : i + 1 \in 1..Len(inbox)
            BY <1>3, <4>2
          <5> QED
            BY <4>2, <5>1
        <4> QED
          BY <2>4, <4>1, <4>2, LossMoves
      <3>2. nic_filter' = nic_filter
        BY <2>4 DEF LoseCommand, LoseAnswer, nicVars
      <3>3. faults'.wiped = faults.wiped
        BY <2>4, FaultsCounted
      <3> QED
        BY <2>1, <2>2, <3>1, <3>2, <3>3
    <2>5. CASE NicWipe
      <3>1. to_nic' = to_nic
        BY <2>5 DEF NicWipe
      <3>2. faults'.wiped # 0
        <4>1. faults.wiped \in Nat /\ faults'.wiped = faults.wiped + 1
          BY <2>5, FaultsCounted
        <4> QED
          BY ONLY <4>1
      <3> QED
        BY <2>1, <2>2, <3>1, <3>2
    <2>6. CASE NicSwitch \/ UNCHANGED systemVars
      <3>1. UNCHANGED <<to_nic, inbox, nic_filter>>
        BY <2>6 DEF NicSwitch, systemVars, nicVars
      <3>2. faults'.wiped = faults.wiped
        BY <2>6, FaultsCounted DEF systemVars
      <3> QED
        BY <2>1, <2>2, <3>1, <3>2
    <2>7. ~(ReceiveRound \/ TimeoutRound) =>
            \/ NicAnswer \/ LoseCommand \/ LoseAnswer \/ NicWipe
            \/ NicSwitch \/ UNCHANGED systemVars
      BY DEF SystemNext, LoopRound
    <2> QED
      BY <1>4, <2>3, <2>4, <2>5, <2>6, <2>7
  <1> QED
    BY <1>4, <1>5, QuietWire DEF SystemNext, LoopRound

LEMMA InstalledStep ==
  ASSUME IInv, IInv', WireTypeOK, WireTypeOK', OnlyOwnFilterOnWire,
         OwnFilterIsRight, FilterInstalledSoFar, [SystemNext]_systemVars
  PROVE  FilterInstalledSoFar'
  <1>1. SUFFICES ASSUME l3l4_config_state' # L3L4_CONFIG_BEGIN, FewFaults',
                        faults'.wiped = 0,
                        NEW c \in ReportedChannels',
                        \/ c < l3l4_channel'
                        \/ l3l4_config_state' = L3L4_CONFIG_END
                 PROVE  nic_filter'[c] = host_mac'
    BY DEF FilterInstalledSoFar
  <1>2. FewFaults /\ faults.wiped = 0
    BY <1>1, FewFaultsBefore, FaultsGrow
  <1>3. l3l4_config_state # L3L4_CONFIG_BEGIN =>
          \A e \in ReportedChannels :
            e < l3l4_channel \/ l3l4_config_state = L3L4_CONFIG_END =>
              nic_filter[e] = host_mac
    BY <1>2 DEF FilterInstalledSoFar
  <1>4. channel_count \in 0..2 /\ l3l4_channel \in 0..1
    BY DEF IInv, TypeOK, StateTypeOK
  <1>5. CASE ReceiveRound \/ TimeoutRound
    <2>1. /\ host_mac' = host_mac
          /\ c \in 0..channel_count - 1 /\ c \in ReportedChannels
          /\ nic_filter' = nic_filter
      BY <1>1, <1>5, FilterAfterRound
         DEF ReceiveRound, TimeoutRound, nicVars, ReportedChannels
    <2>2. CASE FilterWritten
      BY <1>1, <1>3, <2>1, <2>2 DEF FilterWritten
    <2>3. CASE ReceiveRound /\ FilterAcked(inbox[1])
      <3>1. nic_filter[l3l4_channel] = host_mac
        <4>1. 1 \in 1..Len(inbox)
          BY <2>3, RoundMoves
        <4> QED
          BY <1>2, <2>3, <4>1 DEF OwnFilterIsRight, FilterAcked
      <3>2. l3l4_config_state = CONFIG_FILTERS
        BY <2>3 DEF FilterAcked
      <3>3. c < l3l4_channel \/ c = l3l4_channel
        BY <1>1, <1>4, <2>1, <2>3 DEF FilterAcked
      <3> QED
        BY <1>3, <2>1, <3>1, <3>2, <3>3
    <2>4. CASE FiltersKept
      BY <1>3, <2>1, <2>4 DEF FiltersKept
    <2> QED
      BY <1>1, <1>5, <2>2, <2>3, <2>4, FilterAfterRound
  <1>6. CASE Quiet
    <2>1. /\ l3l4_config_state # L3L4_CONFIG_BEGIN
          /\ host_mac' = host_mac
          /\ c \in ReportedChannels
          /\ c < l3l4_channel \/ l3l4_config_state = L3L4_CONFIG_END
      BY <1>1, <1>6 DEF Quiet, ReportedChannels
    <2>2. nic_filter[c] = host_mac
      BY <1>3, <2>1
    <2>3. CASE NicAnswer
      <3>1. /\ 1 \in 1..Len(to_nic)
            /\ nic_filter' = IF to_nic[1].cmd = "SET_FILTER"
                             THEN [nic_filter EXCEPT ![to_nic[1].ch] =
                                     to_nic[1].mac]
                             ELSE nic_filter
        BY <2>3, AnswerMoves, AnswerInstalls
      <3>2. to_nic[1].cmd = "SET_FILTER" => to_nic[1].mac = host_mac
        BY <1>2, <2>1, <3>1 DEF OwnFilterIsRight
      <3>3. c \in Channel /\ nic_filter \in [Channel -> Mac \cup {NoMac}]
        BY <1>4, <2>1 DEF WireTypeOK, ReportedChannels
      <3> QED
        BY <2>1, <2>2, <3>1, <3>2, <3>3
    <2>4. CASE NicWipe
      <3>1. faults.wiped \in Nat /\ faults'.wiped = faults.wiped + 1
        BY <2>4, FaultsCounted
      <3> QED
        BY ONLY <1>1, <1>2, <3>1
    <2>5. CASE \/ LoseCommand \/ LoseAnswer \/ NicSwitch
               \/ UNCHANGED systemVars
      BY <2>1, <2>2, <2>5
         DEF LoseCommand, LoseAnswer, NicSwitch, systemVars, nicVars
    <2>6. ~(ReceiveRound \/ TimeoutRound) =>
            \/ NicAnswer \/ LoseCommand \/ LoseAnswer \/ NicWipe
            \/ NicSwitch \/ UNCHANGED systemVars
      BY DEF SystemNext, LoopRound
    <2> QED
      BY <1>5, <2>3, <2>4, <2>5, <2>6
  <1> QED
    BY <1>5, <1>6, QuietWire DEF SystemNext, LoopRound

LEMMA WireInvStep ==
  ASSUME IInv, IInv', WireTypeOK, WireTypeOK', WireInv,
         [SystemNext]_systemVars
  PROVE  WireInv'
  <1> USE DEF WireInv
  <1>1. LateRoundsPerCommand' /\ OldFiltersFarBehind' /\ OldTestsFarBehind'
    BY LateStep, OldFiltersStep, OldTestsStep
  <1>2. OnlyOwnFilterOnWire' /\ TestEndsInSync'
    BY OnlyOwnFilterStep, TestEndsStep
  <1>3. OwnFilterIsRight' /\ FilterInstalledSoFar'
    BY <1>2, OwnFilterStep, InstalledStep
  <1> QED
    BY <1>1, <1>2, <1>3

LEMMA WireInvInit ==
  ASSUME SystemInit
  PROVE  WireInv
  <1>1. /\ to_nic = <<>> /\ inbox = <<>>
        /\ l3l4_config_state = L3L4_CONFIG_BEGIN
        /\ test_state = TEST_PARAMS
    BY DEF SystemInit, Init
  <1>2. Len(to_nic) = 0 /\ Len(inbox) = 0
    BY <1>1
  <1>3. \A cmd : Behind(cmd) = {}
    BY <1>2 DEF Behind
  <1> QED
    BY <1>1, <1>2, <1>3 DEF WireInv, LateRoundsPerCommand, InFlight,
       OldFiltersFarBehind, OldTestsFarBehind, OnlyOwnFilterOnWire,
       OwnFilterIsRight, FilterInstalledSoFar, TestEndsInSync

-------------------------------------------------------------------------------
(* What is written during a round, as far as filters are concerned.        *)
LEMMA ToldStep ==
  ASSUME IInv, IInv', WireTypeOK, ReceiveRound \/ TimeoutRound,
         NEW c \in Channel, Told(c)'
  PROVE  /\ host_mac' = host_mac
         /\ \/ /\ Written(tx') = 1
               /\ tx' = Request("SET_FILTER", c, host_mac)
            \/ /\ Told(c)
               /\ Written(tx') = 1 => ~SetsFilter(tx', c)
  <1>1. /\ c \in ReportedChannels'
        /\ l3l4_config_state' # L3L4_CONFIG_BEGIN
    BY DEF Told
  <1>2. host_mac' = host_mac /\ channel_count' = channel_count
    BY <1>1, FilterAfterRound
  <1>3. /\ c \in ReportedChannels /\ c \in 0..channel_count - 1
        /\ channel_count \in 0..2 /\ l3l4_channel \in 0..1
    BY <1>1, <1>2 DEF ReportedChannels, IInv, TypeOK, StateTypeOK
  <1>4. CASE FilterWritten
    <2>1. Written(tx') = 1
      BY <1>4 DEF FilterWritten, Written, Request, NoRequest
    <2>2. c < l3l4_channel' \/ c = l3l4_channel'
      BY <1>4 DEF Told, FilterWritten
    <2>3. CASE c = l3l4_channel'
      BY <1>2, <1>4, <2>1, <2>3 DEF FilterWritten
    <2>4. CASE c < l3l4_channel'
      <3>1. /\ l3l4_config_state = CONFIG_FILTERS
            /\ l3l4_channel' = l3l4_channel
            /\ c # l3l4_channel'
        BY <1>3, <1>4, <2>4 DEF FilterWritten
      <3>2. Told(c)
        BY <1>3, <2>4, <3>1 DEF Told
      <3>3. ~SetsFilter(tx', c)
        BY <1>4, <3>1 DEF FilterWritten, SetsFilter, Request
      <3> QED
        BY <1>2, <3>2, <3>3
    <2> QED
      BY <2>2, <2>3, <2>4
  <1>5. CASE FilterAcked(inbox[1])
    <2>1. Written(tx') = 0
      BY <1>5 DEF FilterAcked, Written
    <2>2. c < l3l4_channel \/ c = l3l4_channel
      BY <1>3, <1>5 DEF Told, FilterAcked
    <2>3. Told(c)
      BY <1>3, <1>5, <2>2 DEF Told, FilterAcked
    <2> QED
      BY <1>2, <2>1, <2>3
  <1>6. CASE FiltersKept
    BY <1>2, <1>3, <1>6 DEF Told, FiltersKept, SetsFilter
  <1> QED
    BY <1>1, <1>4, <1>5, <1>6, FilterAfterRound

LEMMA RightFilterStep ==
  ASSUME IInv, IInv', WireTypeOK, WireTypeOK', RightFilterLast,
         [SystemNext]_systemVars
  PROVE  RightFilterLast'
  <1> DEFINE Right(c, nic, q) ==
        \/ /\ nic[c] = host_mac
           /\ \A j \in 1..Len(q) : ~SetsFilter(q[j], c)
        \/ \E j \in 1..Len(q) :
             /\ SetsFilter(q[j], c) /\ q[j].mac = host_mac
             /\ \A k \in j + 1..Len(q) : ~SetsFilter(q[k], c)
  <1>1. SUFFICES ASSUME faults'.lost = 0, faults'.wiped = 0,
                        NEW c \in Channel, Told(c)'
                 PROVE  host_mac' = host_mac /\ Right(c, nic_filter', to_nic')
    BY DEF RightFilterLast, SetsFilter
  <1>2. faults.lost = 0 /\ faults.wiped = 0
    BY <1>1, FaultsGrow
  <1>3. Told(c) => Right(c, nic_filter, to_nic)
    BY <1>2 DEF RightFilterLast
  <1>4. /\ Len(inbox) \in Nat /\ Len(to_nic) \in Nat
        /\ Len(inbox') \in Nat /\ Len(to_nic') \in Nat
    BY DEF WireTypeOK
  <1>5. CASE ReceiveRound \/ TimeoutRound
    <2>1. /\ host_mac' = host_mac
          /\ \/ /\ Written(tx') = 1
                /\ tx' = Request("SET_FILTER", c, host_mac)
             \/ /\ Told(c)
                /\ Written(tx') = 1 => ~SetsFilter(tx', c)
      BY <1>1, <1>5, ToldStep
    <2>2. nic_filter' = nic_filter
      BY <1>5 DEF ReceiveRound, TimeoutRound, nicVars
    <2>3. /\ Written(tx') \in {0, 1}
          /\ Len(to_nic') = Len(to_nic) + Written(tx')
          /\ \A j \in 1..Len(to_nic) : to_nic'[j] = to_nic[j]
          /\ Written(tx') = 1 => to_nic'[Len(to_nic')] = tx'
      BY <1>5, RoundMoves
    <2>4. CASE /\ Written(tx') = 1
               /\ tx' = Request("SET_FILTER", c, host_mac)
      <3>1. /\ Len(to_nic') \in 1..Len(to_nic')
            /\ SetsFilter(to_nic'[Len(to_nic')], c)
            /\ to_nic'[Len(to_nic')].mac = host_mac
            /\ Len(to_nic') + 1..Len(to_nic') = {}
        BY <1>4, <2>3, <2>4 DEF SetsFilter, Request
      <3> QED
        BY <2>1, <3>1
    <2>5. CASE Told(c) /\ (Written(tx') = 1 => ~SetsFilter(tx', c))
      <3>1. \A j \in 1..Len(to_nic') :
              \/ j \in 1..Len(to_nic) /\ to_nic'[j] = to_nic[j]
              \/ ~SetsFilter(to_nic'[j], c)
        BY <1>4, <2>3, <2>5
      <3>2. 1..Len(to_nic) \subseteq 1..Len(to_nic')
        BY <1>4, <2>3
      <3>3. CASE /\ nic_filter[c] = host_mac
                 /\ \A j \in 1..Len(to_nic) : ~SetsFilter(to_nic[j], c)
        BY <2>1, <2>2, <3>1, <3>3
      <3>4. ASSUME NEW j \in 1..Len(to_nic),
                   SetsFilter(to_nic[j], c), to_nic[j].mac = host_mac,
                   \A k \in j + 1..Len(to_nic) : ~SetsFilter(to_nic[k], c)
            PROVE  Right(c, nic_filter', to_nic')
        <4>1. /\ j \in 1..Len(to_nic')
              /\ SetsFilter(to_nic'[j], c) /\ to_nic'[j].mac = host_mac
          BY <2>3, <3>2, <3>4
        <4>2. ASSUME NEW k \in j + 1..Len(to_nic')
              PROVE  ~SetsFilter(to_nic'[k], c)
          <5>1. k \in 1..Len(to_nic')
            BY <1>4, <4>1
          <5>2. k \in 1..Len(to_nic) => k \in j + 1..Len(to_nic)
            BY <1>4, <4>1
          <5> QED
            BY <3>1, <3>4, <5>1, <5>2
        <4> QED
          BY <4>1, <4>2
      <3> QED
        BY <1>3, <2>1, <2>5, <3>3, <3>4
    <2> QED
      BY <2>1, <2>4, <2>5
  <1>6. CASE NicAnswer
    <2>1. Told(c) /\ host_mac' = host_mac
      BY <1>1, <1>6, QuietWire DEF Quiet, Told, ReportedChannels
    <2>2. /\ 1 \in 1..Len(to_nic) /\ to_nic[1] \in Requests
          /\ Len(to_nic') = Len(to_nic) - 1
          /\ \A j \in 1..Len(to_nic') : to_nic'[j] = to_nic[j + 1]
      BY <1>6, AnswerMoves
    <2>3. /\ SetsFilter(to_nic[1], c) => nic_filter'[c] = to_nic[1].mac
          /\ ~SetsFilter(to_nic[1], c) => nic_filter'[c] = nic_filter[c]
      <3>1. nic_filter \in [Channel -> Mac \cup {NoMac}]
        BY DEF WireTypeOK
      <3> QED
        BY <1>6, <3>1, AnswerInstalls DEF SetsFilter
    <2>4. \A j \in 1..Len(to_nic') : j + 1 \in 1..Len(to_nic)
      BY <1>4, <2>2
    <2>5. CASE /\ nic_filter[c] = host_mac
               /\ \A j \in 1..Len(to_nic) : ~SetsFilter(to_nic[j], c)
      BY <2>1, <2>2, <2>3, <2>4, <2>5
    <2>6. ASSUME NEW j \in 1..Len(to_nic),
                 SetsFilter(to_nic[j], c), to_nic[j].mac = host_mac,
                 \A k \in j + 1..Len(to_nic) : ~SetsFilter(to_nic[k], c)
          PROVE  Right(c, nic_filter', to_nic')
      <3>1. CASE j = 1
        <4>1. \A k \in 1..Len(to_nic') : ~SetsFilter(to_nic'[k], c)
          <5>1. \A k \in 1..Len(to_nic') : k + 1 \in j + 1..Len(to_nic)
            BY <1>4, <2>2, <3>1
          <5> QED
            BY <2>2, <2>6, <5>1
        <4> QED
          BY <2>3, <2>6, <3>1, <4>1
      <3>2. CASE j # 1
        <4>1. j - 1 \in 1..Len(to_nic') /\ to_nic'[j - 1] = to_nic[j]
          BY <1>4, <2>2, <3>2
        <4>2. \A k \in (j - 1) + 1..Len(to_nic') : ~SetsFilter(to_nic'[k], c)
          <5>1. \A k \in (j - 1) + 1..Len(to_nic') :
                  /\ k \in 1..Len(to_nic')
                  /\ k + 1 \in j + 1..Len(to_nic)
            BY <1>4, <2>2, <3>2
          <5> QED
            BY <2>2, <2>6, <5>1
        <4> QED
          BY <2>6, <4>1, <4>2
      <3> QED
        BY <3>1, <3>2
    <2> QED
      BY <1>3, <2>1, <2>5, <2>6
  <1>7. CASE LoseCommand \/ LoseAnswer \/ NicWipe
    <2>1. /\ faults.lost \in Nat /\ faults.wiped \in Nat
          /\ \/ faults'.lost = faults.lost + 1
             \/ faults'.wiped = faults.wiped + 1
      BY <1>7, FaultsCounted
    <2>2. FALSE
      BY ONLY <1>1, <2>1
    <2> QED
      BY <2>2
  <1>8. CASE NicSwitch \/ UNCHANGED systemVars
    <2>1. Told(c) /\ host_mac' = host_mac
      BY <1>1, <1>8, QuietWire DEF Quiet, Told, ReportedChannels
    <2>2. UNCHANGED <<to_nic, nic_filter>>
      BY <1>8 DEF NicSwitch, systemVars, nicVars
    <2> QED
      BY <1>3, <2>1, <2>2
  <1> QED
    BY <1>5, <1>6, <1>7, <1>8 DEF SystemNext, LoopRound

-------------------------------------------------------------------------------
(* A configured connection has its filters on every channel of the NIC as  *)
(* long as the NIC forgets nothing and the wire is less than eleven        *)
(* commands behind, or, if nothing is lost, has delivered what was written.*)
THEOREM ConfiguredIsInstalled ==
  ASSUME NicAnswers \subseteq RxPackets
  PROVE  SystemSpec => []ConfiguredMeansInstalled
  <1>1. SystemInit => WireInv /\ RightFilterLast
    <2>1. SystemInit => RightFilterLast
      BY DEF SystemInit, Init, RightFilterLast, Told
    <2> QED
      BY <2>1, WireInvInit
  <1>2. /\ IInv /\ WireTypeOK
        /\ (IInv /\ WireTypeOK)'
        /\ WireInv /\ RightFilterLast
        /\ [SystemNext]_systemVars
        => WireInv' /\ RightFilterLast'
    BY WireInvStep, RightFilterStep
  <1>3. IInv /\ WireTypeOK /\ WireInv /\ RightFilterLast =>
          ConfiguredMeansInstalled
    <2>1. SUFFICES ASSUME IInv, WireTypeOK, WireInv, RightFilterLast,
                          ConnectionState = "UP_AND_CONFIGURED",
                          faults.wiped = 0,
                          FewFaults \/ (faults.lost = 0 /\ to_nic = <<>>),
                          NEW c \in ReportedChannels
                   PROVE  nic_filter[c] = host_mac
      BY DEF ConfiguredMeansInstalled, FiltersInstalled, FewFaults
    <2>2. l3l4_config_state = L3L4_CONFIG_END
      BY <2>1 DEF ConnectionState
    <2>3. CASE FewFaults
      BY <2>1, <2>2, <2>3 DEF WireInv, FilterInstalledSoFar
    <2>4. CASE faults.lost = 0 /\ to_nic = <<>>
      <3>1. c \in Channel
        BY <2>1 DEF ReportedChannels, IInv, TypeOK, StateTypeOK
      <3>2. Told(c)
        BY <2>1, <2>2 DEF Told
      <3>3. 1..Len(to_nic) = {}
        BY <2>4
      <3> QED
        BY <2>1, <2>4, <3>1, <3>2, <3>3 DEF RightFilterLast
    <2> QED
      BY <2>1, <2>3, <2>4
  <1>4. SystemSpec => [](IInv /\ WireTypeOK)
    BY SystemRunsTheLoop
  <1> QED
    BY <1>1, <1>2, <1>3, <1>4, PTL DEF SystemSpec

(* A test that has ended leaves nothing on the wire unless it is four      *)
(* commands behind.                                                        *)
THEOREM TestsEndInSync ==
  ASSUME NicAnswers \subseteq RxPackets
  PROVE  SystemSpec => []TestEndsInSync
  <1>1. SystemInit => WireInv
    BY WireInvInit
  <1>2. /\ IInv /\ WireTypeOK
        /\ (IInv /\ WireTypeOK)'
        /\ WireInv
        /\ [SystemNext]_systemVars
        => WireInv'
    BY WireInvStep
  <1>3. WireInv => TestEndsInSync
    BY DEF WireInv
  <1>4. SystemSpec => [](IInv /\ WireTypeOK)
    BY SystemRunsTheLoop
  <1> QED
    BY <1>1, <1>2, <1>3, <1>4, PTL DEF SystemSpec
-------------------------------------------------------------------------------
(* The wire as one sequence, the answers before the commands.              *)
WireCmd(k) == IF k <= Len(inbox) THEN inbox[k].cmd
              ELSE to_nic[k - Len(inbox)].cmd

(* What it takes to mistake the GET_FILTER of an earlier try for one's own:*)
(* that the answer to an ECHO comes first.                                 *)
EchoBeforeSample ==
  \E i, j \in 1..InFlight :
    i < j /\ WireCmd(i) = "ECHO" /\ WireCmd(j) = "GET_FILTER"

Pace == IF Awaiting THEN 0 ELSE IF Starting THEN 1 ELSE 2

(* What is left on the wire when an ECHO is answered has cost three late   *)
(* rounds each.                                                            *)
CheckIsLate ==
  test_state = CHECK_FILTERS /\ InFlight > 0 => 3 * InFlight <= faults.late

PairIsLate == EchoBeforeSample => 4 + Pace <= faults.late

EchoIsLate ==
  test_state = ECHO_RESPONSE =>
    /\ EchoBeforeSample => 7 <= faults.late
    /\ \A j \in 3..InFlight : WireCmd(j) = "GET_FILTER" => 8 <= faults.late

OldSampleIsLate ==
  test_state = CHECK_FILTERS =>
    \A j \in 1..InFlight : WireCmd(j) = "GET_FILTER" =>
      7 <= faults.late /\ (j > 1 => 8 <= faults.late)

OnlyOwnSampleOnWire ==
  test_state = CHECK_FILTERS_RESPONSE /\ faults.late < 8 =>
    /\ \A j \in 1..Len(to_nic) :
         to_nic[j].cmd = "GET_FILTER" => to_nic[j].ch = ch_under_test
    /\ \A i \in 1..Len(inbox) :
         inbox[i].cmd = "GET_FILTER" => inbox[i].ch = ch_under_test

SampleInv ==
  /\ CheckIsLate
  /\ PairIsLate
  /\ EchoIsLate
  /\ OldSampleIsLate
  /\ OnlyOwnSampleOnWire

(* What a round does to the test, up to its GET_FILTER.                    *)
EchoWritten ==
  /\ test_state = ECHO
  /\ test_state' = ECHO_RESPONSE
  /\ tx'.cmd = "ECHO"
  /\ Pace = 2

EchoAcked(rx) ==
  /\ test_state = ECHO_RESPONSE
  /\ test_state' = CHECK_FILTERS
  /\ tx' = NoRequest
  /\ rx.cmd = "ECHO"

SampleWritten ==
  /\ test_state = CHECK_FILTERS
  /\ test_state' = CHECK_FILTERS_RESPONSE
  /\ tx' = Request("GET_FILTER", ch_under_test, NoMac)
  /\ ch_under_test' = ch_under_test
  /\ Awaiting'

OffSample ==
  /\ test_state' \notin {ECHO_RESPONSE, CHECK_FILTERS, CHECK_FILTERS_RESPONSE}
  /\ tx'.cmd # "GET_FILTER"

SampleEffect(rx) ==
  EchoWritten \/ EchoAcked(rx) \/ SampleWritten \/ OffSample

LEMMA TestSamples ==
  ASSUME IInv, NEW rx, TestRound(rx)
  PROVE  SampleEffect(rx)
  <1>1. CASE TestFailed(rx, host_mac) \/ TestEnd
    BY <1>1 DEF TestFailed, TestEnd, ClearState, SampleEffect, OffSample,
       NoRequest, Request
  <1>2. CASE TestParams \/ TestRetried(rx, host_mac)
    BY <1>2 DEF TestParams, TestRetried, SampleEffect, OffSample, NoRequest,
       Request
  <1>3. CASE TestSend
    <2>1. /\ test_state \in TestSendStates
          /\ test_state' = test_state + 1
          /\ tx' = TestRequest(test_state)
          /\ ch_under_test' = ch_under_test
      BY <1>3 DEF TestSend
    <2>2. /\ l2_config_state = L2_CONFIG_END
          /\ ~l3l4_waiting_response
      BY DEF TestRound, ConnectionState, IInv, L3L4BetweenTests
    <2>3. Pace = 2 /\ Awaiting'
      BY <2>1, <2>2 DEF Pace, Awaiting, Starting, L2ResponseStates,
         L2SendStates, TestResponseStates, TestSendStates
    <2>4. CASE test_state = ECHO
      BY <2>1, <2>3, <2>4
         DEF SampleEffect, EchoWritten, TestRequest, TestCommand, Request
    <2>5. CASE test_state = CHECK_FILTERS
      BY <2>1, <2>3, <2>5
         DEF SampleEffect, SampleWritten, TestRequest, TestCommand, Request
    <2>6. CASE test_state \in {GET_PT_STATS, GET_LINK_STATUS}
      BY <2>1, <2>6
         DEF SampleEffect, OffSample, TestRequest, TestCommand, Request
    <2> QED
      BY <2>1, <2>4, <2>5, <2>6 DEF TestSendStates
  <1>4. CASE TestPassed(rx, host_mac)
    <2>1. /\ test_state \in TestResponseStates
          /\ test_state' = test_state + 1
          /\ tx' = NoRequest
          /\ TestReplyAcked(rx) = "ACK"
      BY <1>4 DEF TestPassed, TestPasses, TestVerdict
    <2>2. rx.cmd = TestCommand(test_state - 1)
      BY <2>1, AckMatches, Zenon DEF TestReplyAcked
    <2>3. CASE test_state = ECHO_RESPONSE
      BY <2>1, <2>2, <2>3 DEF SampleEffect, EchoAcked, TestCommand
    <2>4. CASE test_state # ECHO_RESPONSE
      BY <2>1, <2>4 DEF SampleEffect, OffSample, TestResponseStates,
         TestSendStates, NoRequest, Request
    <2> QED
      BY <2>3, <2>4
  <1> QED
    BY <1>1, <1>2, <1>3, <1>4 DEF TestRound, PollTest

LEMMA RoundSamples ==
  ASSUME IInv, NEW rx, Round(rx)
  PROVE  SampleEffect(rx)
  <1>1. CASE TestRound(rx)
    BY <1>1, TestSamples
  <1>2. CASE L2Round(rx)
    <2>1. test_state = TEST_PARAMS
      BY <1>2 DEF L2Round, ConnectionState, IInv, FsmsRestartTogether
    <2>2. CASE L2Rejected(rx) \/ L2Stopped
      BY <2>2 DEF L2Rejected, L2Stopped, ClearState, SampleEffect, OffSample,
         NoRequest, Request
    <2>3. CASE L2Restart \/ L2SkipReset \/ L2Accepted(rx)
      <3>1. tx' = NoRequest /\ test_state' = test_state
        BY <2>3 DEF L2Restart, L2SkipReset, L2Accepted, L2Unchanged
      <3> QED
        BY <2>1, <3>1 DEF SampleEffect, OffSample, NoRequest, Request
    <2>4. CASE L2Send(host_mac)
      <3>1. /\ tx'.cmd = L2Command(l2_config_state)
            /\ l2_config_state \in L2SendStates
            /\ test_state' = test_state
        BY <2>4 DEF L2Send, L2Request, Request, L2Unchanged
      <3>2. tx'.cmd # "GET_FILTER"
        BY <3>1 DEF L2Command, L2SendStates
      <3> QED
        BY <2>1, <3>1, <3>2 DEF SampleEffect, OffSample
    <2> QED
      BY <1>2, <2>2, <2>3, <2>4 DEF L2Round, PollL2, PollL2Config
  <1>3. CASE L3L4Round(rx)
    <2>1. test_state = TEST_END
      BY <1>3 DEF L3L4Round
    <2>2. /\ test_state' \in {TEST_END, TEST_PARAMS}
          /\ tx' = NoRequest \/ tx' = Request("SET_FILTER", l3l4_channel', host_mac)
      BY <1>3, <2>1 DEF L3L4Round, PollL3L4Config, L3L4Send, L3L4Accepted,
         L3L4Rejected, ClearState, L3L4Unchanged
    <2> QED
      BY <2>2 DEF SampleEffect, OffSample, NoRequest, Request
  <1>4. CASE DisabledRound
    <2>1. test_state = TEST_PARAMS
      BY <1>4 DEF DisabledRound, ConnectionState, IInv, DisabledAtStart,
         FsmsRestartTogether
    <2>2. test_state' = test_state /\ tx' = NoRequest
      BY <1>4 DEF DisabledRound, stateVars
    <2> QED
      BY <2>1, <2>2 DEF SampleEffect, OffSample, NoRequest, Request
  <1> QED
    BY <1>1, <1>2, <1>3, <1>4 DEF Round

(* A round takes the first command off the wire, or none, and may add one. *)
LEMMA WireRound ==
  ASSUME WireTypeOK, IInv', ReceiveRound \/ TimeoutRound, NEW s \in {0, 1},
         ReceiveRound => s = 1, TimeoutRound => s = 0
  PROVE  /\ InFlight \in Nat /\ s <= InFlight
         /\ Written(tx') \in {0, 1}
         /\ InFlight' = InFlight - s + Written(tx')
         /\ \A k \in 1..InFlight - s : WireCmd(k)' = WireCmd(k + s)
         /\ Written(tx') = 1 => WireCmd(InFlight)' = tx'.cmd
  <1> USE DEF InFlight
  <1>1. /\ Len(inbox) \in Nat /\ Len(to_nic) \in Nat
        /\ s <= Len(inbox)
        /\ Written(tx') \in {0, 1}
        /\ Len(to_nic') = Len(to_nic) + Written(tx')
        /\ Len(inbox') = Len(inbox) - s
    BY RoundMoves
  <1>2. InFlight' = InFlight - s + Written(tx')
    BY <1>1
  <1>3. ASSUME NEW k \in 1..InFlight - s
        PROVE  WireCmd(k)' = WireCmd(k + s)
    <2>1. CASE k <= Len(inbox')
      <3>1. k \in 1..Len(inbox') /\ k + s <= Len(inbox)
        BY <1>1, <2>1
      <3>2. inbox'[k] = inbox[k + s]
        BY <3>1, RoundMoves
      <3> QED
        BY <2>1, <3>1, <3>2 DEF WireCmd
    <2>2. CASE ~(k <= Len(inbox'))
      <3>1. /\ ~(k + s <= Len(inbox))
            /\ k - Len(inbox') \in 1..Len(to_nic)
            /\ k + s - Len(inbox) = k - Len(inbox')
        BY <1>1, <2>2
      <3>2. to_nic'[k - Len(inbox')] = to_nic[k + s - Len(inbox)]
        BY <3>1, RoundMoves
      <3> QED
        BY <2>2, <3>1, <3>2 DEF WireCmd
    <2> QED
      BY <2>1, <2>2
  <1>4. ASSUME Written(tx') = 1
        PROVE  WireCmd(InFlight)' = tx'.cmd
    <2>1. /\ ~(InFlight' <= Len(inbox'))
          /\ InFlight' - Len(inbox') = Len(to_nic')
      BY <1>1, <1>4
    <2>2. to_nic'[Len(to_nic')] = tx'
      BY <1>4, RoundMoves
    <2> QED
      BY <2>1, <2>2 DEF WireCmd
  <1> QED
    BY <1>1, <1>2, <1>3, <1>4

(* The command at p is taken off the wire, or none if there is none at p.  *)
Without(p) ==
  /\ InFlight \in Nat
  /\ InFlight' = IF p <= InFlight THEN InFlight - 1 ELSE InFlight
  /\ \A k \in 1..InFlight' :
       WireCmd(k)' = WireCmd(IF k < p THEN k ELSE k + 1)

(* Any other step takes one command off the wire, wherever, or none.       *)
LEMMA WireShrinks ==
  ASSUME WireTypeOK, WireTypeOK', [SystemNext]_systemVars,
         ~(ReceiveRound \/ TimeoutRound)
  PROVE  \E p \in 1..InFlight + 1 : Without(p)
  <1> USE DEF InFlight, Without
  <1>0. /\ Len(inbox) \in Nat /\ Len(to_nic) \in Nat
        /\ Len(inbox') \in Nat /\ Len(to_nic') \in Nat
    BY DEF WireTypeOK
  <1>1. CASE NicAnswer
    <2>1. /\ Len(to_nic) > 0
          /\ Len(to_nic') = Len(to_nic) - 1
          /\ \A j \in 1..Len(to_nic') : to_nic'[j] = to_nic[j + 1]
          /\ Len(inbox') = Len(inbox) + 1
          /\ inbox'[Len(inbox')].cmd = to_nic[1].cmd
          /\ \A i \in 1..Len(inbox) : inbox'[i] = inbox[i]
      BY <1>1, AnswerMoves
    <2>2. InFlight' = InFlight
      BY <1>0, <2>1
    <2>3. ASSUME NEW k \in 1..InFlight'
          PROVE  WireCmd(k)' = WireCmd(k)
      <3>1. CASE k <= Len(inbox)
        <4>1. k \in 1..Len(inbox) /\ k <= Len(inbox')
          BY <1>0, <2>1, <3>1
        <4> QED
          BY <2>1, <3>1, <4>1 DEF WireCmd
      <3>2. CASE k = Len(inbox')
        <4>1. ~(k <= Len(inbox)) /\ k - Len(inbox) = 1
          BY <1>0, <2>1, <3>2
        <4> QED
          BY <2>1, <3>2, <4>1 DEF WireCmd
      <3>3. CASE k > Len(inbox')
        <4>1. /\ ~(k <= Len(inbox)) /\ ~(k <= Len(inbox'))
              /\ k - Len(inbox') \in 1..Len(to_nic')
              /\ k - Len(inbox') + 1 = k - Len(inbox)
          BY <1>0, <2>1, <3>3
        <4> QED
          BY <2>1, <4>1 DEF WireCmd
      <3> QED
        BY <1>0, <2>1, <3>1, <3>2, <3>3
    <2> QED
      <3>1. /\ InFlight \in Nat /\ InFlight + 1 \in 1..InFlight + 1
            /\ ~(InFlight + 1 <= InFlight)
        BY <1>0
      <3>2. \A k \in 1..InFlight' : k < InFlight + 1
        BY <1>0, <2>2
      <3> HIDE DEF InFlight
      <3> QED
        BY <2>2, <2>3, <3>1, <3>2
  <1>2. CASE LoseCommand \/ LoseAnswer
    <2>1. CASE /\ Len(to_nic) > 0
               /\ Len(to_nic') = Len(to_nic) - 1
               /\ \A j \in 1..Len(to_nic') : to_nic'[j] = to_nic[j + 1]
               /\ inbox' = inbox
      <3>1. /\ InFlight \in Nat /\ InFlight' = InFlight - 1
            /\ Len(inbox) + 1 \in 1..InFlight + 1
            /\ Len(inbox) + 1 <= InFlight
        BY <1>0, <2>1
      <3>2. ASSUME NEW k \in 1..InFlight'
            PROVE  WireCmd(k)' =
                     WireCmd(IF k < Len(inbox) + 1 THEN k ELSE k + 1)
        <4>1. CASE k <= Len(inbox)
          <5>1. k < Len(inbox) + 1
            BY <1>0, <4>1
          <5> QED
            BY <2>1, <4>1, <5>1 DEF WireCmd
        <4>2. CASE ~(k <= Len(inbox))
          <5>1. /\ ~(k < Len(inbox) + 1) /\ ~(k + 1 <= Len(inbox))
                /\ k - Len(inbox) \in 1..Len(to_nic')
                /\ k + 1 - Len(inbox) = k - Len(inbox) + 1
            BY <1>0, <2>1, <4>2
          <5>2. WireCmd(k)' = to_nic'[k - Len(inbox)].cmd
            BY <2>1, <4>2 DEF WireCmd
          <5>3. WireCmd(k + 1) = to_nic[k + 1 - Len(inbox)].cmd
            BY <5>1 DEF WireCmd
          <5>4. to_nic'[k - Len(inbox)] = to_nic[k + 1 - Len(inbox)]
            BY <2>1, <5>1
          <5> QED
            BY <5>1, <5>2, <5>3, <5>4
        <4> QED
          BY <4>1, <4>2
      <3> HIDE DEF InFlight
      <3> QED
        BY <3>1, <3>2
    <2>2. CASE /\ Len(inbox) > 0
               /\ Len(inbox') = Len(inbox) - 1
               /\ \A i \in 1..Len(inbox') : inbox'[i] = inbox[i + 1]
               /\ to_nic' = to_nic
      <3>1. /\ InFlight \in Nat /\ InFlight' = InFlight - 1
            /\ 1 \in 1..InFlight + 1
            /\ 1 <= InFlight
        BY <1>0, <2>2
      <3>2. ASSUME NEW k \in 1..InFlight'
            PROVE  ~(k < 1) /\ WireCmd(k)' = WireCmd(k + 1)
        <4>1. CASE k <= Len(inbox')
          <5>1. k \in 1..Len(inbox') /\ k + 1 <= Len(inbox)
            BY <1>0, <2>2, <4>1
          <5> QED
            BY <2>2, <4>1, <5>1 DEF WireCmd
        <4>2. CASE ~(k <= Len(inbox'))
          <5>1. /\ ~(k + 1 <= Len(inbox))
                /\ k + 1 - Len(inbox) = k - Len(inbox')
            BY <1>0, <2>2, <4>2
          <5> QED
            BY <2>2, <4>2, <5>1 DEF WireCmd
        <4> QED
          BY <4>1, <4>2
      <3> HIDE DEF InFlight
      <3> QED
        BY <3>1, <3>2
    <2> QED
      BY <1>2, <2>1, <2>2, LossMoves
  <1>3. CASE NicWipe \/ NicSwitch \/ UNCHANGED systemVars
    <2>1. inbox' = inbox /\ to_nic' = to_nic
      BY <1>3 DEF NicWipe, NicSwitch, systemVars
    <2>2. InFlight' = InFlight /\ \A k : WireCmd(k)' = WireCmd(k)
      BY <2>1 DEF WireCmd
    <2>3. /\ InFlight \in Nat /\ InFlight + 1 \in 1..InFlight + 1
          /\ ~(InFlight + 1 <= InFlight)
          /\ \A k \in 1..InFlight : k < InFlight + 1
      BY <1>0
    <2> HIDE DEF InFlight
    <2> QED
      BY <2>2, <2>3
  <1> QED
    BY <1>1, <1>2, <1>3 DEF SystemNext, LoopRound

-------------------------------------------------------------------------------
(* Each part of the invariant, over the two kinds of steps.  A sample is   *)
(* another channel's only after [ECHO, GET_FILTER, ECHO] have been on the  *)
(* wire together, and every command of them was written late.              *)
SampleHyp ==
  /\ IInv /\ IInv' /\ WireTypeOK /\ WireTypeOK'
  /\ LateRoundsPerCommand /\ LateRoundsPerCommand'
  /\ SampleInv
  /\ [SystemNext]_systemVars

(* What a round does to the wire, the counts and the test; s is the number *)
(* of answers it took.                                                     *)
SampleRound(s) ==
  /\ InFlight \in Nat /\ s <= InFlight
  /\ Written(tx') \in {0, 1}
  /\ InFlight' = InFlight - s + Written(tx')
  /\ \A k \in 1..InFlight - s : WireCmd(k)' = WireCmd(k + s)
  /\ Written(tx') = 1 => WireCmd(InFlight)' = tx'.cmd
  /\ faults.late \in Nat
  /\ faults'.late = IF s = 0 /\ InFlight > 0 THEN faults.late + 1
                    ELSE faults.late
  /\ s = 1 <=> ReceiveRound
  /\ \/ EchoWritten
     \/ EchoAcked(inbox[1]) /\ s = 1 /\ WireCmd(1) = "ECHO"
     \/ SampleWritten
     \/ OffSample
  /\ Written(tx') = 1 => Pace = 2 /\ Pace' = 0
  /\ s = 0 => Pace' <= Pace + 1
  /\ Pace \in 0..2 /\ Pace' \in 0..2

LEMMA RoundIs ==
  ASSUME SampleHyp, ReceiveRound \/ TimeoutRound
  PROVE  \E s \in {0, 1} : SampleRound(s)
  <1>1. /\ ReceiveRound => inbox # <<>> /\ Len(inbox) > 0
        /\ TimeoutRound => inbox = <<>> /\ Len(inbox) = 0
        /\ Len(inbox) \in Nat /\ Len(to_nic) \in Nat
    BY RoundMoves DEF SampleHyp, ReceiveRound, TimeoutRound
  <1>2. PICK s \in {0, 1} : s = 1 <=> ReceiveRound
    OBVIOUS
  <1>3. TimeoutRound => s = 0
    BY <1>1, <1>2
  <1>4. /\ InFlight \in Nat /\ s <= InFlight
        /\ Written(tx') \in {0, 1}
        /\ InFlight' = InFlight - s + Written(tx')
        /\ \A k \in 1..InFlight - s : WireCmd(k)' = WireCmd(k + s)
        /\ Written(tx') = 1 => WireCmd(InFlight)' = tx'.cmd
    BY <1>2, <1>3, WireRound DEF SampleHyp
  <1>5. /\ faults.late \in Nat
        /\ faults'.late = IF s = 0 /\ InFlight > 0 THEN faults.late + 1
                          ELSE faults.late
    <2>1. TimeoutRound => (to_nic = <<>> <=> InFlight = 0)
      BY <1>1 DEF InFlight, SampleHyp, WireTypeOK
    <2> QED
      BY <1>2, <1>3, <1>4, <2>1, FaultsCounted DEF SampleHyp
  <1>6. \/ EchoWritten
        \/ EchoAcked(inbox[1]) /\ s = 1 /\ WireCmd(1) = "ECHO"
        \/ SampleWritten
        \/ OffSample
    <2>1. CASE ReceiveRound
      <3>1. SampleEffect(inbox[1])
        BY <2>1, HeadBehind, RoundSamples DEF SampleHyp
      <3>2. EchoAcked(inbox[1]) => WireCmd(1) = "ECHO"
        BY <1>1, <2>1 DEF EchoAcked, WireCmd
      <3> QED
        BY <1>2, <2>1, <3>1, <3>2 DEF SampleEffect
    <2>2. CASE TimeoutRound
      <3>1. SampleEffect(NoPacket)
        BY <2>2, RoundSamples DEF SampleHyp, TimeoutRound
      <3>2. ~EchoAcked(NoPacket)
        BY DEF EchoAcked, NoPacket
      <3> QED
        BY <3>1, <3>2 DEF SampleEffect
    <2> QED
      BY <2>1, <2>2
  <1>7. /\ Written(tx') = 1 => ~Awaiting /\ ~Starting /\ Awaiting'
        /\ TimeoutRound => (Awaiting => Starting')
    BY RoundEffects DEF SampleHyp, RoundEffect, Paces, Written
  <1>8. /\ Written(tx') = 1 => Pace = 2 /\ Pace' = 0
        /\ s = 0 => Pace' <= Pace + 1
        /\ Pace \in 0..2 /\ Pace' \in 0..2
    BY <1>2, <1>7 DEF Pace
  <1> QED
    BY <1>2, <1>4, <1>5, <1>6, <1>8 DEF SampleRound

LEMMA ShrinkIs ==
  ASSUME SampleHyp, ~(ReceiveRound \/ TimeoutRound)
  PROVE  /\ UNCHANGED <<test_state, ch_under_test, flowsteering>>
         /\ Pace' = Pace
         /\ faults.late \in Nat /\ faults'.late = faults.late
         /\ \E p \in 1..InFlight + 1 : Without(p)
  <1>1. \/ NicAnswer \/ LoseCommand \/ LoseAnswer \/ NicWipe \/ NicSwitch
        \/ UNCHANGED systemVars
    BY DEF SampleHyp, SystemNext, LoopRound
  <1>2. UNCHANGED <<test_state, ch_under_test, flowsteering>>
    BY <1>1 DEF NicAnswer, LoseCommand, LoseAnswer, NicWipe, NicSwitch,
       systemVars, vars, fsmVars, stateVars, debugVars
  <1>3. Pace' = Pace
    BY <1>1, QuietWire DEF Quiet, Pace, Awaiting, Starting
  <1>4. faults.late \in Nat /\ faults'.late = faults.late
    <2>1. UNCHANGED systemVars => faults' = faults
      BY DEF systemVars
    <2> QED
      BY <1>1, <2>1, FaultsCounted DEF SampleHyp
  <1> QED
    BY <1>2, <1>3, <1>4, WireShrinks DEF SampleHyp

(* The late rounds of a full wire.                                         *)
LEMMA LateIs ==
  ASSUME SampleHyp
  PROVE  /\ InFlight > 0 => 3 * (InFlight - 1) + Pace <= faults.late
         /\ InFlight' > 0 => 3 * (InFlight' - 1) + Pace' <= faults'.late
  BY DEF SampleHyp, LateRoundsPerCommand, Pace

LEMMA CheckIsLateStep ==
  ASSUME SampleHyp
  PROVE  CheckIsLate'
  <1>1. SUFFICES ASSUME test_state' = CHECK_FILTERS, InFlight' > 0
                 PROVE  3 * InFlight' <= faults'.late
    BY DEF CheckIsLate
  <1>2. CASE ReceiveRound \/ TimeoutRound
    <2>1. PICK s \in {0, 1} : SampleRound(s)
      BY <1>2, RoundIs
    <2> USE DEF SampleRound
    <2>2. EchoAcked(inbox[1]) /\ s = 1
      BY <1>1, <2>1 DEF EchoWritten, SampleWritten, OffSample
    <2>3. Written(tx') = 0
      BY <2>2 DEF EchoAcked, Written
    <2>4. InFlight > 0 => 3 * (InFlight - 1) + Pace <= faults.late
      BY LateIs
    <2> QED
      BY <1>1, <2>1, <2>2, <2>3, <2>4
  <1>3. CASE ~(ReceiveRound \/ TimeoutRound)
    <2>1. /\ test_state' = test_state
          /\ faults.late \in Nat /\ faults'.late = faults.late
          /\ InFlight \in Nat /\ InFlight' \in {InFlight, InFlight - 1}
      BY <1>3, ShrinkIs DEF Without
    <2>2. InFlight > 0 => 3 * InFlight <= faults.late
      BY <1>1, <2>1 DEF SampleHyp, SampleInv, CheckIsLate
    <2> QED
      BY <1>1, <2>1, <2>2
  <1> QED
    BY <1>2, <1>3

(* A step other than a round brings no ECHO before a GET_FILTER.           *)
LEMMA PairShrinks ==
  ASSUME SampleHyp, ~(ReceiveRound \/ TimeoutRound), EchoBeforeSample'
  PROVE  EchoBeforeSample
  <1>1. PICK p \in 1..InFlight + 1 : Without(p)
    BY ShrinkIs
  <1> USE DEF Without
  <1>2. PICK i \in 1..InFlight', j \in 1..InFlight' :
          i < j /\ WireCmd(i)' = "ECHO" /\ WireCmd(j)' = "GET_FILTER"
    BY DEF EchoBeforeSample
  <1> DEFINE a == IF i < p THEN i ELSE i + 1
             b == IF j < p THEN j ELSE j + 1
  <1>3. a \in 1..InFlight /\ b \in 1..InFlight /\ a < b
    BY <1>1, <1>2
  <1>4. WireCmd(a) = "ECHO" /\ WireCmd(b) = "GET_FILTER"
    BY <1>1, <1>2
  <1> HIDE DEF a, b
  <1> QED
    BY <1>3, <1>4 DEF EchoBeforeSample

LEMMA PairIsLateStep ==
  ASSUME SampleHyp
  PROVE  PairIsLate'
  <1>1. SUFFICES ASSUME EchoBeforeSample'
                 PROVE  4 + Pace' <= faults'.late
    BY DEF PairIsLate
  <1>2. /\ InFlight > 0 => 3 * (InFlight - 1) + Pace <= faults.late
        /\ InFlight' > 0 => 3 * (InFlight' - 1) + Pace' <= faults'.late
    BY LateIs
  <1>3. CASE ReceiveRound \/ TimeoutRound
    <2>1. PICK s \in {0, 1} : SampleRound(s)
      BY <1>3, RoundIs
    <2> USE DEF SampleRound
    <2>2. PICK i \in 1..InFlight', j \in 1..InFlight' :
            i < j /\ WireCmd(i)' = "ECHO" /\ WireCmd(j)' = "GET_FILTER"
      BY <1>1 DEF EchoBeforeSample
    <2>3. CASE j \in 1..InFlight - s
      <3>1. /\ i \in 1..InFlight - s
            /\ WireCmd(i + s) = "ECHO" /\ WireCmd(j + s) = "GET_FILTER"
            /\ i + s \in 1..InFlight /\ j + s \in 1..InFlight
            /\ i + s < j + s
        BY <2>1, <2>2, <2>3
      <3>2. 4 + Pace <= faults.late
        BY <3>1 DEF SampleHyp, SampleInv, PairIsLate, EchoBeforeSample
      <3>3. InFlight >= 2 + s
        BY <2>1, <2>2, <2>3
      <3> QED
        BY <1>2, <2>1, <3>2, <3>3
    <2>4. CASE j \notin 1..InFlight - s
      <3>1. Written(tx') = 1 /\ j = InFlight' /\ InFlight >= 1 + s
        BY <2>1, <2>2, <2>4
      <3>2. tx'.cmd = "GET_FILTER"
        BY <2>1, <2>2, <3>1
      <3>3. test_state = CHECK_FILTERS
        BY <2>1, <3>2 DEF EchoWritten, EchoAcked, SampleWritten, OffSample,
           NoRequest, Request
      <3>4. 3 * InFlight <= faults.late
        BY <2>1, <3>1, <3>3 DEF SampleHyp, SampleInv, CheckIsLate
      <3> QED
        BY <2>1, <3>1, <3>4
    <2> QED
      BY <2>3, <2>4
  <1>4. CASE ~(ReceiveRound \/ TimeoutRound)
    <2>1. Pace' = Pace /\ faults'.late = faults.late
      BY <1>4, ShrinkIs
    <2> QED
      BY <1>1, <1>4, <2>1, PairShrinks DEF SampleHyp, SampleInv, PairIsLate
  <1> QED
    BY <1>3, <1>4

LEMMA EchoIsLateStep ==
  ASSUME SampleHyp
  PROVE  EchoIsLate'
  <1>1. SUFFICES ASSUME test_state' = ECHO_RESPONSE
                 PROVE  /\ EchoBeforeSample' => 7 <= faults'.late
                        /\ \A j \in 3..InFlight' :
                             WireCmd(j)' = "GET_FILTER" => 8 <= faults'.late
    BY DEF EchoIsLate
  <1>2. InFlight' > 0 => 3 * (InFlight' - 1) + Pace' <= faults'.late
    BY LateIs
  <1>3. CASE ReceiveRound \/ TimeoutRound
    <2>1. PICK s \in {0, 1} : SampleRound(s)
      BY <1>3, RoundIs
    <2> USE DEF SampleRound
    <2>2. tx'.cmd = "ECHO" /\ Pace = 2
      BY <1>1, <2>1 DEF EchoWritten, EchoAcked, SampleWritten, OffSample
    <2>3. Written(tx') = 1
      BY <2>2 DEF Written, NoRequest, Request
    <2>4. WireCmd(InFlight)' = "ECHO" /\ InFlight' = InFlight - s + 1
      BY <2>1, <2>2, <2>3
    <2>5. ASSUME NEW j \in 3..InFlight', WireCmd(j)' = "GET_FILTER"
          PROVE  8 <= faults'.late
      <3>1. j # InFlight'
        BY <2>4, <2>5
      <3>2. InFlight' >= 4 /\ InFlight' \in Nat
        BY <2>1, <2>4, <2>5, <3>1
      <3> QED
        BY <1>2, <2>1, <2>3, <3>2
    <2>6. ASSUME EchoBeforeSample'
          PROVE  7 <= faults'.late
      <3>1. PICK i \in 1..InFlight', j \in 1..InFlight' :
              i < j /\ WireCmd(i)' = "ECHO" /\ WireCmd(j)' = "GET_FILTER"
        BY <2>6 DEF EchoBeforeSample
      <3>2. i \in 1..InFlight - s /\ j \in 1..InFlight - s
        <4>1. j # InFlight'
          BY <2>4, <3>1
        <4> QED
          BY <2>1, <2>4, <3>1, <4>1
      <3>3. /\ WireCmd(i + s) = "ECHO" /\ WireCmd(j + s) = "GET_FILTER"
            /\ i + s \in 1..InFlight /\ j + s \in 1..InFlight
            /\ i + s < j + s
        BY <2>1, <3>1, <3>2
      <3>4. 6 <= faults.late
        BY <2>1, <2>2, <3>3
           DEF SampleHyp, SampleInv, PairIsLate, EchoBeforeSample
      <3>5. InFlight >= 2 + s
        BY <2>1, <3>1, <3>2
      <3>6. InFlight > 0 => 3 * (InFlight - 1) + Pace <= faults.late
        BY LateIs
      <3> QED
        BY <2>1, <2>2, <3>4, <3>5, <3>6
    <2> QED
      BY <2>5, <2>6
  <1>4. CASE ~(ReceiveRound \/ TimeoutRound)
    <2>1. /\ test_state' = test_state /\ faults'.late = faults.late
      BY <1>4, ShrinkIs
    <2>2. PICK p \in 1..InFlight + 1 : Without(p)
      BY <1>4, ShrinkIs
    <2> USE DEF Without
    <2>3. /\ EchoBeforeSample => 7 <= faults.late
          /\ \A j \in 3..InFlight : WireCmd(j) = "GET_FILTER" => 8 <= faults.late
      BY <1>1, <2>1 DEF SampleHyp, SampleInv, EchoIsLate
    <2>4. ASSUME NEW j \in 3..InFlight', WireCmd(j)' = "GET_FILTER"
          PROVE  8 <= faults'.late
      <3> DEFINE b == IF j < p THEN j ELSE j + 1
      <3>1. b \in 3..InFlight /\ WireCmd(b) = "GET_FILTER"
        BY <2>2, <2>4
      <3> HIDE DEF b
      <3> QED
        BY <2>1, <2>3, <3>1
    <2> QED
      BY <1>4, <2>1, <2>3, <2>4, PairShrinks
  <1> QED
    BY <1>3, <1>4

LEMMA OldSampleIsLateStep ==
  ASSUME SampleHyp
  PROVE  OldSampleIsLate'
  <1>1. SUFFICES ASSUME test_state' = CHECK_FILTERS,
                        NEW j \in 1..InFlight', WireCmd(j)' = "GET_FILTER"
                 PROVE  7 <= faults'.late /\ (j > 1 => 8 <= faults'.late)
    BY DEF OldSampleIsLate
  <1>2. CASE ReceiveRound \/ TimeoutRound
    <2>1. PICK s \in {0, 1} : SampleRound(s)
      BY <1>2, RoundIs
    <2> USE DEF SampleRound
    <2>2. EchoAcked(inbox[1]) /\ s = 1 /\ WireCmd(1) = "ECHO"
      BY <1>1, <2>1 DEF EchoWritten, SampleWritten, OffSample
    <2>3. Written(tx') = 0 /\ test_state = ECHO_RESPONSE
      BY <2>2 DEF EchoAcked, Written
    <2>4. /\ j + 1 \in 1..InFlight /\ 1 \in 1..InFlight /\ 1 < j + 1
          /\ WireCmd(j + 1) = "GET_FILTER"
          /\ j > 1 => j + 1 \in 3..InFlight
          /\ faults'.late = faults.late
      BY <1>1, <2>1, <2>2, <2>3
    <2>5. EchoBeforeSample
      BY <2>2, <2>4 DEF EchoBeforeSample
    <2> QED
      BY <2>3, <2>4, <2>5 DEF SampleHyp, SampleInv, EchoIsLate
  <1>3. CASE ~(ReceiveRound \/ TimeoutRound)
    <2>1. /\ test_state' = test_state /\ faults'.late = faults.late
      BY <1>3, ShrinkIs
    <2>2. PICK p \in 1..InFlight + 1 : Without(p)
      BY <1>3, ShrinkIs
    <2> USE DEF Without
    <2> DEFINE b == IF j < p THEN j ELSE j + 1
    <2>3. /\ b \in 1..InFlight /\ WireCmd(b) = "GET_FILTER"
          /\ j > 1 => b > 1
      BY <1>1, <2>2
    <2> HIDE DEF b
    <2> QED
      BY <1>1, <2>1, <2>3 DEF SampleHyp, SampleInv, OldSampleIsLate
  <1> QED
    BY <1>2, <1>3

(* Once a GET_FILTER is written, none of another channel is there unless   *)
(* eight rounds were late.                                                 *)
LEMMA OnlyOwnSampleStep ==
  ASSUME SampleHyp
  PROVE  OnlyOwnSampleOnWire'
  <1>1. SUFFICES ASSUME test_state' = CHECK_FILTERS_RESPONSE,
                        faults'.late < 8
                 PROVE  /\ \A j \in 1..Len(to_nic') :
                             to_nic'[j].cmd = "GET_FILTER" =>
                               to_nic'[j].ch = ch_under_test'
                        /\ \A i \in 1..Len(inbox') :
                             inbox'[i].cmd = "GET_FILTER" =>
                               inbox'[i].ch = ch_under_test'
    BY DEF OnlyOwnSampleOnWire
  <1>2. /\ Len(inbox) \in Nat /\ Len(to_nic) \in Nat
        /\ Len(inbox') \in Nat /\ Len(to_nic') \in Nat
    BY DEF SampleHyp, WireTypeOK
  <1>3. CASE ReceiveRound \/ TimeoutRound
    <2>1. PICK s \in {0, 1} : SampleRound(s)
      BY <1>3, RoundIs
    <2> USE DEF SampleRound
    <2>2. /\ test_state = CHECK_FILTERS
          /\ tx' = Request("GET_FILTER", ch_under_test, NoMac)
          /\ ch_under_test' = ch_under_test
      BY <1>1, <2>1 DEF EchoWritten, EchoAcked, SampleWritten, OffSample
    <2>3. /\ Written(tx') = 1 /\ tx'.ch = ch_under_test'
          /\ Len(inbox') + Len(to_nic') = InFlight - s + 1
      <3>1. Written(tx') = 1 /\ tx'.ch = ch_under_test'
        BY <2>2 DEF Written, NoRequest, Request
      <3>2. InFlight' = Len(inbox') + Len(to_nic')
        BY DEF InFlight
      <3> QED
        BY <2>1, <3>1, <3>2
    <2>4. ASSUME NEW k \in 1..InFlight - s
          PROVE  WireCmd(k)' # "GET_FILTER"
      <3>1. SUFFICES ASSUME WireCmd(k)' = "GET_FILTER"
                     PROVE  FALSE
        OBVIOUS
      <3>2. k + s \in 1..InFlight /\ WireCmd(k + s) = "GET_FILTER"
        BY <2>1, <3>1
      <3>3. 7 <= faults.late /\ (k + s > 1 => 8 <= faults.late)
        BY <2>2, <3>2 DEF SampleHyp, SampleInv, OldSampleIsLate
      <3>4. /\ s = 0 => faults'.late = faults.late + 1
            /\ s = 1 => faults'.late = faults.late /\ k + s > 1
        <4>1. InFlight > 0 /\ s \in {0, 1} /\ k \in Nat /\ k > 0
          BY <2>1
        <4> QED
          BY <2>1, <4>1
      <3>5. faults.late \in Nat /\ faults'.late < 8 /\ s \in {0, 1}
        BY <1>1, <2>1
      <3> QED
        BY ONLY <3>3, <3>4, <3>5
    <2>5. ASSUME NEW i \in 1..Len(inbox')
          PROVE  inbox'[i].cmd # "GET_FILTER"
      <3>1. i \in 1..InFlight - s
        <4>1. Len(to_nic') >= 1
          BY <1>2, <1>3, <2>3, RoundMoves DEF SampleHyp
        <4> QED
          BY <1>2, <2>1, <2>3, <4>1
      <3>2. WireCmd(i)' = inbox'[i].cmd
        BY <2>5 DEF WireCmd
      <3> QED
        BY <2>4, <3>1, <3>2
    <2>6. ASSUME NEW j \in 1..Len(to_nic'), to_nic'[j].cmd = "GET_FILTER"
          PROVE  to_nic'[j].ch = ch_under_test'
      <3>1. CASE j = Len(to_nic')
        <4>1. to_nic'[Len(to_nic')] = tx'
          BY <1>3, <2>3, RoundMoves DEF SampleHyp
        <4> QED
          BY <2>3, <3>1, <4>1
      <3>2. CASE j # Len(to_nic')
        <4>1. PICK k \in 1..InFlight - s :
                ~(k <= Len(inbox')) /\ k - Len(inbox') = j
          <5>1. /\ Len(inbox') + j \in 1..InFlight - s
                /\ ~(Len(inbox') + j <= Len(inbox'))
                /\ Len(inbox') + j - Len(inbox') = j
            BY <1>2, <2>1, <2>3, <3>2
          <5> QED
            BY <5>1
        <4>2. WireCmd(k)' = to_nic'[j].cmd
          BY <4>1 DEF WireCmd
        <4> QED
          BY <2>4, <2>6, <4>1, <4>2
      <3> QED
        BY <3>1, <3>2
    <2> QED
      BY <2>5, <2>6
  <1>4. CASE ~(ReceiveRound \/ TimeoutRound)
    <2>1. /\ test_state' = test_state /\ ch_under_test' = ch_under_test
          /\ faults'.late = faults.late
      BY <1>4, ShrinkIs
    <2>2. /\ \A j \in 1..Len(to_nic) :
               to_nic[j].cmd = "GET_FILTER" => to_nic[j].ch = ch_under_test
          /\ \A i \in 1..Len(inbox) :
               inbox[i].cmd = "GET_FILTER" => inbox[i].ch = ch_under_test
      BY <1>1, <2>1 DEF SampleHyp, SampleInv, OnlyOwnSampleOnWire
    <2>3. CASE NicAnswer
      <3>1. /\ Len(to_nic) > 0
            /\ Len(to_nic') = Len(to_nic) - 1
            /\ \A j \in 1..Len(to_nic') : to_nic'[j] = to_nic[j + 1]
            /\ Len(inbox') = Len(inbox) + 1
            /\ \A i \in 1..Len(inbox) : inbox'[i] = inbox[i]
            /\ inbox'[Len(inbox')].cmd = to_nic[1].cmd
            /\ inbox'[Len(inbox')].ch = to_nic[1].ch
        BY <2>3, AnswerMoves DEF SampleHyp
      <3>2. ASSUME NEW j \in 1..Len(to_nic'), to_nic'[j].cmd = "GET_FILTER"
            PROVE  to_nic'[j].ch = ch_under_test'
        <4>1. j + 1 \in 1..Len(to_nic) /\ to_nic'[j] = to_nic[j + 1]
          BY <1>2, <3>1
        <4> QED
          BY <2>1, <2>2, <3>2, <4>1
      <3>3. ASSUME NEW i \in 1..Len(inbox'), inbox'[i].cmd = "GET_FILTER"
            PROVE  inbox'[i].ch = ch_under_test'
        <4>1. CASE i = Len(inbox')
          <5>1. 1 \in 1..Len(to_nic)
            BY <1>2, <3>1
          <5> QED
            BY <2>1, <2>2, <3>1, <3>3, <4>1, <5>1
        <4>2. CASE i # Len(inbox')
          <5>1. i \in 1..Len(inbox) /\ inbox'[i] = inbox[i]
            BY <1>2, <3>1, <4>2
          <5> QED
            BY <2>1, <2>2, <3>3, <5>1
        <4> QED
          BY <4>1, <4>2
      <3> QED
        BY <3>2, <3>3
    <2>4. CASE LoseCommand \/ LoseAnswer
      <3>1. \A j \in 1..Len(to_nic') : \E k \in 1..Len(to_nic) :
              to_nic'[j] = to_nic[k]
        <4>1. \/ to_nic' = to_nic
              \/ /\ Len(to_nic') = Len(to_nic) - 1
                 /\ \A j \in 1..Len(to_nic') : to_nic'[j] = to_nic[j + 1]
          BY <2>4, LossMoves DEF SampleHyp
        <4>2. Len(to_nic') = Len(to_nic) - 1 =>
                \A j \in 1..Len(to_nic') : j + 1 \in 1..Len(to_nic)
          BY <1>2
        <4> QED
          BY <4>1, <4>2
      <3>2. \A i \in 1..Len(inbox') : \E k \in 1..Len(inbox) :
              inbox'[i] = inbox[k]
        <4>1. \/ inbox' = inbox
              \/ /\ Len(inbox') = Len(inbox) - 1
                 /\ \A i \in 1..Len(inbox') : inbox'[i] = inbox[i + 1]
          BY <2>4, LossMoves DEF SampleHyp
        <4>2. Len(inbox') = Len(inbox) - 1 =>
                \A i \in 1..Len(inbox') : i + 1 \in 1..Len(inbox)
          BY <1>2
        <4> QED
          BY <4>1, <4>2
      <3> QED
        BY <2>1, <2>2, <3>1, <3>2
    <2>5. CASE NicWipe \/ NicSwitch \/ UNCHANGED systemVars
      BY <2>1, <2>2, <2>5 DEF NicWipe, NicSwitch, systemVars
    <2> QED
      BY <1>4, <2>3, <2>4, <2>5 DEF SampleHyp, SystemNext, LoopRound
  <1> QED
    BY <1>3, <1>4

(* A sample is what a GET_FILTER is answered while one is awaited.         *)
LEMMA SampleIsAnswer ==
  ASSUME IInv, NEW rx, Round(rx),
         flowsteering' # flowsteering, l2_config_state' = L2_CONFIG_END
  PROVE  /\ test_state = CHECK_FILTERS_RESPONSE
         /\ rx.cmd = "GET_FILTER"
  <1>1. ~ClearState
    BY DEF ClearState
  <1>2. TestRound(rx)
    <2>1. ~L2Round(rx)
      BY <1>1 DEF L2Round, PollL2, PollL2Config, L2Restart, L2Send,
         L2SkipReset, L2Accepted, L2Rejected, L2Stopped, L2Unchanged
    <2>2. ~L3L4Round(rx)
      BY <1>1 DEF L3L4Round, PollL3L4Config, L3L4Send, L3L4Accepted,
         L3L4Rejected, L3L4Unchanged
    <2>3. ~DisabledRound
      BY DEF DisabledRound, stateVars
    <2> QED
      BY <2>1, <2>2, <2>3 DEF Round
  <1>3. flowsteering' = Sampled(rx)
    BY <1>1, <1>2 DEF TestRound, PollTest, TestParams, TestSend, TestPassed,
       TestRetried, TestFailed, TestEnd
  <1>4. test_state = CHECK_FILTERS_RESPONSE /\ TestReplyAcked(rx) = "ACK"
    BY <1>3 DEF Sampled
  <1>5. rx.cmd = TestCommand(test_state - 1)
    BY <1>4, AckMatches, Zenon DEF TestReplyAcked
  <1> QED
    BY <1>4, <1>5 DEF TestCommand

LEMMA SampledStep ==
  ASSUME SampleHyp, flowsteering' # flowsteering,
         l2_config_state' = L2_CONFIG_END, faults.late < 8
  PROVE  Head(inbox).ch = ch_under_test
  <1>1. ReceiveRound \/ TimeoutRound
    BY ShrinkIs
  <1>2. ~TimeoutRound
    <2>1. SUFFICES ASSUME TimeoutRound
                   PROVE  FALSE
      OBVIOUS
    <2>2. Round(NoPacket)
      BY <2>1 DEF TimeoutRound
    <2>3. NoPacket.cmd = "GET_FILTER"
      BY <2>2, SampleIsAnswer DEF SampleHyp
    <2> QED
      BY <2>3 DEF NoPacket
  <1>3. /\ 1 \in 1..Len(inbox) /\ Round(inbox[1]) /\ Head(inbox) = inbox[1]
    BY <1>1, <1>2, HeadBehind, RoundMoves DEF SampleHyp, WireTypeOK
  <1>4. test_state = CHECK_FILTERS_RESPONSE /\ inbox[1].cmd = "GET_FILTER"
    BY <1>3, SampleIsAnswer DEF SampleHyp
  <1> QED
    BY <1>3, <1>4 DEF SampleHyp, SampleInv, OnlyOwnSampleOnWire

LEMMA SampleInvStep ==
  ASSUME SampleHyp
  PROVE  SampleInv'
  BY CheckIsLateStep, PairIsLateStep, EchoIsLateStep, OldSampleIsLateStep,
     OnlyOwnSampleStep DEF SampleInv

LEMMA SampleInvInit ==
  ASSUME SystemInit
  PROVE  SampleInv
  <1>1. InFlight = 0 /\ test_state = TEST_PARAMS
    BY DEF SystemInit, Init, InFlight
  <1>2. ~EchoBeforeSample
    BY <1>1 DEF EchoBeforeSample
  <1> QED
    BY <1>1, <1>2 DEF SampleInv, CheckIsLate, PairIsLate, EchoIsLate,
       OldSampleIsLate, OnlyOwnSampleOnWire

(* The filter sample of one channel is recorded for the other only after   *)
(* eight late rounds, however many commands and answers are lost.          *)
THEOREM SamplesAreOwn ==
  ASSUME NicAnswers \subseteq RxPackets
  PROVE  SystemSpec => SampledInSync
  <1>1. SystemInit => WireInv /\ SampleInv
    BY WireInvInit, SampleInvInit
  <1>2. /\ IInv /\ WireTypeOK
        /\ (IInv /\ WireTypeOK)'
        /\ WireInv /\ SampleInv
        /\ [SystemNext]_systemVars
        => WireInv' /\ SampleHyp
    BY WireInvStep DEF WireInv, SampleHyp
  <1>3. SampleHyp => SampleInv'
    BY SampleInvStep
  <1>4. SampleHyp =>
          [/\ flowsteering' # flowsteering
           /\ l2_config_state' = L2_CONFIG_END
           /\ faults.late < 8
           => Head(inbox).ch = ch_under_test]_systemVars
    BY SampledStep
  <1>5. SystemSpec => [](IInv /\ WireTypeOK)
    BY SystemRunsTheLoop
  <1> QED
    BY <1>1, <1>2, <1>3, <1>4, <1>5, PTL DEF SystemSpec, SampledInSync
===============================================================================
