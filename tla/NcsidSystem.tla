----------------------------- MODULE NcsidSystem ------------------------------
(***************************************************************************)
(* ncsid talking to a NIC: the state machine loop, the wire in both        *)
(* directions and the NIC that answers.  The NIC answers one command at a  *)
(* time and in order, but a round of the loop may time out before the      *)
(* answer is there, commands and answers may be lost, and the NIC may lose *)
(* its filters or change between hostless and hostful mode at any time.    *)
(***************************************************************************)
EXTENDS NcsiStateMachine, Sequences

CONSTANTS NicChannels,   \* how many channels the NIC may have
          NicMac,        \* the host MAC address the NIC reports
          \* bounds on what goes wrong in a behaviour
          MaxLate,       \* rounds that time out although an answer is due
          MaxLost,       \* commands and answers lost on the wire
          MaxWipes,      \* times the NIC forgets the filter of a channel
          MaxSwitches    \* times the NIC changes its mode

ASSUME NicAssumption == NicChannels \subseteq {1, 2} /\ NicMac \in Mac
ASSUME BoundsAssumption ==
  /\ MaxLate \in Nat
  /\ MaxLost \in Nat
  /\ MaxWipes \in Nat
  /\ MaxSwitches \in Nat

VARIABLES
  to_nic,        \* commands written and not yet answered
  inbox,         \* answers waiting in the socket
  nic_channels,  \* how many channels the NIC has
  nic_filter,    \* the filter installed on each channel
  nic_hostless,  \* the mode of the NIC
  faults         \* what went wrong so far, for the bounds

nicVars == <<nic_channels, nic_filter, nic_hostless>>
systemVars == <<vars, to_nic, inbox, nicVars, faults>>

(* The daemon may have been restarted: the NIC may still hold the filters it*)
(* installed in an earlier life.                                            *)
SystemInit ==
  /\ Init
  /\ to_nic = <<>>
  /\ inbox = <<>>
  /\ nic_channels \in NicChannels
  /\ nic_filter \in [Channel -> {NoMac, NicMac}]
  /\ nic_hostless \in BOOLEAN
  /\ faults = [late |-> 0, lost |-> 0, wiped |-> 0, switched |-> 0]

-------------------------------------------------------------------------------
(* The round of the loop: receive_ncsi() takes the first answer or times   *)
(* out, and the command the poll left in the buffer is written.            *)
WriteCommand ==
  to_nic' = IF tx' = NoRequest THEN to_nic ELSE Append(to_nic, tx')

ReceiveRound ==
  /\ inbox # <<>>
  /\ Round(Head(inbox))
  /\ inbox' = Tail(inbox)
  /\ WriteCommand
  /\ UNCHANGED <<nicVars, faults>>

TimeoutRound ==
  /\ inbox = <<>>
  /\ to_nic # <<>> => faults.late < MaxLate
  /\ Round(NoPacket)
  /\ faults' = IF to_nic = <<>> THEN faults
               ELSE [faults EXCEPT !.late = @ + 1]
  /\ WriteCommand
  /\ UNCHANGED <<inbox, nicVars>>

LoopRound == ReceiveRound \/ TimeoutRound

-------------------------------------------------------------------------------
(* The NIC (external; as the unit tests' NIC mock answers).  In hostless   *)
(* mode GET_FILTER returns zeros.                                          *)
Answer(req) ==
  [type  |-> "response",
   cmd   |-> req.cmd,
   ch    |-> req.ch,
   count |-> nic_channels,
   flag  |-> CASE req.cmd = "GET_FILTER" -> nic_hostless
               [] req.cmd \in {"ECHO", "GET_LINK_STATUS"} -> TRUE
               [] OTHER -> FALSE,
   mac   |-> CASE req.cmd = "GET_HOST_MAC" -> NicMac
               [] req.cmd = "GET_FILTER" /\ ~nic_hostless -> nic_filter[req.ch]
               [] OTHER -> NoMac,
   fault |-> "none"]

NicAnswer ==
  /\ to_nic # <<>>
  /\ inbox' = Append(inbox, Answer(Head(to_nic)))
  /\ nic_filter' = IF Head(to_nic).cmd = "SET_FILTER"
                   THEN [nic_filter EXCEPT ![Head(to_nic).ch] =
                           Head(to_nic).mac]
                   ELSE nic_filter
  /\ to_nic' = Tail(to_nic)
  /\ UNCHANGED <<vars, nic_channels, nic_hostless, faults>>

LoseCommand ==
  /\ to_nic # <<>>
  /\ faults.lost < MaxLost
  /\ to_nic' = Tail(to_nic)
  /\ faults' = [faults EXCEPT !.lost = @ + 1]
  /\ UNCHANGED <<vars, inbox, nicVars>>

LoseAnswer ==
  /\ inbox # <<>>
  /\ faults.lost < MaxLost
  /\ inbox' = Tail(inbox)
  /\ faults' = [faults EXCEPT !.lost = @ + 1]
  /\ UNCHANGED <<vars, to_nic, nicVars>>

NicWipe ==
  /\ faults.wiped < MaxWipes
  /\ \E c \in 0..nic_channels - 1 : nic_filter' = [nic_filter EXCEPT ![c] = NoMac]
  /\ faults' = [faults EXCEPT !.wiped = @ + 1]
  /\ UNCHANGED <<vars, to_nic, inbox, nic_channels, nic_hostless>>

NicSwitch ==
  /\ faults.switched < MaxSwitches
  /\ nic_hostless' = ~nic_hostless
  /\ faults' = [faults EXCEPT !.switched = @ + 1]
  /\ UNCHANGED <<vars, to_nic, inbox, nic_channels, nic_filter>>

SystemNext == \/ LoopRound
              \/ NicAnswer
              \/ LoseCommand
              \/ LoseAnswer
              \/ NicWipe
              \/ NicSwitch

SystemSpec == SystemInit /\ [][SystemNext]_systemVars

(* The loop never stops and the NIC keeps answering; that faults cease is  *)
(* said by their bounds.                                                   *)
FairSystemSpec ==
  SystemSpec /\ WF_systemVars(LoopRound) /\ WF_systemVars(NicAnswer)
-------------------------------------------------------------------------------
FiltersInstalled ==
  \A c \in ReportedChannels : nic_filter[c] = host_mac

(* As long as the NIC forgets nothing, a configured connection has its     *)
(* filter, with the BMC's address, on every channel of the NIC: no late    *)
(* acknowledgement is taken for another.  Nothing that is validated tells  *)
(* an answer from the answer to an earlier command of the same kind, and   *)
(* only the eleven commands between two SET_FILTERs of a channel keep them *)
(* apart: it takes at least 35 late rounds to have as many on the wire, or *)
(* three less for every loss.  Beyond that a stale acknowledgement can be  *)
(* believed, but without losses the filters are right once the NIC has     *)
(* done what it was told.                                                  *)
ConfiguredMeansInstalled ==
  /\ ConnectionState = "UP_AND_CONFIGURED"
  /\ faults.wiped = 0
  /\ \/ faults.late + 3 * faults.lost < 35
     \/ faults.lost = 0 /\ to_nic = <<>>
  => FiltersInstalled

(* An answer is recorded only for the channel it came from, although       *)
(* neither channel nor instance id is validated and retries change the     *)
(* channel under test.                                                     *)
SampleFromRightChannel ==
  [][flowsteering' # flowsteering /\ l2_config_state' = L2_CONFIG_END =>
       Head(inbox).ch = ch_under_test]_systemVars

(* That happens only after eight late rounds, however much is lost: an     *)
(* earlier try must have left an ECHO and its GET_FILTER on the wire, the  *)
(* ECHO to be taken for that of this try.                                  *)
SampledInSync ==
  [][/\ flowsteering' # flowsteering
     /\ l2_config_state' = L2_CONFIG_END
     /\ faults.late < 8
     => Head(inbox).ch = ch_under_test]_systemVars

(* A finished test leaves no answer behind that a later command could be   *)
(* confused by: it takes at least twelve late rounds, or three less for    *)
(* every loss, to leave the answers to a whole test behind, of which the   *)
(* next test takes one after the other for its own.                        *)
TestEndsInSync ==
  /\ test_state = TEST_END
  /\ l3l4_config_state # CONFIG_FILTERS
  /\ faults.late + 3 * faults.lost < 12
  => to_nic = <<>> /\ inbox = <<>>

(* The BMC is never told that the NIC is hostless while it serves a host   *)
(* and always did.                                                         *)
HostlessOnlyIfSo == hostless = "hostless" /\ faults.switched = 0 => nic_hostless

(* Once the NIC settles in hostful mode, the connection ends up configured *)
(* with the filters installed, and stays so: lost commands, late answers   *)
(* and mode changes are recovered from, and so is a wiped filter of a NIC  *)
(* with one channel (with two, see WipedFilterRestored).                   *)
EventuallyConfigured ==
  <>[]~nic_hostless /\ (nic_channels = 2 => [](faults.wiped = 0)) =>
    <>[](ConnectionState = "UP_AND_CONFIGURED" /\ FiltersInstalled)

(* ncsi_fsm.h, ncsid_internals.md: the test makes sure that the filters have*)
(* not been wiped out, and reconfigures the NIC if it ever fails.  So a     *)
(* filter a configured NIC has lost is installed again.                     *)
WipedFilterRestored ==
  ConnectionState = "UP_AND_CONFIGURED" /\ ~nic_hostless /\ ~FiltersInstalled
    ~> FiltersInstalled

(* The mode reported to the BMC ends up the mode the NIC settles in.       *)
EventuallyReported ==
  /\ <>[]nic_hostless => <>[](hostless = "hostless")
  /\ <>[]~nic_hostless => <>[](hostless = "hostful")
===============================================================================
