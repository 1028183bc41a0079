--------------------------- MODULE BmcPrograms_proofs ---------------------------
(***************************************************************************)
(* The smaller programs: EspiControl, DhcpDone, HostMonitor,               *)
(* AcpiPowerState and MetricBlobs.                                         *)
(***************************************************************************)
EXTENDS HostMonitor, DhcpDone, EspiControl, AcpiPowerState, MetricBlobs,
        FiniteSetTheorems, WellFoundedInduction, TLAPS

-------------------------------------------------------------------------------
(* The eSPI bus.  What the host was promised moves from the bits the       *)
(* program read to the bits of the core, before the bits that made a       *)
(* channel ready by itself are cleared.                                    *)
PromiseCopied ==
  /\ espi_pc = "disable" => promised \subseteq espicfg_core \cup espicfg_host
  /\ espi_pc \in {"clear_auto", "clear_core"} => promised \subseteq core_enable

BitsCleared ==
  /\ espi_pc \in {"clear_core", "disabled"} => auto_ready = {}
  /\ espi_pc = "disabled" => core_enable = {}

EspiIInv == OffInOneStep /\ PromiseCopied /\ BitsCleared

LEMMA EspiInvariance == EspiSpec => []EspiIInv
<1> USE DEF EspiIInv, OffInOneStep, ReadyUntilTheEnd, DisabledMeansOff, Ready,
            PromiseCopied, BitsCleared
<1>1. EspiInit => EspiIInv
  BY DEF EspiInit
<1>2. EspiIInv /\ [EspiNext]_espiVars => EspiIInv'
  <2> SUFFICES ASSUME EspiIInv, [EspiNext]_espiVars
               PROVE  EspiIInv'
    OBVIOUS
  <2>1. ASSUME NEW c \in EspiChannel, HostEnables(c) \/ HostDisables(c)
        PROVE  EspiIInv'
    BY <2>1 DEF HostEnables, HostDisables, espiCopy
  <2>2. CASE SetAutoReady
    BY <2>2 DEF SetAutoReady
  <2>3. ASSUME NEW next \in {"enable", "disable"}, ReadConfig(next)
        PROVE  EspiIInv'
    BY <2>3 DEF ReadConfig
  <2>4. CASE Enable
    BY <2>4 DEF Enable
  <2>5. CASE CopyHostBits
    BY <2>5 DEF CopyHostBits
  <2>6. CASE ClearAutoReady
    BY <2>6 DEF ClearAutoReady
  <2>7. CASE ClearCore
    BY <2>7 DEF ClearCore
  <2>8. CASE EndEspi
    BY <2>8 DEF EndEspi
  <2>9. CASE UNCHANGED espiVars
    BY <2>9 DEF espiVars, espiCopy
  <2> QED
    BY <2>1, <2>2, <2>3, <2>4, <2>5, <2>6, <2>7, <2>8, <2>9 DEF EspiNext
<1> QED
  BY <1>1, <1>2, PTL DEF EspiSpec

(* npcm7xx_espi_control -d takes no channel from the host before its last  *)
(* write, which takes all of them, for any set of channels and whenever    *)
(* earlier runs were killed.                                               *)
THEOREM LastWriteTakesAll == EspiSpec => []OffInOneStep
<1>1. EspiIInv => OffInOneStep
  BY DEF EspiIInv
<1> QED
  BY <1>1, EspiInvariance, PTL

-------------------------------------------------------------------------------
(* dhcp-done.  Every connection in the backlog, and the one being served,  *)
(* is that of a waiting client, and no two are of the same client.         *)
DhcpTypes ==
  /\ status_file \in Status \cup {NoFile}
  /\ status_temp \in Status \cup {NoFile}
  /\ backlog \in Seq(Client)
  /\ serving \in Client
  /\ client_state \in [Client -> {"out", "waiting", "answered", "refused"}]
  /\ answer \in [Client -> Status \cup {NoFile}]
  /\ held \in [Client -> SUBSET (Status \cup {NoFile})]

BacklogWaits ==
  /\ \A i \in 1 .. Len(backlog) : client_state[backlog[i]] = "waiting"
  /\ \A i, j \in 1 .. Len(backlog) : i # j => backlog[i] # backlog[j]

ServingWaits ==
  dhcp_pc = "serve" =>
    /\ client_state[serving] = "waiting"
    /\ \A i \in 1 .. Len(backlog) : backlog[i] # serving

(* What the file holds now is held for every client that waits.            *)
FileIsHeld ==
  \A c \in Client : client_state[c] = "waiting" => status_file \in held[c]

DhcpIInv ==
  DhcpTypes /\ BacklogWaits /\ ServingWaits /\ FileIsHeld /\ AnswerIsAStatus

LEMMA DhcpInitial == DhcpInit => DhcpIInv
  BY DEF DhcpInit, DhcpIInv, DhcpTypes, BacklogWaits, ServingWaits, FileIsHeld,
         AnswerIsAStatus

LEMMA WriterStep ==
  ASSUME DhcpIInv,
         (\E status \in Status : OpenWriter(status)) \/ CommitWriter \/ KillWriter
  PROVE  DhcpIInv'
<1> USE DEF DhcpIInv, DhcpTypes, BacklogWaits, ServingWaits, FileIsHeld,
            AnswerIsAStatus, dhcpLoop, dhcpClients
<1>1. ASSUME NEW status \in Status, OpenWriter(status)
      PROVE  DhcpIInv'
  BY <1>1 DEF OpenWriter
<1>2. CASE CommitWriter
  BY <1>2 DEF CommitWriter, FileHolds
<1>3. CASE KillWriter
  BY <1>3 DEF KillWriter
<1> QED
  BY <1>1, <1>2, <1>3

LEMMA ConnectStep ==
  ASSUME DhcpIInv, NEW c \in Client, Connect(c)
  PROVE  DhcpIInv'
<1> USE DEF DhcpIInv, Connect, dhcpFile
<1>1. CASE dhcp_pc = "down"
  BY <1>1 DEF DhcpTypes, BacklogWaits, ServingWaits, FileIsHeld, AnswerIsAStatus
<1>2. CASE dhcp_pc # "down"
  <2> DEFINE states == {"out", "waiting", "answered", "refused"}
  <2>a. client_state' \in [Client -> states]
    BY <1>2 DEF DhcpTypes
  <2>c. backlog' = Append(backlog, c) /\ backlog \in Seq(Client)
    BY <1>2 DEF DhcpTypes
  <2>d. backlog' \in Seq(Client)
    BY <2>c
  <2>b. held' \in [Client -> SUBSET (Status \cup {NoFile})]
    BY <1>2 DEF DhcpTypes
  <2>1. DhcpTypes'
    BY <1>2, <2>a, <2>b, <2>d DEF DhcpTypes
  <2>2. /\ Len(backlog') = Len(backlog) + 1
        /\ \A i \in 1 .. Len(backlog) : backlog'[i] = backlog[i]
        /\ backlog'[Len(backlog) + 1] = c
        /\ Len(backlog) \in Nat
    BY <1>2 DEF DhcpTypes
  <2>3. \A i \in 1 .. Len(backlog) : backlog[i] \in Client /\ backlog[i] # c
    BY DEF DhcpTypes, BacklogWaits
  <2>4. \A d \in Client : client_state'[d] =
                            IF d = c THEN "waiting" ELSE client_state[d]
    BY <1>2 DEF DhcpTypes
  <2>5. BacklogWaits'
    BY <2>2, <2>3, <2>4 DEF BacklogWaits
  <2>6. dhcp_pc = "serve" => serving # c /\ serving \in Client
    BY DEF ServingWaits, DhcpTypes
  <2>7. ServingWaits'
    BY <2>2, <2>3, <2>4, <2>6 DEF ServingWaits
  <2>8. FileIsHeld' /\ AnswerIsAStatus'
    BY <1>2 DEF DhcpTypes, FileIsHeld, AnswerIsAStatus
  <2> QED
    BY <2>1, <2>5, <2>7, <2>8
<1> QED
  BY <1>1, <1>2

LEMMA AcceptStep == DhcpIInv /\ Accept => DhcpIInv'
<1> SUFFICES ASSUME DhcpIInv, Accept PROVE DhcpIInv'
  OBVIOUS
<1> USE DEF DhcpIInv, Accept, dhcpFile, dhcpClients
<1>1. FileIsHeld' /\ AnswerIsAStatus'
  BY DEF FileIsHeld, AnswerIsAStatus
<1>2. CASE backlog = <<>>
  BY <1>1, <1>2 DEF DhcpTypes, BacklogWaits, ServingWaits
<1>3. CASE backlog # <<>>
  <2>0. /\ backlog \in Seq(Client) /\ backlog' = Tail(backlog)
        /\ serving' = Head(backlog)
    BY <1>3 DEF DhcpTypes
  <2>1. /\ Len(backlog) \in Nat \ {0}
        /\ Len(backlog') = Len(backlog) - 1
        /\ \A i \in 1 .. Len(backlog') : backlog'[i] = backlog[i + 1]
        /\ serving' = backlog[1]
    BY <1>3, <2>0
  <2>2. backlog' \in Seq(Client) /\ serving' \in Client
    BY <1>3 DEF DhcpTypes
  <2>3. DhcpTypes'
    BY <2>2 DEF DhcpTypes
  <2>4. BacklogWaits' /\ ServingWaits'
    BY <2>1 DEF BacklogWaits, ServingWaits
  <2> QED
    BY <1>1, <2>3, <2>4
<1> QED
  BY <1>2, <1>3

LEMMA ServeStep == DhcpIInv /\ Serve => DhcpIInv'
<1> SUFFICES ASSUME DhcpIInv, Serve PROVE DhcpIInv'
  OBVIOUS
<1> USE DEF DhcpIInv, Serve, dhcpFile
<1>1. PICK data \in DataRead : answer' = [answer EXCEPT ![serving] = data]
  OBVIOUS
<1>2. data \in Status /\ data \in held[serving] \cup {Ongoing}
  BY <1>1, DhcpAssumption
     DEF DataRead, DhcpTypes, ServingWaits, FileIsHeld
<1>3. DhcpTypes'
  BY <1>1, <1>2 DEF DhcpTypes
<1>4. BacklogWaits' /\ ServingWaits'
  BY DEF DhcpTypes, BacklogWaits, ServingWaits, AfterServe
<1>5. FileIsHeld' /\ AnswerIsAStatus'
  BY <1>1, <1>2 DEF DhcpTypes, FileIsHeld, AnswerIsAStatus
<1> QED
  BY <1>3, <1>4, <1>5

LEMMA DaemonStep ==
  DhcpIInv /\ (StartDhcpDone \/ Callback \/ FailDhcpDone) => DhcpIInv'
<1> SUFFICES ASSUME DhcpIInv, StartDhcpDone \/ Callback \/ FailDhcpDone
             PROVE  DhcpIInv'
  OBVIOUS
<1> USE DEF DhcpIInv, DhcpTypes, BacklogWaits, ServingWaits, FileIsHeld,
            AnswerIsAStatus, dhcpFile, dhcpClients
<1>1. CASE StartDhcpDone
  BY <1>1, DhcpAssumption DEF StartDhcpDone, FileHolds
<1>2. CASE Callback
  BY <1>2 DEF Callback
<1>3. CASE FailDhcpDone
  BY <1>3 DEF FailDhcpDone
<1> QED
  BY <1>1, <1>2, <1>3

(* A client of dhcp-done receives a whole status that the file held since  *)
(* it connected, or "ongoing": for any number of clients, writers and      *)
(* failures.                                                               *)
THEOREM StatusIsNeverTorn == DhcpSpec => []AnswerIsAStatus
<1>1. DhcpIInv /\ [DhcpNext]_dhcpVars => DhcpIInv'
  <2> SUFFICES ASSUME DhcpIInv, [DhcpNext]_dhcpVars
               PROVE  DhcpIInv'
    OBVIOUS
  <2>1. CASE UNCHANGED dhcpVars
    BY <2>1 DEF dhcpVars, dhcpFile, dhcpLoop, dhcpClients, DhcpIInv, DhcpTypes,
                BacklogWaits, ServingWaits, FileIsHeld, AnswerIsAStatus
  <2> QED
    BY <2>1, WriterStep, ConnectStep, AcceptStep, ServeStep, DaemonStep
       DEF DhcpNext, DhcpStep
<1>2. DhcpIInv => AnswerIsAStatus
  BY DEF DhcpIInv
<1> QED
  BY <1>1, <1>2, DhcpInitial, PTL DEF DhcpSpec

-------------------------------------------------------------------------------
(* host_gpio_monitor.  The check of the start-up is the first of all calls *)
(* of Get, and nothing was answered before it.                             *)
HmMessage ==
  [type : {"signal"}] \cup [type : {"reply"}, check : Check, state : HostState]

HmTypes ==
  /\ host_state \in HostState
  /\ hm_gets \in Seq(Check)
  /\ hm_inbox \in Seq(HmMessage)

StartupGoesFirst ==
  /\ hm_pc = "check" => hm_gets = <<>> /\ hm_inbox = <<>>
  /\ \A j \in 2 .. Len(hm_gets) : hm_gets[j] = "event"
  /\ \A i \in 1 .. Len(hm_inbox) : hm_inbox[i].type = "reply" =>
       \A j \in 1 .. Len(hm_gets) : hm_gets[j] = "event"
  /\ \A i, j \in 1 .. Len(hm_inbox) :
       i < j /\ hm_inbox[i].type = "reply" /\ hm_inbox[j].type = "reply" =>
         hm_inbox[j].check = "event"

HmIInv == HmTypes /\ StartupGoesFirst

(* A message is put at the end.                                            *)
LEMMA MessageArrives ==
  ASSUME HmIInv, NEW m \in HmMessage, hm_inbox' = Append(hm_inbox, m)
  PROVE  /\ hm_inbox' \in Seq(HmMessage)
         /\ Len(hm_inbox) \in Nat
         /\ Len(hm_inbox') = Len(hm_inbox) + 1
         /\ \A i \in 1 .. Len(hm_inbox) : hm_inbox'[i] = hm_inbox[i]
         /\ hm_inbox'[Len(hm_inbox) + 1] = m
  BY DEF HmIInv, HmTypes

(* A message is taken off the front.                                       *)
LEMMA MessageTaken ==
  ASSUME HmIInv, hm_inbox # <<>>, hm_inbox' = Tail(hm_inbox)
  PROVE  /\ hm_inbox' \in Seq(HmMessage)
         /\ Len(hm_inbox) \in Nat \ {0}
         /\ Len(hm_inbox') = Len(hm_inbox) - 1
         /\ \A i \in 1 .. Len(hm_inbox') : hm_inbox'[i] = hm_inbox[i + 1]
  BY DEF HmIInv, HmTypes

LEMMA GetTaken ==
  ASSUME HmIInv, hm_gets # <<>>, hm_gets' = Tail(hm_gets)
  PROVE  /\ hm_gets' \in Seq(Check)
         /\ Len(hm_gets) \in Nat \ {0}
         /\ Len(hm_gets') = Len(hm_gets) - 1
         /\ \A i \in 1 .. Len(hm_gets') : hm_gets'[i] = hm_gets[i + 1]
         /\ Head(hm_gets) \in Check
  BY DEF HmIInv, HmTypes

LEMMA GetMade ==
  ASSUME HmIInv, NEW check \in Check, CheckPostComplete(check)
  PROVE  /\ hm_gets' \in Seq(Check)
         /\ Len(hm_gets) \in Nat
         /\ Len(hm_gets') = Len(hm_gets) + 1
         /\ \A i \in 1 .. Len(hm_gets) : hm_gets'[i] = hm_gets[i]
         /\ hm_gets'[Len(hm_gets) + 1] = check
  BY DEF HmIInv, HmTypes, CheckPostComplete

LEMMA HostStep == HmIInv /\ ChangeHost => HmIInv'
<1> SUFFICES ASSUME HmIInv, ChangeHost PROVE HmIInv'
  OBVIOUS
<1>1. host_state' \in HostState /\ UNCHANGED <<hm_pc, hm_gets>>
  BY DEF ChangeHost
<1>2. CASE hm_pc = "run"
  <2>1. Signal \in HmMessage /\ Signal.type # "reply"
    BY DEF Signal, HmMessage
  <2>2. hm_inbox' = Append(hm_inbox, Signal)
    BY <1>2 DEF ChangeHost
  <2> HIDE DEF Signal
  <2>3. StartupGoesFirst'
    BY <1>1, <1>2, <2>1, <2>2, MessageArrives DEF HmIInv, StartupGoesFirst
  <2> QED
    BY <1>1, <2>1, <2>2, <2>3, MessageArrives DEF HmIInv, HmTypes
<1>3. CASE hm_pc # "run"
  BY <1>1, <1>3 DEF ChangeHost, HmIInv, HmTypes, StartupGoesFirst
<1> QED
  BY <1>2, <1>3

LEMMA AnswerStep == HmIInv /\ AnswerGet => HmIInv'
<1> SUFFICES ASSUME HmIInv, AnswerGet PROVE HmIInv'
  OBVIOUS
<1> DEFINE reply == Reply(Head(hm_gets), host_state)
<1>1. UNCHANGED <<host_state, hm_pc>> /\ hm_pc # "check"
  BY DEF AnswerGet, HmIInv, StartupGoesFirst
<1>2. reply \in HmMessage /\ reply.type = "reply" /\ reply.check = hm_gets[1]
  BY GetTaken DEF AnswerGet, Reply, HmMessage, HmIInv, HmTypes
<1>3. hm_inbox' = Append(hm_inbox, reply)
  BY DEF AnswerGet
<1>4. StartupGoesFirst'
  <2>1. \A j \in 1 .. Len(hm_gets') : hm_gets'[j] = "event"
    BY GetTaken DEF AnswerGet, HmIInv, StartupGoesFirst
  <2>2. \A i \in 1 .. Len(hm_inbox) :
          hm_inbox[i].type = "reply" => reply.check = "event"
    BY <1>2, GetTaken DEF AnswerGet, HmIInv, StartupGoesFirst
  <2> HIDE DEF reply
  <2>3. \A i, j \in 1 .. Len(hm_inbox') :
          i < j /\ hm_inbox'[i].type = "reply" /\ hm_inbox'[j].type = "reply" =>
            hm_inbox'[j].check = "event"
    BY <1>2, <1>3, <2>2, MessageArrives DEF HmIInv, StartupGoesFirst
  <2>4. Len(hm_gets') \in Nat
    BY GetTaken DEF AnswerGet
  <2> QED
    BY <1>1, <2>1, <2>3, <2>4 DEF StartupGoesFirst
<1> QED
  BY <1>1, <1>2, <1>3, <1>4, MessageArrives, GetTaken
     DEF AnswerGet, HmIInv, HmTypes

LEMMA HmDaemonStep == HmIInv /\ HmStep => HmIInv'
<1> SUFFICES ASSUME HmIInv, HmStep PROVE HmIInv'
  OBVIOUS
<1>1. CASE CheckStartup
  BY <1>1, GetMade DEF CheckStartup, Check, HmIInv, HmTypes, StartupGoesFirst
<1>2. CASE AddMatch
  BY <1>2 DEF AddMatch, HmIInv, HmTypes, StartupGoesFirst
<1>3. CASE HandleChange \/ HandleReply
  <2>1. /\ hm_inbox # <<>>
        /\ hm_inbox' = Tail(hm_inbox)
        /\ UNCHANGED <<host_state, hm_pc, hm_gets>>
        /\ hm_pc = "run"
    BY <1>3 DEF HandleChange, HandleReply
  <2>2. StartupGoesFirst'
    BY <2>1, MessageTaken DEF HmIInv, StartupGoesFirst
  <2> QED
    BY <2>1, <2>2, MessageTaken DEF HmIInv, HmTypes
<1>4. CASE ExpireTimer
  BY <1>4 DEF ExpireTimer, HmIInv, HmTypes, StartupGoesFirst
<1>5. CASE CheckEvent
  BY <1>5, GetMade DEF CheckEvent, Check, HmIInv, HmTypes, StartupGoesFirst
<1> QED
  BY <1>1, <1>2, <1>3, <1>4, <1>5 DEF HmStep

(* The answer to the start-up check never follows that of an event in the  *)
(* connection of host_gpio_monitor, for any number of changes, failed      *)
(* calls and restarts.                                                     *)
THEOREM StartupIsNeverLate == HmSpec => []StartupAnsweredFirst
<1>1. HmInit => HmIInv
  BY DEF HmInit, HmIInv, HmTypes, StartupGoesFirst
<1>2. HmIInv /\ [HmNext]_hmVars => HmIInv'
  <2> SUFFICES ASSUME HmIInv, [HmNext]_hmVars PROVE HmIInv'
    OBVIOUS
  <2>1. CASE ActivateTarget \/ UNCHANGED hmVars
    BY <2>1 DEF ActivateTarget, hmVars, hmLoop, HmIInv, HmTypes,
                StartupGoesFirst
  <2>2. CASE GetFails
    BY <2>2, GetTaken DEF GetFails, HmIInv, HmTypes, StartupGoesFirst
  <2>3. CASE RestartMonitor
    BY <2>3 DEF RestartMonitor, HmIInv, HmTypes, StartupGoesFirst
  <2> QED
    BY <2>1, <2>2, <2>3, HostStep, AnswerStep, HmDaemonStep DEF HmNext
<1>3. HmIInv => StartupAnsweredFirst
  BY DEF HmIInv, HmTypes, StartupGoesFirst, StartupAnsweredFirst
<1> QED
  BY <1>1, <1>2, <1>3, PTL DEF HmSpec

-------------------------------------------------------------------------------
(* The ACPI daemon: the property is set last, and a failed call leaves it. *)
THEOREM StatusIsTheTarget == AcpiSpec => []StatusMatchesTarget
<1>1. AcpiInit => StatusMatchesTarget
  BY DEF AcpiInit, StatusMatchesTarget, UnitOf
<1>2. StatusMatchesTarget /\ [AcpiNext]_acpiVars => StatusMatchesTarget'
  <2> SUFFICES ASSUME StatusMatchesTarget, [AcpiNext]_acpiVars
               PROVE  StatusMatchesTarget'
    OBVIOUS
  <2> USE DEF StatusMatchesTarget
  <2>1. CASE RestartAcpi
    BY <2>1 DEF RestartAcpi, UnitOf
  <2>2. ASSUME NEW value \in ACPI, SysACPIStatus(value)
        PROVE  StatusMatchesTarget'
    BY <2>2 DEF SysACPIStatus
  <2>3. CASE UNCHANGED acpiVars
    BY <2>3 DEF acpiVars
  <2> QED
    BY <2>1, <2>2, <2>3 DEF AcpiNext
<1> QED
  BY <1>1, <1>2, PTL DEF AcpiSpec

-------------------------------------------------------------------------------
(* The blob of the metrics.  Sums and orders of lists of any length are    *)
(* reasoned about by the least number for which something fails.           *)
LEMMA LeastNumber ==
  ASSUME NEW S \in SUBSET Nat, S # {}
  PROVE  \E n \in S : \A m \in S : n <= m
<1>1. PICK n \in S : \A m \in S : ~(<<m, n>> \in OpToRel(<, Nat))
  BY WFMin, NatLessThanWellFounded, Zenon
<1>2. ASSUME NEW m \in S
      PROVE  ~(m < n)
  BY <1>1, <1>2 DEF OpToRel
<1> QED
  BY <1>2

(* What the function in SumOf is chosen to be.                             *)
SumsUpTo(list, n, f) ==
  f = [i \in 0..n |-> IF i = 0 THEN 0 ELSE f[i - 1] + list[i].amount]

HasAmounts(list, n) == \A i \in 1..n : list[i].amount \in Nat

SameAmounts(p, q, n) == \A i \in 1..n : p[i].amount = q[i].amount

LEMMA SumsExist ==
  ASSUME NEW list, NEW n \in Nat, HasAmounts(list, n)
  PROVE  \E f \in [0..n -> Nat] : SumsUpTo(list, n, f)
<1> DEFINE S == {k \in 0..n : ~\E f \in [0..k -> Nat] : SumsUpTo(list, k, f)}
<1>1. SUFFICES ASSUME S # {}
               PROVE  FALSE
  OBVIOUS
<1>2. PICK k \in S : \A j \in S : k <= j
  <2>1. S \in SUBSET Nat
    OBVIOUS
  <2> HIDE DEF S
  <2> QED
    BY <1>1, <2>1, LeastNumber
<1>3. CASE k = 0
  <2> DEFINE f == [i \in 0..0 |-> 0]
  <2>1. f \in [0..0 -> Nat] /\ SumsUpTo(list, 0, f)
    BY DEF SumsUpTo
  <2> QED
    BY <1>2, <1>3, <2>1
<1>4. CASE k # 0
  <2>1. k - 1 \in 0..n /\ k - 1 \notin S
    BY <1>2, <1>4
  <2>2. PICK g \in [0..(k - 1) -> Nat] : SumsUpTo(list, k - 1, g)
    BY <2>1
  <2> DEFINE f == [i \in 0..k |->
                     IF i < k THEN g[i] ELSE g[k - 1] + list[k].amount]
  <2>3. list[k].amount \in Nat /\ k \in Nat
    BY <1>2, <1>4 DEF HasAmounts
  <2>4. f \in [0..k -> Nat]
    <3>1. ASSUME NEW i \in 0..k
          PROVE  (IF i < k THEN g[i] ELSE g[k - 1] + list[k].amount) \in Nat
      BY <1>4, <2>2, <2>3
    <3> QED
      BY <3>1
  <2>5. ASSUME NEW i \in 0..k
        PROVE  f[i] = IF i = 0 THEN 0 ELSE f[i - 1] + list[i].amount
    <3>1. CASE i < k
      <4>1. i \in 0..(k - 1) /\ f[i] = g[i]
        BY <2>3, <3>1
      <4>2. g[i] = IF i = 0 THEN 0 ELSE g[i - 1] + list[i].amount
        BY <2>2, <4>1 DEF SumsUpTo
      <4>3. i # 0 => f[i - 1] = g[i - 1]
        BY <2>3, <3>1
      <4> QED
        BY <4>1, <4>2, <4>3
    <3>2. CASE i = k
      <4>1. k - 1 \in 0..k /\ k - 1 < k
        BY <1>4, <2>3
      <4> QED
        BY <1>4, <3>2, <4>1
    <3> QED
      BY <2>3, <3>1, <3>2
  <2>6. SumsUpTo(list, k, f)
    <3>1. f = [i \in 0..k |-> f[i]]
      OBVIOUS
    <3> HIDE DEF f
    <3> QED
      BY <2>5, <3>1 DEF SumsUpTo
  <2> QED
    BY <1>2, <2>4, <2>6
<1> QED
  BY <1>3, <1>4

LEMMA SumsAgree ==
  ASSUME NEW p, NEW q, NEW m \in Nat, NEW n \in Nat, NEW f, NEW g,
         SumsUpTo(p, m, f), SumsUpTo(q, n, g),
         NEW k \in 0..m, k <= n, SameAmounts(p, q, k)
  PROVE  f[k] = g[k]
<1> DEFINE S == {j \in 0..k : f[j] # g[j]}
<1>1. SUFFICES ASSUME S # {}
               PROVE  FALSE
  OBVIOUS
<1>2. PICK j \in S : \A i \in S : j <= i
  <2>1. S \in SUBSET Nat
    OBVIOUS
  <2> HIDE DEF S
  <2> QED
    BY <1>1, <2>1, LeastNumber
<1>3. /\ f[j] = IF j = 0 THEN 0 ELSE f[j - 1] + p[j].amount
      /\ g[j] = IF j = 0 THEN 0 ELSE g[j - 1] + q[j].amount
  <2>1. j \in 0..m /\ j \in 0..n
    OBVIOUS
  <2> QED
    BY <2>1 DEF SumsUpTo
<1>4. j # 0 => j - 1 \in 0..k /\ j - 1 \notin S /\ p[j].amount = q[j].amount
  BY <1>2 DEF SameAmounts
<1> QED
  BY <1>3, <1>4

LEMMA SumOfIs ==
  ASSUME NEW list, NEW n \in Nat, HasAmounts(list, n)
  PROVE  \E f \in [0..n -> Nat] :
           SumsUpTo(list, n, f) /\ SumOf(list, n) = f[n]
<1> DEFINE f == CHOOSE f : SumsUpTo(list, n, f)
<1>1. SumOf(list, n) = f[n]
  BY DEF SumOf, SumsUpTo
<1>2. PICK g \in [0..n -> Nat] : SumsUpTo(list, n, g)
  BY SumsExist
<1>3. SumsUpTo(list, n, f)
  BY <1>2
<1> HIDE DEF f
<1>4. n \in 0..n /\ n <= n /\ SameAmounts(list, list, n)
  BY DEF SameAmounts
<1>5. f[n] = g[n]
  BY <1>2, <1>3, <1>4, SumsAgree
<1> QED
  BY <1>1, <1>2, <1>5

(* What SumOf computes, one amount after the other.                        *)
LEMMA SumOfNone ==
  ASSUME NEW list
  PROVE  SumOf(list, 0) = 0
<1>1. 0 \in Nat /\ HasAmounts(list, 0)
  BY DEF HasAmounts
<1>2. PICK f \in [0..0 -> Nat] : SumsUpTo(list, 0, f) /\ SumOf(list, 0) = f[0]
  BY <1>1, SumOfIs
<1> QED
  BY <1>2 DEF SumsUpTo

LEMMA SumOfNext ==
  ASSUME NEW list, NEW n \in Nat, HasAmounts(list, n + 1)
  PROVE  /\ SumOf(list, n) \in Nat
         /\ SumOf(list, n + 1) = SumOf(list, n) + list[n + 1].amount
<1>1. n + 1 \in Nat /\ HasAmounts(list, n)
  BY DEF HasAmounts
<1>2. PICK f \in [0..n -> Nat] : SumsUpTo(list, n, f) /\ SumOf(list, n) = f[n]
  BY <1>1, SumOfIs
<1>3. PICK g \in [0..(n + 1) -> Nat] :
        SumsUpTo(list, n + 1, g) /\ SumOf(list, n + 1) = g[n + 1]
  BY <1>1, SumOfIs
<1>4. g[n + 1] = g[n] + list[n + 1].amount
  BY <1>3 DEF SumsUpTo
<1>5. n \in 0..n /\ n <= n + 1 /\ SameAmounts(list, list, n)
  BY DEF SameAmounts
<1>6. f[n] = g[n]
  BY <1>1, <1>2, <1>3, <1>5, SumsAgree
<1> QED
  BY <1>2, <1>3, <1>4, <1>6

LEMMA SumOfSame ==
  ASSUME NEW p, NEW q, NEW n \in Nat, HasAmounts(p, n),
         SameAmounts(p, q, n)
  PROVE  SumOf(p, n) = SumOf(q, n)
<1>1. HasAmounts(q, n) /\ n \in 0..n /\ n <= n
  BY DEF HasAmounts, SameAmounts
<1>2. PICK f \in [0..n -> Nat] : SumsUpTo(p, n, f) /\ SumOf(p, n) = f[n]
  BY SumOfIs
<1>3. PICK g \in [0..n -> Nat] : SumsUpTo(q, n, g) /\ SumOf(q, n) = g[n]
  BY <1>1, SumOfIs
<1>4. f[n] = g[n]
  BY <1>1, <1>2, <1>3, SumsAgree
<1> QED
  BY <1>2, <1>3, <1>4

-------------------------------------------------------------------------------
(* What a row may hold.                                                    *)
Row == [sidx : Nat, amount : Nat]

MbTypeOK ==
  /\ mb_pc \in {"closed", "read", "rows", "encode", "session"}
  /\ mb_metric \in 1..2
  /\ entries \in Seq(Entry)
  /\ mb_next \in Nat \ {0}
  /\ others \in Nat
  /\ mb_rows \in [1..2 -> Seq(Row)]
  /\ mb_entries \in [1..2 -> Seq(Entry)]

(* The table numbers its strings, in the order in which they came.         *)
TableNumbersStrings ==
  /\ DOMAIN stringTable \subseteq CmdLine /\ IsFiniteSet(DOMAIN stringTable)
  /\ stringId \in Nat /\ stringId = Cardinality(DOMAIN stringTable)
  /\ stringTable \in [DOMAIN stringTable -> 0..stringId - 1]
  /\ \A s, t \in DOMAIN stringTable : stringTable[s] = stringTable[t] => s = t
  /\ \A i \in 0..stringId - 1 : \E s \in DOMAIN stringTable : stringTable[s] = i

EntriesSorted ==
  \A m \in 1..2 : \A i \in 1..Len(mb_entries[m]) - 1 :
    RanksBefore(mb_entries[m][i], mb_entries[m][i + 1])

RowName(m, i) == IF i <= TopN THEN mb_entries[m][i].cmdline ELSE Others

(* A row names its entry, and has its amount if it is not "(Others)".      *)
RowsFollowEntries ==
  \A m \in 1..2 : \A i \in 1..Len(mb_rows[m]) :
    /\ RowName(m, i) \in DOMAIN stringTable
    /\ mb_rows[m][i].sidx = stringTable[RowName(m, i)]
    /\ i <= TopN =>
         /\ i <= Len(mb_entries[m])
         /\ mb_rows[m][i].amount = mb_entries[m][i].amount

RowsComplete(m) ==
  /\ Len(mb_rows[m]) = IF Len(mb_entries[m]) > TopN THEN TopN + 1
                       ELSE Len(mb_entries[m])
  /\ SumOf(mb_rows[m], Len(mb_rows[m]))
       = SumOf(mb_entries[m], Len(mb_entries[m]))

(* What has been taken from the entries is in the rows or in others.       *)
RowsUnderWay ==
  mb_pc = "rows" =>
    /\ entries = mb_entries[mb_metric]
    /\ mb_next <= Len(entries) + 1
    /\ Len(mb_rows[mb_metric]) =
         IF mb_next - 1 <= TopN THEN mb_next - 1 ELSE TopN
    /\ mb_next - 1 <= TopN => others = 0
    /\ SumOf(mb_rows[mb_metric], Len(mb_rows[mb_metric])) + others
         = SumOf(entries, mb_next - 1)

MetricsInOrder ==
  /\ mb_pc = "closed" => mb_metric = 1
  /\ mb_pc \in {"closed", "read"} => Len(mb_rows[mb_metric]) = 0
  /\ mb_pc \in {"encode", "session"} => mb_metric = 2 /\ RowsComplete(2)
  /\ mb_metric = 1 => Len(mb_rows[2]) = 0
  /\ mb_metric = 2 => RowsComplete(1)

TableEncoded ==
  mb_pc = "session" =>
    \A s \in DOMAIN stringTable : mb_strings[stringTable[s] + 1] = s

MbIInv ==
  /\ MbTypeOK
  /\ TableNumbersStrings
  /\ EntriesSorted
  /\ RowsFollowEntries
  /\ RowsUnderWay
  /\ MetricsInOrder
  /\ TableEncoded

LEMMA MbConstants ==
  /\ Len(Metric) = 2
  /\ TopN \in Nat /\ TopN >= 1
  /\ CmdLine \subseteq Nat /\ Others \in CmdLine
  /\ \A e \in Entry : e.cmdline \in CmdLine /\ e.amount \in Nat
<1>1. Len(Metric) = 2
  BY DEF Metric
<1>2. /\ TopN \in Nat /\ TopN >= 1
      /\ CmdLine \subseteq Nat /\ Others \in CmdLine
  BY MetricAssumption
<1>3. \A e \in Entry : e.cmdline \in CmdLine /\ e.amount \in Nat
  BY MetricAssumption DEF Entry
<1> QED
  BY <1>1, <1>2, <1>3

LEMMA MbInitial ==
  ASSUME MbInit
  PROVE  MbIInv
<1>1. MbTypeOK
  BY MbConstants DEF MbInit, MbTypeOK
<1>2. TableNumbersStrings
  BY FS_EmptySet DEF MbInit, TableNumbersStrings, EmptyTable
<1>3. EntriesSorted /\ RowsFollowEntries /\ RowsUnderWay /\ TableEncoded
  BY MbConstants DEF MbInit, EntriesSorted, RowsFollowEntries, RowsUnderWay,
     TableEncoded
<1>4. MetricsInOrder
  BY MbConstants DEF MbInit, MetricsInOrder
<1> QED
  BY <1>1, <1>2, <1>3, <1>4 DEF MbIInv

LEMMA MbCleared ==
  ASSUME Cleared, mb_pc' \in {"closed", "read"}
  PROVE  MbIInv'
<1>1. MbTypeOK'
  BY MbConstants DEF Cleared, MbTypeOK
<1>2. TableNumbersStrings'
  BY FS_EmptySet DEF Cleared, TableNumbersStrings, EmptyTable
<1>3. EntriesSorted' /\ RowsFollowEntries' /\ RowsUnderWay' /\ TableEncoded'
  BY MbConstants DEF Cleared, EntriesSorted, RowsFollowEntries, RowsUnderWay,
     TableEncoded
<1>4. MetricsInOrder'
  BY MbConstants DEF Cleared, MetricsInOrder
<1> QED
  BY <1>1, <1>2, <1>3, <1>4 DEF MbIInv

LEMMA MbReads ==
  ASSUME MbIInv, ReadProc
  PROVE  MbIInv'
<1> USE DEF MbIInv
<1>1. /\ mb_pc = "read" /\ mb_pc' = "rows"
      /\ mb_metric \in 1..2
      /\ mb_next' = 1 /\ others' = 0
      /\ mb_entries' = [mb_entries EXCEPT ![mb_metric] = entries']
      /\ UNCHANGED <<mb_metric, mb_rows, mbTable>>
      /\ Len(mb_rows[mb_metric]) = 0
      /\ mb_entries \in [1..2 -> Seq(Entry)]
  BY DEF ReadProc, MetricsInOrder, MbTypeOK
<1>2. /\ entries' \in Seq(Entry)
      /\ \A i \in 1..Len(entries') - 1 :
           RanksBefore(entries'[i], entries'[i + 1])
  BY DEF ReadProc, SortedEntries, BoundedSeq, SeqOf
<1>3. /\ \A m \in 1..2 : m # mb_metric => mb_entries'[m] = mb_entries[m]
      /\ mb_entries'[mb_metric] = entries'
      /\ mb_entries' \in [1..2 -> Seq(Entry)]
  BY <1>1, <1>2
<1>4. MbTypeOK'
  BY <1>1, <1>2, <1>3 DEF MbTypeOK
<1>5. TableNumbersStrings'
  BY <1>1 DEF TableNumbersStrings, mbTable
<1>6. EntriesSorted'
  BY <1>1, <1>2, <1>3 DEF EntriesSorted
<1>7. RowsFollowEntries'
  BY <1>1, <1>3 DEF RowsFollowEntries, RowName, mbTable
<1>8. RowsUnderWay'
  <2>1. Len(entries') \in Nat
    BY <1>2
  <2> QED
    BY <1>1, <1>3, <2>1, MbConstants, SumOfNone DEF RowsUnderWay
<1>9. MetricsInOrder'
  BY <1>1, <1>3 DEF MetricsInOrder, RowsComplete
<1> QED
  BY <1>1, <1>4, <1>5, <1>6, <1>7, <1>8, <1>9 DEF TableEncoded

LEMMA RowAppended ==
  ASSUME NEW rows \in Seq(Row), NEW row \in Row
  PROVE  /\ Append(rows, row) \in Seq(Row)
         /\ Len(rows) \in Nat
         /\ Len(Append(rows, row)) = Len(rows) + 1
         /\ Append(rows, row)[Len(rows) + 1] = row
         /\ \A i \in 1..Len(rows) : Append(rows, row)[i] = rows[i]
  OBVIOUS

(* A string keeps its number, and the new row gets that of its string.     *)
LEMMA StringNumbered ==
  ASSUME TableNumbersStrings, NEW string \in CmdLine, GetStringID(string)
  PROVE  /\ TableNumbersStrings'
         /\ string \in DOMAIN stringTable'
         /\ \A s \in DOMAIN stringTable :
              s \in DOMAIN stringTable' /\ stringTable'[s] = stringTable[s]
         /\ \A s \in DOMAIN stringTable' : stringTable'[s] \in Nat
<1>1. CASE string \in DOMAIN stringTable
  BY <1>1 DEF GetStringID, TableNumbersStrings, mbTable
<1>2. CASE string \notin DOMAIN stringTable
  <2> DEFINE D == DOMAIN stringTable
  <2>1. /\ DOMAIN stringTable' = D \cup {string}
        /\ stringTable'[string] = stringId
        /\ \A s \in D : stringTable'[s] = stringTable[s]
        /\ stringId' = stringId + 1
        /\ stringTable' = [s \in D \cup {string} |-> stringTable'[s]]
    BY <1>2 DEF GetStringID
  <2>2. /\ D \subseteq CmdLine /\ IsFiniteSet(D)
        /\ stringId \in Nat /\ stringId = Cardinality(D)
        /\ \A s \in D : stringTable[s] \in 0..stringId - 1
        /\ \A s, t \in D : stringTable[s] = stringTable[t] => s = t
        /\ \A i \in 0..stringId - 1 : \E s \in D : stringTable[s] = i
    BY DEF TableNumbersStrings
  <2>3. IsFiniteSet(D \cup {string}) /\ Cardinality(D \cup {string}) = stringId + 1
    BY <1>2, <2>2, FS_AddElement
  <2> HIDE DEF D
  <2>4. \A s \in D \cup {string} : stringTable'[s] \in 0..stringId
    BY <2>1, <2>2
  <2>5. \A s, t \in D \cup {string} : stringTable'[s] = stringTable'[t] => s = t
    BY <2>1, <2>2
  <2>6. \A i \in 0..stringId : \E s \in D \cup {string} : stringTable'[s] = i
    BY <2>1, <2>2
  <2>7. stringTable' \in [DOMAIN stringTable' -> 0..stringId' - 1]
    BY <2>1, <2>2, <2>4
  <2>8. TableNumbersStrings'
    BY <2>1, <2>2, <2>3, <2>5, <2>6, <2>7 DEF TableNumbersStrings
  <2> QED
    BY <2>1, <2>2, <2>4, <2>8 DEF D
<1> QED
  BY <1>1, <1>2

LEMMA RowsHaveSum ==
  ASSUME NEW rows \in Seq(Row)
  PROVE  /\ Len(rows) \in Nat
         /\ HasAmounts(rows, Len(rows))
         /\ SumOf(rows, Len(rows)) \in Nat
<1>1. Len(rows) \in Nat /\ \A i \in 1..Len(rows) : rows[i] \in Row
  OBVIOUS
<1>2. HasAmounts(rows, Len(rows))
  BY <1>1 DEF HasAmounts, Row
<1>3. PICK f \in [0..Len(rows) -> Nat] :
        SumOf(rows, Len(rows)) = f[Len(rows)]
  BY <1>1, <1>2, SumOfIs
<1> QED
  BY <1>1, <1>2, <1>3

(* A row is appended to those of the metric under way.                     *)
LEMMA RowEmplaced ==
  ASSUME MbIInv, NEW string \in CmdLine, NEW amount \in Nat,
         Emplace(string, amount), mb_entries' = mb_entries,
         NEW n \in Nat, n = Len(mb_rows[mb_metric]),
         RowName(mb_metric, n + 1) = string,
         n + 1 <= TopN => /\ n + 1 <= Len(mb_entries[mb_metric])
                          /\ amount = mb_entries[mb_metric][n + 1].amount
  PROVE  /\ mb_rows' \in [1..2 -> Seq(Row)]
         /\ TableNumbersStrings'
         /\ RowsFollowEntries'
         /\ \A m \in 1..2 : m # mb_metric => mb_rows'[m] = mb_rows[m]
         /\ Len(mb_rows'[mb_metric]) = n + 1
         /\ SumOf(mb_rows'[mb_metric], n + 1)
              = SumOf(mb_rows[mb_metric], n) + amount
<1> DEFINE cur == mb_metric
           row == [sidx |-> stringTable'[string], amount |-> amount]
<1>1. /\ cur \in 1..2 /\ mb_rows \in [1..2 -> Seq(Row)]
      /\ TableNumbersStrings /\ RowsFollowEntries
  BY DEF MbIInv, MbTypeOK
<1>2. /\ TableNumbersStrings'
      /\ string \in DOMAIN stringTable'
      /\ \A s \in DOMAIN stringTable :
           s \in DOMAIN stringTable' /\ stringTable'[s] = stringTable[s]
      /\ stringTable'[string] \in Nat
  BY <1>1, StringNumbered DEF Emplace
<1>3. /\ row \in Row /\ row.sidx = stringTable'[string] /\ row.amount = amount
      /\ mb_rows' = [mb_rows EXCEPT ![cur] = Append(mb_rows[cur], row)]
  BY <1>1, <1>2 DEF Emplace, Row
<1> HIDE DEF cur, row
<1>4. /\ Append(mb_rows[cur], row) \in Seq(Row)
      /\ Len(Append(mb_rows[cur], row)) = n + 1
      /\ Append(mb_rows[cur], row)[n + 1] = row
      /\ \A i \in 1..n : Append(mb_rows[cur], row)[i] = mb_rows[cur][i]
  <2>1. mb_rows[cur] \in Seq(Row) /\ n = Len(mb_rows[cur])
    BY <1>1 DEF cur
  <2> QED
    BY <1>3, <2>1, RowAppended
<1>5. /\ mb_rows' \in [1..2 -> Seq(Row)]
      /\ \A m \in 1..2 : m # cur => mb_rows'[m] = mb_rows[m]
      /\ Len(mb_rows'[cur]) = n + 1
      /\ mb_rows'[cur][n + 1] = row
      /\ \A i \in 1..n : mb_rows'[cur][i] = mb_rows[cur][i]
  BY <1>1, <1>3, <1>4
<1>6. RowsFollowEntries'
  <2>1. ASSUME NEW m \in 1..2, NEW i \in 1..Len(mb_rows'[m])
        PROVE  /\ RowName(m, i) \in DOMAIN stringTable'
               /\ mb_rows'[m][i].sidx = stringTable'[RowName(m, i)]
               /\ i <= TopN =>
                    /\ i <= Len(mb_entries[m])
                    /\ mb_rows'[m][i].amount = mb_entries[m][i].amount
    <3>1. CASE m = cur /\ i = n + 1
      <4>1. RowName(m, i) = string /\ mb_rows'[m][i] = row
        BY <1>5, <3>1 DEF cur
      <4>2. i <= TopN => /\ i <= Len(mb_entries[m])
                         /\ amount = mb_entries[m][i].amount
        BY <3>1 DEF cur
      <4> QED
        BY <1>2, <1>3, <4>1, <4>2
    <3>2. CASE ~(m = cur /\ i = n + 1)
      <4>1. i \in 1..Len(mb_rows[m]) /\ mb_rows'[m][i] = mb_rows[m][i]
        <5>1. CASE m = cur
          <6>1. i \in 1..n
            BY <1>5, <3>2, <5>1
          <6> QED
            BY <1>5, <5>1, <6>1 DEF cur
        <5>2. CASE m # cur
          BY <1>5, <5>2
        <5> QED
          BY <5>1, <5>2
      <4>2. /\ RowName(m, i) \in DOMAIN stringTable
            /\ mb_rows[m][i].sidx = stringTable[RowName(m, i)]
            /\ i <= TopN =>
                 /\ i <= Len(mb_entries[m])
                 /\ mb_rows[m][i].amount = mb_entries[m][i].amount
        BY <1>1, <4>1 DEF RowsFollowEntries
      <4> QED
        BY <1>2, <4>1, <4>2
    <3> QED
      BY <3>1, <3>2
  <2>2. \A m, i : RowName(m, i)' = RowName(m, i)
    BY DEF RowName
  <2> QED
    BY <2>1, <2>2 DEF RowsFollowEntries
<1>7. SumOf(mb_rows'[cur], n + 1) = SumOf(mb_rows[cur], n) + amount
  <2>1. HasAmounts(mb_rows'[cur], n + 1)
    <3>1. mb_rows'[cur] \in Seq(Row)
      BY <1>1, <1>5
    <3> QED
      BY <1>5, <3>1, RowsHaveSum
  <2>2. /\ HasAmounts(mb_rows'[cur], n)
        /\ SameAmounts(mb_rows'[cur], mb_rows[cur], n)
    BY <1>5, <2>1 DEF HasAmounts, SameAmounts
  <2>3. SumOf(mb_rows'[cur], n) = SumOf(mb_rows[cur], n)
    BY <2>2, SumOfSame
  <2>4. SumOf(mb_rows'[cur], n + 1)
          = SumOf(mb_rows'[cur], n) + mb_rows'[cur][n + 1].amount
    BY <2>1, SumOfNext
  <2>5. mb_rows'[cur][n + 1].amount = amount
    BY <1>3, <1>5
  <2> QED
    BY <2>3, <2>4, <2>5
<1> QED
  BY <1>2, <1>5, <1>6, <1>7 DEF cur

(* The state of the loop over the entries.                                 *)
LEMMA LoopState ==
  ASSUME MbIInv, mb_pc = "rows"
  PROVE  /\ mb_metric \in 1..2
         /\ mb_next \in Nat /\ mb_next >= 1
         /\ others \in Nat
         /\ Len(entries) \in Nat
         /\ entries \in Seq(Entry)
         /\ entries = mb_entries[mb_metric]
         /\ mb_next <= Len(entries) + 1
         /\ Len(mb_rows[mb_metric]) =
              IF mb_next - 1 <= TopN THEN mb_next - 1 ELSE TopN
         /\ mb_next - 1 <= TopN => others = 0
         /\ SumOf(mb_rows[mb_metric], Len(mb_rows[mb_metric])) + others
              = SumOf(entries, mb_next - 1)
         /\ HasAmounts(entries, Len(entries))
<1>1. entries \in Seq(Entry)
  BY DEF MbIInv, MbTypeOK
<1>2. HasAmounts(entries, Len(entries))
  BY <1>1, MbConstants DEF HasAmounts
<1>3. /\ mb_metric \in 1..2
      /\ mb_next \in Nat /\ mb_next >= 1
      /\ others \in Nat
  BY DEF MbIInv, MbTypeOK
<1> QED
  BY <1>1, <1>2, <1>3 DEF MbIInv, RowsUnderWay

LEMMA MbAdds ==
  ASSUME MbIInv, AddEntry
  PROVE  MbIInv'
<1> DEFINE cur == mb_metric
           n == mb_next
<1>1. /\ mb_pc = "rows" /\ mb_pc' = "rows"
      /\ n <= Len(entries)
      /\ mb_next' = n + 1
      /\ UNCHANGED <<mb_metric, entries, mb_strings, mb_entries>>
  BY DEF AddEntry
<1>2. /\ cur \in 1..2
      /\ n \in Nat /\ n >= 1
      /\ n \in 1..Len(entries)
      /\ entries[n] \in Entry
      /\ entries[n].cmdline \in CmdLine /\ entries[n].amount \in Nat
      /\ entries = mb_entries[cur]
      /\ TopN \in Nat
  BY <1>1, LoopState, MbConstants
<1>3. SumOf(entries, n) = SumOf(entries, n - 1) + entries[n].amount
  <2>1. n - 1 \in Nat /\ HasAmounts(entries, n - 1 + 1)
    BY <1>1, <1>2, LoopState DEF HasAmounts
  <2>2. SumOf(entries, n - 1 + 1)
          = SumOf(entries, n - 1) + entries[n - 1 + 1].amount
    BY <2>1, SumOfNext
  <2>3. n - 1 + 1 = n
    BY <1>2
  <2> QED
    BY <2>2, <2>3
<1>4. CASE n > TopN
  <2>1. /\ others' = others + entries[n].amount
        /\ UNCHANGED <<mb_rows, stringTable, stringId>>
    BY <1>4 DEF AddEntry, IsOthers, mbTable
  <2>2. /\ others \in Nat
        /\ Len(mb_rows[cur]) = TopN
        /\ SumOf(mb_rows[cur], Len(mb_rows[cur])) + others
             = SumOf(entries, n - 1)
    BY <1>1, <1>2, <1>4, LoopState
  <2>3. SumOf(mb_rows[cur], TopN) \in Nat
    <3>1. mb_rows[cur] \in Seq(Row)
      BY <1>2 DEF MbIInv, MbTypeOK
    <3> QED
      BY <2>2, <3>1, RowsHaveSum
  <2>4. RowsUnderWay'
    <3>1. n <= Len(entries) + 1 /\ n + 1 - 1 = n /\ ~(n <= TopN)
          /\ n + 1 <= Len(entries) + 1
      BY <1>1, <1>2, <1>4
    <3>2. SumOf(mb_rows[cur], TopN) + (others + entries[n].amount)
            = SumOf(entries, n)
      BY <1>2, <1>3, <2>2, <2>3
    <3> QED
      BY <1>1, <1>2, <2>1, <2>2, <3>1, <3>2 DEF RowsUnderWay
  <2>5. MbTypeOK'
    BY <1>1, <1>2, <2>1, <2>2 DEF MbIInv, MbTypeOK
  <2>6. TableNumbersStrings' /\ EntriesSorted' /\ RowsFollowEntries'
    BY <1>1, <2>1 DEF MbIInv, TableNumbersStrings, EntriesSorted,
       RowsFollowEntries, RowName
  <2>7. MetricsInOrder' /\ TableEncoded'
    BY <1>1, <2>1 DEF MbIInv, MetricsInOrder, RowsComplete, TableEncoded
  <2> QED
    BY <2>4, <2>5, <2>6, <2>7 DEF MbIInv
<1>5. CASE ~(n > TopN)
  <2>1. /\ Emplace(entries[n].cmdline, entries[n].amount)
        /\ others' = others
    BY <1>5 DEF AddEntry, IsOthers
  <2>2. /\ others = 0
        /\ Len(mb_rows[cur]) = n - 1 /\ n - 1 \in Nat
        /\ SumOf(mb_rows[cur], n - 1) + others = SumOf(entries, n - 1)
    BY <1>1, <1>2, <1>5, LoopState
  <2>3. /\ n - 1 + 1 = n
        /\ RowName(cur, n) = entries[n].cmdline
        /\ n <= Len(mb_entries[cur])
        /\ entries[n].amount = mb_entries[cur][n].amount
    BY <1>1, <1>2, <1>5 DEF RowName
  <2> HIDE DEF n
  <2>4. /\ mb_rows' \in [1..2 -> Seq(Row)]
        /\ TableNumbersStrings'
        /\ RowsFollowEntries'
        /\ \A m \in 1..2 : m # cur => mb_rows'[m] = mb_rows[m]
        /\ Len(mb_rows'[cur]) = n
        /\ SumOf(mb_rows'[cur], n)
             = SumOf(mb_rows[cur], n - 1) + entries[n].amount
    BY <1>1, <1>2, <2>1, <2>2, <2>3, RowEmplaced
  <2>5. SumOf(mb_rows[cur], n - 1) \in Nat
    <3>1. mb_rows[cur] \in Seq(Row)
      BY <1>2 DEF MbIInv, MbTypeOK
    <3> QED
      BY <2>2, <3>1, RowsHaveSum
  <2>6. RowsUnderWay'
    <3>1. SumOf(mb_rows'[cur], n) + 0 = SumOf(entries, n)
      BY <1>2, <1>3, <2>2, <2>4, <2>5
    <3>2. /\ n + 1 <= Len(entries) + 1
          /\ n + 1 - 1 = n /\ n <= TopN
      BY <1>1, <1>2, <1>5, LoopState
    <3> QED
      BY <1>1, <1>2, <2>1, <2>2, <2>4, <3>1, <3>2 DEF RowsUnderWay
  <2>7. MbTypeOK'
    BY <1>1, <1>2, <2>1, <2>4 DEF MbIInv, MbTypeOK
  <2>8. EntriesSorted' /\ TableEncoded'
    BY <1>1 DEF MbIInv, EntriesSorted, TableEncoded
  <2>9. MetricsInOrder'
    BY <1>1, <1>2, <2>4 DEF MbIInv, MetricsInOrder, RowsComplete
  <2> QED
    BY <2>4, <2>6, <2>7, <2>8, <2>9 DEF MbIInv
<1> QED
  BY <1>4, <1>5

LEMMA MbFinishes ==
  ASSUME MbIInv, FinishMetric
  PROVE  MbIInv'
<1> DEFINE cur == mb_metric
           rows == mb_rows[mb_metric]
           last == Len(entries)
<1>1. /\ mb_pc = "rows" /\ mb_next > last
      /\ entries' = <<>>
      /\ UNCHANGED <<mb_next, others, mb_strings, mb_entries>>
      /\ \/ cur = 1 /\ mb_metric' = 2 /\ mb_pc' = "read"
         \/ cur = 2 /\ mb_metric' = 2 /\ mb_pc' = "encode"
  <2>1. mb_pc = "rows" /\ mb_metric \in 1..2
    BY DEF FinishMetric, MbIInv, MbTypeOK
  <2> QED
    BY <2>1, MbConstants DEF FinishMetric
<1>2. /\ cur \in 1..2 /\ last \in Nat /\ TopN \in Nat
      /\ mb_next \in Nat /\ mb_next - 1 = last
      /\ others \in Nat
      /\ entries = mb_entries[cur]
      /\ Len(rows) = IF last <= TopN THEN last ELSE TopN
      /\ last <= TopN => others = 0
      /\ SumOf(rows, Len(rows)) + others = SumOf(entries, last)
  <2>1. mb_next - 1 = last
    BY <1>1, LoopState
  <2> QED
    BY <1>1, <2>1, LoopState, MbConstants
<1>3. rows \in Seq(Row) /\ SumOf(rows, Len(rows)) \in Nat
  <2>1. rows \in Seq(Row)
    BY <1>2 DEF MbIInv, MbTypeOK
  <2> HIDE DEF rows
  <2> QED
    BY <2>1, RowsHaveSum
<1>4. /\ mb_rows' \in [1..2 -> Seq(Row)]
      /\ TableNumbersStrings'
      /\ RowsFollowEntries'
      /\ \A m \in 1..2 : m # cur => mb_rows'[m] = mb_rows[m]
      /\ Len(mb_rows'[cur]) = IF last > TopN THEN TopN + 1 ELSE last
      /\ SumOf(mb_rows'[cur], Len(mb_rows'[cur])) = SumOf(entries, last)
  <2>1. CASE last > TopN
    <3>1. Emplace(Others, others)
      BY <2>1 DEF FinishMetric
    <3>2. /\ Len(rows) = TopN
          /\ RowName(cur, TopN + 1) = Others
          /\ ~(TopN + 1 <= TopN)
          /\ Others \in CmdLine
      BY <1>2, <2>1, MbConstants DEF RowName
    <3>3. /\ mb_rows' \in [1..2 -> Seq(Row)]
          /\ TableNumbersStrings'
          /\ RowsFollowEntries'
          /\ \A m \in 1..2 : m # cur => mb_rows'[m] = mb_rows[m]
          /\ Len(mb_rows'[cur]) = TopN + 1
          /\ SumOf(mb_rows'[cur], TopN + 1) = SumOf(rows, TopN) + others
      BY <1>1, <1>2, <3>1, <3>2, RowEmplaced
    <3> QED
      BY <1>2, <2>1, <3>2, <3>3
  <2>2. CASE ~(last > TopN)
    <3>1. UNCHANGED <<mb_rows, stringTable, stringId, mb_entries>>
      BY <2>2 DEF FinishMetric, mbTable
    <3>2. last <= TopN /\ others = 0 /\ Len(rows) = last
      BY <1>2, <2>2
    <3>3. SumOf(rows, Len(rows)) = SumOf(entries, last)
      BY <1>2, <1>3, <3>2
    <3>4. /\ mb_rows \in [1..2 -> Seq(Row)]
          /\ TableNumbersStrings /\ RowsFollowEntries
      BY DEF MbIInv, MbTypeOK
    <3>5. TableNumbersStrings' /\ RowsFollowEntries'
      BY <3>1, <3>4 DEF TableNumbersStrings, RowsFollowEntries, RowName
    <3> QED
      BY <2>2, <3>1, <3>2, <3>3, <3>4, <3>5
  <2> QED
    BY <2>1, <2>2
<1>5. /\ mb_metric = 1 => RowsComplete(1)'
      /\ mb_metric = 2 => RowsComplete(2)'
  <2>1. mb_entries'[cur] = entries
    BY <1>1, <1>2
  <2> QED
    BY <1>4, <2>1 DEF RowsComplete
<1>6. MbTypeOK'
  <2>1. /\ entries' \in Seq(Entry)
        /\ mb_pc' \in {"read", "encode"} /\ mb_metric' \in 1..2
    BY <1>1
  <2> QED
    BY <1>1, <1>4, <2>1 DEF MbIInv, MbTypeOK
<1>7. EntriesSorted' /\ RowsUnderWay' /\ TableEncoded'
  BY <1>1 DEF MbIInv, EntriesSorted, RowsUnderWay, TableEncoded
<1>8. MetricsInOrder'
  <2>1. CASE mb_metric = 1
    <3>1. mb_rows'[2] = mb_rows[2] /\ Len(mb_rows[2]) = 0
      BY <1>4, <2>1 DEF MbIInv, MetricsInOrder
    <3> QED
      BY <1>1, <1>5, <2>1, <3>1 DEF MetricsInOrder
  <2>2. CASE mb_metric = 2
    <3>1. mb_rows'[1] = mb_rows[1] /\ RowsComplete(1)
      BY <1>4, <2>2 DEF MbIInv, MetricsInOrder
    <3>2. RowsComplete(1)'
      BY <1>1, <3>1 DEF RowsComplete
    <3> QED
      BY <1>1, <1>5, <2>2, <3>2 DEF MetricsInOrder
  <2> QED
    BY <1>2, <2>1, <2>2
<1> QED
  BY <1>4, <1>6, <1>7, <1>8 DEF MbIInv

LEMMA MbEncodes ==
  ASSUME MbIInv, Encode
  PROVE  MbIInv'
<1>1. /\ mb_pc = "encode" /\ mb_pc' = "session"
      /\ UNCHANGED <<mb_metric, entries, mb_next, others, mb_rows,
                     stringTable, stringId, mb_entries>>
  BY DEF Encode, mbLoop, mbTable
<1>2. ASSUME NEW s \in DOMAIN stringTable
      PROVE  mb_strings'[stringTable[s] + 1] = s
  <2>1. /\ stringId \in Nat /\ stringId = Cardinality(DOMAIN stringTable)
        /\ stringTable[s] \in 0..stringId - 1
        /\ \A t \in DOMAIN stringTable :
             stringTable[t] = stringTable[s] => t = s
    BY DEF MbIInv, TableNumbersStrings
  <2>2. stringTable[s] + 1 \in 1..stringId /\ stringTable[s] + 1 - 1 = stringTable[s]
    BY <2>1
  <2>3. mb_strings'[stringTable[s] + 1]
          = CHOOSE t \in DOMAIN stringTable :
              stringTable[t] = stringTable[s] + 1 - 1
    BY <2>1, <2>2 DEF Encode
  <2> QED
    BY <2>1, <2>2, <2>3
<1>3. TableEncoded'
  BY <1>1, <1>2 DEF TableEncoded
<1>4. MbTypeOK' /\ TableNumbersStrings' /\ EntriesSorted' /\ RowsFollowEntries'
  BY <1>1 DEF MbIInv, MbTypeOK, TableNumbersStrings, EntriesSorted,
     RowsFollowEntries, RowName
<1>5. RowsUnderWay' /\ MetricsInOrder'
  BY <1>1 DEF MbIInv, RowsUnderWay, MetricsInOrder, RowsComplete
<1> QED
  BY <1>3, <1>4, <1>5 DEF MbIInv

(* Sorted neighbours are a sorted list.                                    *)
LEMMA SortedThroughout ==
  ASSUME NEW list \in Seq(Entry), NEW i \in 1..Len(list),
         \A k \in 1..Len(list) - 1 : RanksBefore(list[k], list[k + 1])
  PROVE  \A j \in i..Len(list) : list[i].amount >= list[j].amount
<1> DEFINE S == {j \in i..Len(list) : ~(list[i].amount >= list[j].amount)}
<1>1. SUFFICES ASSUME S # {}
               PROVE  FALSE
  OBVIOUS
<1>2. PICK j \in S : \A k \in S : j <= k
  <2>1. S \in SUBSET Nat
    OBVIOUS
  <2> HIDE DEF S
  <2> QED
    BY <1>1, <2>1, LeastNumber
<1>3. \A k \in 1..Len(list) : list[k].amount \in Nat
  BY MbConstants
<1>4. j # i
  BY <1>2, <1>3
<1>5. /\ j - 1 \in i..Len(list) /\ j - 1 \notin S
      /\ j - 1 \in 1..Len(list) - 1 /\ j - 1 + 1 = j
  BY <1>2, <1>4
<1>6. /\ list[i].amount >= list[j - 1].amount
      /\ list[j - 1].amount >= list[j].amount
  <2>1. RanksBefore(list[j - 1], list[j])
    BY <1>5
  <2> QED
    BY <1>2, <1>3, <1>5, <2>1 DEF RanksBefore
<1> QED
  BY <1>2, <1>3, <1>5, <1>6

LEMMA MbInvariance == MbSpec => []MbIInv
<1>1. MbInit => MbIInv
  BY MbInitial
<1>2. MbIInv /\ [MbNext]_mbVars => MbIInv'
  <2> SUFFICES ASSUME MbIInv, [MbNext]_mbVars
               PROVE  MbIInv'
    OBVIOUS
  <2>1. CASE OpenBlob \/ CloseBlob
    BY <2>1, MbCleared DEF OpenBlob, CloseBlob
  <2>2. CASE UNCHANGED mbVars
    BY <2>2 DEF mbVars, mbLoop, mbTable, MbIInv, MbTypeOK,
       TableNumbersStrings, EntriesSorted, RowsFollowEntries, RowName,
       RowsUnderWay, MetricsInOrder, RowsComplete, TableEncoded
  <2> QED
    BY <2>1, <2>2, MbReads, MbAdds, MbFinishes, MbEncodes DEF MbNext
<1> QED
  BY <1>1, <1>2, PTL DEF MbSpec

(* Every row of the blob has the command line of its process, the totals   *)
(* are those of what was read, and the rows of their own those that use    *)
(* most, for any number of processes, command lines and rows.              *)
THEOREM BlobIsTrue == MbSpec => []BlobSaysWhatWasRead
<1>1. MbIInv => BlobSaysWhatWasRead
  <2> SUFFICES ASSUME MbIInv, mb_pc = "session"
               PROVE  BlobSaysWhatWasRead
    BY DEF BlobSaysWhatWasRead, RowsDecode, TotalsConserved, TopRowsShown
  <2>1. \A m \in 1..2 : RowsComplete(m)
    BY DEF MbIInv, MetricsInOrder
  <2>2. RowsDecode
    <3>1. ASSUME NEW m \in 1..2, NEW i \in DOMAIN mb_rows[m]
          PROVE  NameOf(m, i) = RowName(m, i)
      <4>1. mb_rows[m] \in Seq(Row)
        BY DEF MbIInv, MbTypeOK
      <4>2. i \in 1..Len(mb_rows[m])
        BY <4>1
      <4>3. /\ RowName(m, i) \in DOMAIN stringTable
            /\ mb_rows[m][i].sidx = stringTable[RowName(m, i)]
        BY <4>2 DEF MbIInv, RowsFollowEntries
      <4> QED
        BY <4>3 DEF NameOf, MbIInv, TableEncoded
    <3> QED
      BY <3>1, MbConstants DEF RowsDecode, RowName
  <2>3. TotalsConserved
    BY <2>1, MbConstants DEF TotalsConserved, RowsComplete
  <2>4. TopRowsShown
    <3>1. ASSUME NEW m \in 1..2
          PROVE  /\ Len(mb_rows[m]) <= TopN + 1
                 /\ \A i \in 1..Shown(m) :
                      \A j \in (Shown(m) + 1)..Len(mb_entries[m]) :
                        mb_rows[m][i].amount >= mb_entries[m][j].amount
      <4>1. /\ mb_entries[m] \in Seq(Entry)
            /\ Len(mb_entries[m]) \in Nat
            /\ TopN \in Nat
        BY MbConstants DEF MbIInv, MbTypeOK
      <4>2. Len(mb_rows[m]) = IF Len(mb_entries[m]) > TopN THEN TopN + 1
                              ELSE Len(mb_entries[m])
        BY <2>1 DEF RowsComplete
      <4>3. ASSUME NEW i \in 1..Shown(m),
                   NEW j \in (Shown(m) + 1)..Len(mb_entries[m])
            PROVE  mb_rows[m][i].amount >= mb_entries[m][j].amount
        <5>1. /\ i \in 1..Len(mb_rows[m]) /\ i <= TopN
              /\ i \in 1..Len(mb_entries[m])
              /\ j \in i..Len(mb_entries[m])
          BY <4>1, <4>2 DEF Shown
        <5>2. mb_rows[m][i].amount = mb_entries[m][i].amount
          BY <5>1 DEF MbIInv, RowsFollowEntries
        <5>3. mb_entries[m][i].amount >= mb_entries[m][j].amount
          <6>1. \A k \in 1..Len(mb_entries[m]) - 1 :
                  RanksBefore(mb_entries[m][k], mb_entries[m][k + 1])
            BY DEF MbIInv, EntriesSorted
          <6> QED
            BY <4>1, <5>1, <6>1, SortedThroughout
        <5> QED
          BY <5>2, <5>3
      <4> QED
        BY <4>1, <4>2, <4>3
    <3> QED
      BY <3>1, MbConstants DEF TopRowsShown
  <2> QED
    BY <2>2, <2>3, <2>4 DEF BlobSaysWhatWasRead
<1> QED
  BY <1>1, MbInvariance, PTL
===============================================================================
