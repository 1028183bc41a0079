------------------------- MODULE PhosphorConfig_proofs ------------------------
(***************************************************************************)
(* PhosphorConfig for every set of addresses: the inductive invariant      *)
(* NcIInv, and from it what a call of set_mac_addr() or set_nic_hostless() *)
(* leaves behind.                                                          *)
(***************************************************************************)
EXTENDS PhosphorConfig, TLAPS

USE NetMacAssumption

LEMMA NcInitInvariant == NcInit => NcIInv
  BY DEF NcInit, NcIInv, NcTypeOK, SuccessMeansAddress, FlagsSurvive,
         ModeApplied, NicMode

(* The actions of set_mac_addr() and those that leave the mode alone keep  *)
(* what the invariant says of the mode.                                    *)
ModePart ==
  /\ target \in NicMode \cup {"none"}
  /\ was_nic_hostless \in NicMode \cup {"unset"}
  /\ reported_mode \in NicMode \cup {"unset"}
  /\ start_failed \in BOOLEAN
  /\ starts \in BOOLEAN
  /\ ~start_failed =>
       /\ was_nic_hostless = reported_mode
       /\ was_nic_hostless # "unset" => target = was_nic_hostless
  /\ ModeApplied

LEMMA ModeStep == ModePart /\ [NcNext]_ncVars => ModePart'
<1> SUFFICES ASSUME ModePart, [NcNext]_ncVars PROVE ModePart'
  OBVIOUS
<1> USE DEF ModePart, ModeApplied, NicMode
<1>1. ASSUME UNCHANGED ncMode PROVE ModePart'
  BY <1>1 DEF ncMode
<1>2. ASSUME NEW mode \in NicMode, SampleMode(mode) PROVE ModePart'
  BY <1>2 DEF SampleMode, NeedsStart, StartUnit, StartUnitFails
<1>3. CASE RestartDaemon
  BY <1>3 DEF RestartDaemon
<1>4. CASE UNCHANGED ncVars
  BY <1>4, <1>1 DEF ncVars
<1>5. ASSUME NEW mac \in NetMac, SetMacAddr(mac) PROVE ModePart'
  BY <1>5, <1>1 DEF SetMacAddr
<1>6. CASE NcStep
  BY <1>6, <1>1 DEF NcStep, WriteNetfile, SetDirectly, ReadFlags, BringDown,
                    SetWhileDown, BringUp
<1>7. CASE NetworkManager
  BY <1>7, <1>1 DEF NetworkManager
<1> QED
  BY <1>2, <1>3, <1>4, <1>5, <1>6, <1>7 DEF NcNext, NcDaemon

(* What the invariant says of the interface, the drop-in file and the call. *)
LinkTypes ==
  /\ iface_mac \in NetMac
  /\ iface_flags \in SUBSET Flag
  /\ netfile \in NetMac \cup {NoNetMac, TornFile}
  /\ shared_host_mac \in NetMac \cup {NoNetMac}
  /\ nc_pc \in {"idle", "file", "direct", "flags", "down", "address", "up"}
  /\ requested \in NetMac \cup {NoNetMac}
  /\ nc_pc # "idle" => requested \in NetMac
  /\ flags_copy \in SUBSET Flag
  /\ nc_ret \in {0, -1}
  /\ flags_before \in SUBSET Flag
  /\ undisturbed \in BOOLEAN
  /\ all_well \in BOOLEAN

AddressPart ==
  /\ nc_pc \notin {"idle", "file"} => netfile = requested
  /\ nc_pc = "up" => iface_mac = requested
  /\ all_well /\ shared_host_mac # NoNetMac /\ nc_pc # "up" =>
       shared_host_mac = iface_mac
  /\ SuccessMeansAddress

FlagsPart ==
  /\ undisturbed =>
       /\ nc_pc \in {"file", "direct", "flags", "down"} =>
            iface_flags = flags_before
       /\ nc_pc \in {"down", "address", "up"} => flags_copy = flags_before
  /\ FlagsSurvive

LEMMA PartsMakeInvariant ==
  NcIInv <=> ModePart /\ LinkTypes /\ AddressPart /\ FlagsPart
  BY DEF NcIInv, NcTypeOK, ModePart, LinkTypes, AddressPart, FlagsPart

LEMMA TypeStep == LinkTypes /\ [NcNext]_ncVars => LinkTypes'
<1> SUFFICES ASSUME LinkTypes, [NcNext]_ncVars PROVE LinkTypes'
  OBVIOUS
<1> USE DEF LinkTypes, ncWorld, ncMac, ncHistory, CallReturns, CallGoesTo
<1>1. ASSUME NEW mode \in NicMode, SampleMode(mode) PROVE LinkTypes'
  BY <1>1 DEF SampleMode
<1>2. ASSUME NEW mac \in NetMac, SetMacAddr(mac) PROVE LinkTypes'
  BY <1>2 DEF SetMacAddr, GetMac, GetMacFails, VisibleMac
<1>3. CASE WriteNetfile
  BY <1>3 DEF WriteNetfile
<1>4. CASE SetDirectly
  BY <1>4 DEF SetDirectly, CallSucceeds
<1>5. CASE ReadFlags
  BY <1>5 DEF ReadFlags
<1>6. CASE BringDown
  BY <1>6 DEF BringDown
<1>7. CASE SetWhileDown
  BY <1>7 DEF SetWhileDown
<1>8. CASE BringUp
  BY <1>8 DEF BringUp, CallSucceeds, FlagsWrittenBack, Flag
<1>9. CASE RestartDaemon
  BY <1>9 DEF RestartDaemon
<1>10. CASE NetworkManager
  BY <1>10 DEF NetworkManager
<1>11. CASE UNCHANGED ncVars
  BY <1>11 DEF ncVars
<1> QED
  BY <1>1, <1>2, <1>3, <1>4, <1>5, <1>6, <1>7, <1>8, <1>9, <1>10, <1>11
     DEF NcNext, NcDaemon, NcStep

LEMMA AddressStep ==
  LinkTypes /\ AddressPart /\ [NcNext]_ncVars => AddressPart'
<1> SUFFICES ASSUME LinkTypes, AddressPart, [NcNext]_ncVars PROVE AddressPart'
  OBVIOUS
<1> USE DEF LinkTypes, AddressPart, SuccessMeansAddress, ncWorld, ncMac,
            ncHistory, CallReturns, CallGoesTo
<1>1. ASSUME NEW mode \in NicMode, SampleMode(mode) PROVE AddressPart'
  BY <1>1 DEF SampleMode
<1>2. ASSUME NEW mac \in NetMac, SetMacAddr(mac) PROVE AddressPart'
  BY <1>2 DEF SetMacAddr, GetMac, GetMacFails, VisibleMac
<1>3. CASE WriteNetfile
  BY <1>3 DEF WriteNetfile
<1>4. CASE SetDirectly
  BY <1>4 DEF SetDirectly, CallSucceeds
<1>5. CASE ReadFlags
  BY <1>5 DEF ReadFlags
<1>6. CASE BringDown
  BY <1>6 DEF BringDown
<1>7. CASE SetWhileDown
  BY <1>7 DEF SetWhileDown
<1>8. CASE BringUp
  <2>1. /\ iface_mac = requested /\ UNCHANGED <<iface_mac, netfile, requested>>
        /\ nc_pc' = "idle"
    BY <1>8 DEF BringUp, CallSucceeds
  <2>2. CASE CallSucceeds
    BY <2>1, <2>2 DEF CallSucceeds
  <2>3. CASE CallReturns(-1)
    <3>1. -1 # 0 /\ nc_ret' = -1
      BY <2>3
    <3>2. all_well' = FALSE
      BY <2>3, <3>1, Zenon
    <3> QED
      BY <2>1, <3>1, <3>2
  <2> QED
    BY <1>8, <2>2, <2>3 DEF BringUp
<1>9. CASE RestartDaemon
  BY <1>9 DEF RestartDaemon
<1>10. CASE NetworkManager
  BY <1>10 DEF NetworkManager
<1>11. CASE UNCHANGED ncVars
  BY <1>11 DEF ncVars
<1> QED
  BY <1>1, <1>2, <1>3, <1>4, <1>5, <1>6, <1>7, <1>8, <1>9, <1>10, <1>11
     DEF NcNext, NcDaemon, NcStep

LEMMA FlagsStep ==
  LinkTypes /\ FlagsPart /\ [NcNext]_ncVars => FlagsPart'
<1> SUFFICES ASSUME LinkTypes, FlagsPart, [NcNext]_ncVars PROVE FlagsPart'
  OBVIOUS
<1> USE DEF LinkTypes, FlagsPart, FlagsSurvive, ncWorld, ncMac, ncHistory,
            CallReturns, CallGoesTo
<1>1. ASSUME NEW mode \in NicMode, SampleMode(mode) PROVE FlagsPart'
  BY <1>1 DEF SampleMode
<1>2. ASSUME NEW mac \in NetMac, SetMacAddr(mac) PROVE FlagsPart'
  BY <1>2 DEF SetMacAddr
<1>3. CASE WriteNetfile
  BY <1>3 DEF WriteNetfile
<1>4. CASE SetDirectly
  BY <1>4 DEF SetDirectly, CallSucceeds
<1>5. CASE ReadFlags
  BY <1>5 DEF ReadFlags
<1>6. CASE BringDown
  BY <1>6 DEF BringDown
<1>7. CASE SetWhileDown
  BY <1>7 DEF SetWhileDown
<1>8. CASE BringUp
  BY <1>8 DEF BringUp, CallSucceeds, FlagsWrittenBack
<1>9. CASE RestartDaemon
  BY <1>9 DEF RestartDaemon
<1>10. CASE NetworkManager
  BY <1>10 DEF NetworkManager
<1>11. CASE UNCHANGED ncVars
  BY <1>11 DEF ncVars
<1> QED
  BY <1>1, <1>2, <1>3, <1>4, <1>5, <1>6, <1>7, <1>8, <1>9, <1>10, <1>11
     DEF NcNext, NcDaemon, NcStep

-------------------------------------------------------------------------------
(* In every reachable state the point the call of set_mac_addr() has come  *)
(* to tells what interface, drop-in file and cache hold, whichever kernel  *)
(* calls fail, whenever the daemon ends or the interface is changed.       *)
THEOREM NcInvariance == NcSpec => []NcIInv
<1>1. NcIInv /\ [NcNext]_ncVars => NcIInv'
  <2> SUFFICES ASSUME NcIInv, [NcNext]_ncVars PROVE NcIInv'
    OBVIOUS
  <2>1. ModePart /\ LinkTypes /\ AddressPart /\ FlagsPart
    BY PartsMakeInvariant
  <2>2. ModePart' /\ LinkTypes' /\ AddressPart' /\ FlagsPart'
    BY <2>1, ModeStep, TypeStep, AddressStep, FlagsStep
  <2> QED
    BY <2>2 DEF NcIInv, NcTypeOK, ModePart, LinkTypes, AddressPart, FlagsPart
<1> QED
  BY <1>1, NcInitInvariant, PTL DEF NcSpec

(* A call of set_mac_addr() that returned 0 left its address on the        *)
(* interface, as long as all calls succeeded and nobody else interfered.   *)
THEOREM NcSuccess == NcSpec => []SuccessMeansAddress
<1>1. NcIInv => SuccessMeansAddress
  BY DEF NcIInv
<1> QED
  BY <1>1, NcInvariance, PTL

(* A call that returned 0 has kept the flags of the interface.             *)
THEOREM NcFlags == NcSpec => []FlagsSurvive
<1>1. NcIInv => FlagsSurvive
  BY DEF NcIInv
<1> QED
  BY <1>1, NcInvariance, PTL

(* The target started last is that of the reported mode, unless StartUnit  *)
(* failed since the last one that returned.                                *)
THEOREM NcMode == NcSpec => []ModeApplied
<1>1. NcIInv => ModeApplied
  BY DEF NcIInv
<1> QED
  BY <1>1, NcInvariance, PTL

(* The interface changes its address only to that of the drop-in file.     *)
THEOREM NcPersisted == NcSpec => AddressPersisted
<1>1. NcIInv /\ [NcNext]_ncVars
        => [iface_mac' # iface_mac => netfile' = iface_mac']_ncVars
  <2> SUFFICES ASSUME NcIInv, [NcNext]_ncVars, iface_mac' # iface_mac
               PROVE  netfile' = iface_mac'
    OBVIOUS
  <2>1. nc_pc \notin {"idle", "file"} => netfile = requested
    BY DEF NcIInv
  <2>2. SetDirectly \/ SetWhileDown \/ NetworkManager
    BY DEF NcNext, NcDaemon, NcStep, SetMacAddr, WriteNetfile, ReadFlags,
           BringDown, BringUp, SampleMode, RestartDaemon, ncWorld, ncVars
  <2> QED
    BY <2>1, <2>2 DEF SetDirectly, SetWhileDown, NetworkManager
<1> QED
  BY <1>1, NcInvariance, PTL DEF NcSpec, AddressPersisted

(* Through a call, whichever of its steps fail, the next get_mac_addr()    *)
(* returns the address it would have returned before, or the requested one.*)
THEOREM NcMovesOnly == NcSpec => MovesOnlyToRequested
<1>1. NcIInv /\ [NcNext]_ncVars
        => [NcDaemon => VisibleMac' \in {VisibleMac, requested'}]_ncVars
  <2> SUFFICES ASSUME NcIInv, NcDaemon
               PROVE  VisibleMac' \in {VisibleMac, requested'}
    OBVIOUS
  <2> USE DEF VisibleMac, CallReturns, CallGoesTo, ncWorld, ncMac
  <2>1. /\ nc_pc = "up" => iface_mac = requested
        /\ iface_mac \in NetMac
    BY DEF NcIInv, NcTypeOK
  <2>2. ASSUME NEW mac \in NetMac, SetMacAddr(mac)
        PROVE  VisibleMac' \in {VisibleMac, requested'}
    BY <2>1, <2>2 DEF SetMacAddr, GetMac, GetMacFails
  <2>3. ASSUME NEW mode \in NicMode, SampleMode(mode)
        PROVE  VisibleMac' \in {VisibleMac, requested'}
    BY <2>3 DEF SampleMode
  <2>4. CASE WriteNetfile \/ ReadFlags \/ BringDown
    BY <2>4 DEF WriteNetfile, ReadFlags, BringDown
  <2>5. CASE SetDirectly
    BY <2>1, <2>5 DEF SetDirectly, CallSucceeds
  <2>6. CASE SetWhileDown
    BY <2>6 DEF SetWhileDown
  <2>7. CASE BringUp
    BY <2>1, <2>7 DEF BringUp, CallSucceeds
  <2> QED
    BY <2>2, <2>3, <2>4, <2>5, <2>6, <2>7 DEF NcDaemon, NcStep
<1> QED
  BY <1>1, NcInvariance, PTL DEF NcSpec, MovesOnlyToRequested

(* No target is started twice in a row by one daemon, unless StartUnit     *)
(* failed since the last one that returned.                                *)
THEOREM NcNoRetrigger == NcSpec => NoRetrigger
<1>1. NcIInv /\ [NcNext]_ncVars
        => [starts' # starts =>
              \/ target' # target
              \/ was_nic_hostless = "unset"
              \/ start_failed]_ncVars
  <2> SUFFICES ASSUME NcIInv, [NcNext]_ncVars, starts' # starts
               PROVE  \/ target' # target
                      \/ was_nic_hostless = "unset"
                      \/ start_failed
    OBVIOUS
  <2>1. ~start_failed =>
          /\ was_nic_hostless = reported_mode
          /\ was_nic_hostless # "unset" => target = was_nic_hostless
    BY DEF NcIInv
  <2>2. PICK mode \in NicMode : SampleMode(mode)
    BY DEF NcNext, NcDaemon, NcStep, SetMacAddr, WriteNetfile, SetDirectly,
           ReadFlags, BringDown, SetWhileDown, BringUp, RestartDaemon,
           NetworkManager, ncMode, ncVars
  <2> QED
    BY <2>1, <2>2 DEF SampleMode, NeedsStart, StartUnit, StartUnitFails
<1> QED
  BY <1>1, NcInvariance, PTL DEF NcSpec, NoRetrigger
===============================================================================
