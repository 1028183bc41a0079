---------------------------- MODULE PhosphorConfig ----------------------------
(***************************************************************************)
(* net::PhosphorConfig, through which ncsid configures the BMC's own side  *)
(* of the NC-SI link: the address of the interface and the systemd target  *)
(* of the NIC's mode.  A call of set_mac_addr() is a sequence of kernel    *)
(* calls, each of which may fail; between two of them the daemon may be    *)
(* killed, and the network manager may change the interface.               *)
(***************************************************************************)
EXTENDS Integers

CONSTANTS NetMac,      \* addresses an interface may have
          NoNetMac,    \* no cached address, no address in the drop-in file
          TornFile     \* a drop-in file whose writing stopped half way

ASSUME NetMacAssumption == NoNetMac \notin NetMac /\ TornFile \notin NetMac

Flag == {"UP", "MULTICAST"}   \* IFF_UP, and one flag to be left alone
NicMode == {"hostless", "hostful"}

VARIABLES
  \* the kernel's interface, /run and systemd: they survive the daemon
  iface_mac, iface_flags, netfile,
  target,             \* the NIC target started last
  \* the daemon
  shared_host_mac, was_nic_hostless,
  reported_mode,      \* StateMachine::hostless_
  nc_pc,              \* where set_mac_addr() is
  requested,          \* its argument
  flags_copy,
  nc_ret,             \* what the last call returned
  \* history variables, of no effect on the program
  flags_before,       \* the flags when the call started
  undisturbed,        \* nobody else changed the interface during the call
  all_well,           \* every call of this daemon returned 0, and nobody
                      \*   else changed the interface since it started
  start_failed,       \* StartUnit failed since the last one that returned
  starts              \* parity of the number of targets started

ncWorld == <<iface_mac, iface_flags, netfile>>
ncMac == <<shared_host_mac, nc_pc, requested, flags_copy, nc_ret>>
ncMode == <<target, was_nic_hostless, reported_mode, start_failed, starts>>
ncHistory == <<flags_before, undisturbed, all_well>>
ncVars == <<ncWorld, ncMac, ncMode, ncHistory>>

NcTypeOK ==
  /\ iface_mac \in NetMac
  /\ iface_flags \in SUBSET Flag
  /\ netfile \in NetMac \cup {NoNetMac, TornFile}
  /\ shared_host_mac \in NetMac \cup {NoNetMac}
  /\ nc_pc \in {"idle", "file", "direct", "flags", "down", "address", "up"}
  /\ requested \in NetMac \cup {NoNetMac}
  /\ nc_pc # "idle" => requested \in NetMac
  /\ flags_copy \in SUBSET Flag
  /\ nc_ret \in {0, -1}
  /\ flags_before \in SUBSET Flag
  /\ undisturbed \in BOOLEAN
  /\ all_well \in BOOLEAN
  /\ target \in NicMode \cup {"none"}
  /\ was_nic_hostless \in NicMode \cup {"unset"}
  /\ reported_mode \in NicMode \cup {"unset"}
  /\ start_failed \in BOOLEAN
  /\ starts \in BOOLEAN

NcInit ==
  /\ iface_mac \in NetMac
  /\ iface_flags \in SUBSET Flag
  /\ netfile = NoNetMac
  /\ target = "none"
  /\ shared_host_mac = NoNetMac
  /\ was_nic_hostless = "unset"
  /\ reported_mode = "unset"
  /\ nc_pc = "idle"
  /\ requested = NoNetMac
  /\ flags_copy = {}
  /\ nc_ret = 0
  /\ flags_before = iface_flags
  /\ undisturbed = TRUE
  /\ all_well = TRUE
  /\ start_failed = FALSE
  /\ starts = FALSE

-------------------------------------------------------------------------------
(* What the next get_mac_addr() returns if it reads the interface.         *)
VisibleMac == IF shared_host_mac # NoNetMac THEN shared_host_mac ELSE iface_mac

(* get_mac_addr() at the head of set_mac_addr(): the cache, or the         *)
(* interface, which is then cached.  Reading may fail.                     *)
GetMacFails ==
  /\ shared_host_mac = NoNetMac
  /\ UNCHANGED shared_host_mac

GetMac == shared_host_mac' = VisibleMac

CallReturns(ret) ==
  /\ nc_pc' = "idle"
  /\ nc_ret' = ret
  /\ all_well' = (all_well /\ ret = 0)

CallGoesTo(step) ==
  /\ nc_pc' = step
  /\ UNCHANGED <<nc_ret, all_well>>

SetMacAddr(mac) ==
  /\ nc_pc = "idle"
  /\ requested' = mac
  /\ flags_before' = iface_flags
  /\ undisturbed' = TRUE
  /\ \/ GetMac /\ VisibleMac = mac /\ CallReturns(0)
     \/ GetMac /\ VisibleMac # mac /\ CallGoesTo("file")
     \/ GetMacFails /\ CallGoesTo("file")
  /\ UNCHANGED <<ncWorld, ncMode, flags_copy>>

(* Mutant of WriteNetfile: a file that exists is left alone.               *)
WriteNetfileOnce ==
  /\ nc_pc = "file"
  /\ IF netfile = NoNetMac THEN netfile' = requested ELSE UNCHANGED netfile
  /\ CallGoesTo("direct")
  /\ UNCHANGED <<iface_mac, iface_flags, shared_host_mac, requested,
                 flags_copy, flags_before, undisturbed, ncMode>>

(* Mutant of WriteNetfile: a failure drops the cached address.             *)
WriteNetfileUncaches ==
  /\ nc_pc = "file"
  /\ \/ netfile' = requested /\ CallGoesTo("direct") /\ UNCHANGED shared_host_mac
     \/ UNCHANGED netfile /\ CallReturns(-1) /\ shared_host_mac' = NoNetMac
  /\ UNCHANGED <<iface_mac, iface_flags, requested, flags_copy, flags_before,
                 undisturbed, ncMode>>

(* The drop-in file is opened without truncation and written in place.     *)
WriteNetfile ==
  /\ nc_pc = "file"
  /\ \/ netfile' = requested /\ CallGoesTo("direct")
     \/ netfile' \in {netfile, TornFile} /\ CallReturns(-1)
  /\ UNCHANGED <<iface_mac, iface_flags, shared_host_mac, requested,
                 flags_copy, flags_before, undisturbed, ncMode>>

(* Mutant of CallSucceeds: the cache is kept.                              *)
CallSucceedsCached == UNCHANGED shared_host_mac /\ CallReturns(0)

(* The end of a call that succeeded.                                       *)
CallSucceeds ==
  /\ shared_host_mac' = NoNetMac
  /\ CallReturns(0)

(* The socket may not open; the interface may refuse the address.          *)
SetDirectly ==
  /\ nc_pc = "direct"
  /\ \/ iface_mac' = requested /\ CallSucceeds
     \/ UNCHANGED <<iface_mac, shared_host_mac>> /\ CallGoesTo("flags")
     \/ UNCHANGED <<iface_mac, shared_host_mac>> /\ CallReturns(-1)
  /\ UNCHANGED <<iface_flags, netfile, requested, flags_copy, flags_before,
                 undisturbed, ncMode>>

(* SIOCGIFFLAGS.                                                           *)
ReadFlags ==
  /\ nc_pc = "flags"
  /\ \/ flags_copy' = iface_flags /\ CallGoesTo("down")
     \/ UNCHANGED flags_copy /\ CallReturns(-1)
  /\ UNCHANGED <<ncWorld, shared_host_mac, requested, flags_before,
                 undisturbed, ncMode>>

(* SIOCSIFFLAGS without IFF_UP.                                            *)
BringDown ==
  /\ nc_pc = "down"
  /\ \/ iface_flags' = flags_copy \ {"UP"} /\ CallGoesTo("address")
     \/ UNCHANGED iface_flags /\ CallReturns(-1)
  /\ UNCHANGED <<iface_mac, netfile, shared_host_mac, requested, flags_copy,
                 flags_before, undisturbed, ncMode>>

(* SIOCSIFHWADDR on the interface that is down.                            *)
SetWhileDown ==
  /\ nc_pc = "address"
  /\ \/ iface_mac' = requested /\ CallGoesTo("up")
     \/ UNCHANGED iface_mac /\ CallReturns(-1)
  /\ UNCHANGED <<iface_flags, netfile, shared_host_mac, requested, flags_copy,
                 flags_before, undisturbed, ncMode>>

(* Mutant of FlagsWrittenBack: those of ifr.                               *)
FlagsOfIfr == flags_copy \ {"UP"}

(* The flags written back: not those of ifr, which lost IFF_UP.            *)
FlagsWrittenBack == flags_copy \cup {"UP"}

BringUp ==
  /\ nc_pc = "up"
  /\ \/ iface_flags' = FlagsWrittenBack /\ CallSucceeds
     \/ UNCHANGED <<iface_flags, shared_host_mac>> /\ CallReturns(-1)
  /\ UNCHANGED <<iface_mac, netfile, requested, flags_copy, flags_before,
                 undisturbed, ncMode>>

-------------------------------------------------------------------------------
(* set_nic_hostless(): the unit that must be started, if any.              *)
NeedsStart(mode) == was_nic_hostless # mode

(* Mutant of StartUnit: the mode is not remembered.                        *)
StartUnitForgets(mode) ==
  /\ target' = mode
  /\ starts' = ~starts
  /\ start_failed' = FALSE
  /\ UNCHANGED was_nic_hostless

StartUnit(mode) ==
  /\ target' = mode
  /\ was_nic_hostless' = mode
  /\ starts' = ~starts
  /\ start_failed' = FALSE

(* The blocking call throws before or after systemd accepted the job.      *)
StartUnitFails(mode) ==
  /\ \/ target' = mode /\ starts' = ~starts
     \/ UNCHANGED <<target, starts>>
  /\ start_failed' = TRUE
  /\ UNCHANGED was_nic_hostless

(* poll_simple() on a GET_FILTER response: set_nic_hostless() is called    *)
(* when the mode differs from the one before, and its result is ignored.   *)
SampleMode(mode) ==
  /\ nc_pc = "idle"
  /\ IF reported_mode = mode
     THEN UNCHANGED <<target, was_nic_hostless, start_failed, starts>>
     ELSE \/ NeedsStart(mode) /\ StartUnit(mode)
          \/ NeedsStart(mode) /\ StartUnitFails(mode)
          \/ /\ ~NeedsStart(mode)
             /\ UNCHANGED <<target, was_nic_hostless, start_failed, starts>>
  /\ reported_mode' = mode
  /\ UNCHANGED <<ncWorld, ncMac, ncHistory>>

(* The daemon ends at any point and systemd starts it again.               *)
RestartDaemon ==
  /\ shared_host_mac' = NoNetMac
  /\ was_nic_hostless' = "unset"
  /\ reported_mode' = "unset"
  /\ nc_pc' = "idle"
  /\ requested' = NoNetMac
  /\ nc_ret' = 0
  /\ flags_before' = iface_flags
  /\ undisturbed' = TRUE
  /\ all_well' = TRUE
  /\ start_failed' = FALSE
  /\ UNCHANGED <<ncWorld, target, flags_copy, starts>>

(* The network manager configures the link: it applies the drop-in file,   *)
(* and may raise or lower the interface.                                   *)
NetworkManager ==
  /\ iface_mac' \in {iface_mac} \cup ({netfile} \cap NetMac)
  /\ iface_flags' \in SUBSET Flag
  /\ <<iface_mac, iface_flags>>' # <<iface_mac, iface_flags>>
  /\ undisturbed' = FALSE
  /\ all_well' = FALSE
  /\ UNCHANGED <<netfile, ncMac, ncMode, flags_before>>

NcStep ==
  \/ WriteNetfile
  \/ SetDirectly
  \/ ReadFlags
  \/ BringDown
  \/ SetWhileDown
  \/ BringUp

NcDaemon ==
  \/ \E mac \in NetMac : SetMacAddr(mac)
  \/ NcStep
  \/ \E mode \in NicMode : SampleMode(mode)

NcNext == NcDaemon \/ RestartDaemon \/ NetworkManager

NcSpec == NcInit /\ [][NcNext]_ncVars

-------------------------------------------------------------------------------
(* A call that returned 0 left the requested address on the interface, as  *)
(* net_config.h says, although the address is compared with a cached one:  *)
(* as long as no call of this daemon has failed and nobody else has        *)
(* changed the interface.  After a call that failed it need not be so.     *)
SuccessMeansAddress ==
  nc_pc = "idle" /\ requested # NoNetMac /\ nc_ret = 0 /\ all_well =>
    iface_mac = requested

(* A call that returned 0 has kept every flag of the interface, although   *)
(* the retry lowers it on the way and shares one union between flags and   *)
(* address; the only flag it may have added is IFF_UP.                     *)
FlagsSurvive ==
  nc_pc = "idle" /\ nc_ret = 0 /\ undisturbed =>
    /\ flags_before \subseteq iface_flags
    /\ iface_flags \subseteq flags_before \cup {"UP"}

(* The interface takes an address only after the drop-in names it, so that *)
(* a network manager that runs later, even after a crash of the daemon,    *)
(* does not take it back.                                                  *)
AddressPersisted == [][iface_mac' # iface_mac => netfile' = iface_mac']_ncVars

(* What the state machines rely on (NcsiStateMachine!PollL2): whichever    *)
(* steps of a call fail, the address the next get_mac_addr() returns is    *)
(* the one before or the requested one.                                    *)
MovesOnlyToRequested ==
  [][NcDaemon => VisibleMac' \in {VisibleMac, requested'}]_ncVars

(* A target is not started twice in a row by one daemon: it would run      *)
(* inactive services again (net_config.cpp, set_nic_hostless()).  But it   *)
(* may be after a StartUnit that failed, perhaps when its job was accepted.*)
NoRetrigger ==
  [][starts' # starts =>
       \/ target' # target
       \/ was_nic_hostless = "unset"
       \/ start_failed]_ncVars

(* The target started last is that of the reported mode, until a StartUnit *)
(* fails, and again once one returns.  In between it need not be, even     *)
(* after the mode went back to was_nic_hostless: nothing is started then.  *)
ModeApplied ==
  reported_mode # "unset" /\ ~start_failed => target = reported_mode

(* The inductive invariant: where the call is tells what the interface,    *)
(* the drop-in file and the copy of the flags hold; and the two copies of  *)
(* the mode agree with each other and with the target until a start fails. *)
NcIInv ==
  /\ NcTypeOK
  /\ nc_pc \notin {"idle", "file"} => netfile = requested
  /\ nc_pc = "up" => iface_mac = requested
  /\ all_well /\ shared_host_mac # NoNetMac /\ nc_pc # "up" =>
       shared_host_mac = iface_mac
  /\ SuccessMeansAddress
  /\ undisturbed =>
       /\ nc_pc \in {"file", "direct", "flags", "down"} =>
            iface_flags = flags_before
       /\ nc_pc \in {"down", "address", "up"} => flags_copy = flags_before
  /\ FlagsSurvive
  /\ ~start_failed =>
       /\ was_nic_hostless = reported_mode
       /\ was_nic_hostless # "unset" => target = was_nic_hostless
  /\ ModeApplied
===============================================================================
