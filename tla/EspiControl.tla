----------------------------- MODULE EspiControl ------------------------------
(***************************************************************************)
(* npcm7xx_espi_control: turns the eSPI bus of the BMC off (-d) or on by a *)
(* few writes to two registers.  The host watches the ready state of the   *)
(* channels between any two of them, and the program may be killed.        *)
(***************************************************************************)
CONSTANTS EspiChannel

VARIABLES
  \* the registers, as sets of the channels whose bit is set
  host_enable,   \* ESPICFG, bits 7..4: set by the host, read-only here
  core_enable,   \* ESPICFG, bits 3..0
  auto_ready,    \* ESPIHINDP, bits 3..0
  \* the program
  espi_pc,
  espicfg_host, espicfg_core,  \* its copy of ESPICFG
  \* history
  promised       \* channels ready when ESPICFG was read, less those the
                 \*   host turned off itself

espiCopy == <<espicfg_host, espicfg_core>>
espiVars == <<host_enable, core_enable, auto_ready, espi_pc, espiCopy, promised>>

(* External: a channel is ready when the core says so, or by itself once   *)
(* the host enables it.                                                    *)
Ready == core_enable \cup (auto_ready \cap host_enable)

EspiInit ==
  /\ host_enable = {}
  /\ core_enable = {}
  /\ auto_ready = EspiChannel
  /\ espi_pc = "idle"
  /\ espicfg_host = {}
  /\ espicfg_core = {}
  /\ promised = {}

HostEnables(c) ==
  /\ host_enable' = host_enable \cup {c}
  /\ UNCHANGED <<core_enable, auto_ready, espi_pc, espiCopy, promised>>

HostDisables(c) ==
  /\ host_enable' = host_enable \ {c}
  /\ promised' = promised \ {c}
  /\ UNCHANGED <<core_enable, auto_ready, espi_pc, espiCopy>>

(* Another boot stage sets the automatic ready bits.                       *)
SetAutoReady ==
  /\ espi_pc = "idle"
  /\ auto_ready' \in SUBSET EspiChannel
  /\ UNCHANGED <<host_enable, core_enable, espi_pc, espiCopy, promised>>

ReadConfig(next) ==
  /\ espi_pc = "idle"
  /\ espicfg_host' = host_enable
  /\ espicfg_core' = core_enable
  /\ promised' = Ready
  /\ espi_pc' = next
  /\ UNCHANGED <<host_enable, core_enable, auto_ready>>

Enable ==
  /\ espi_pc = "enable"
  /\ core_enable' = EspiChannel
  /\ espi_pc' = "idle"
  /\ UNCHANGED <<host_enable, auto_ready, espiCopy, promised>>

(* Mutant of CopyHostBits: the host's bits are not copied.                 *)
CopyNothing ==
  /\ espi_pc = "disable"
  /\ espi_pc' = IF auto_ready # {} THEN "clear_auto" ELSE "clear_core"
  /\ UNCHANGED <<host_enable, core_enable, auto_ready, espiCopy, promised>>

(* The automatic ready bits are cleared only if some are set, and then the *)
(* core's bits take over from them first.                                  *)
CopyHostBits ==
  /\ espi_pc = "disable"
  /\ IF auto_ready # {}
     THEN /\ espicfg_core' = espicfg_core \cup espicfg_host
          /\ core_enable' = espicfg_core'
          /\ espi_pc' = "clear_auto"
     ELSE espi_pc' = "clear_core" /\ UNCHANGED <<core_enable, espicfg_core>>
  /\ UNCHANGED <<host_enable, auto_ready, espicfg_host, promised>>

ClearAutoReady ==
  /\ espi_pc = "clear_auto"
  /\ auto_ready' = {}
  /\ espi_pc' = "clear_core"
  /\ UNCHANGED <<host_enable, core_enable, espiCopy, promised>>

ClearCore ==
  /\ espi_pc = "clear_core"
  /\ core_enable' = {}
  /\ espi_pc' = "disabled"
  /\ UNCHANGED <<host_enable, auto_ready, espiCopy, promised>>

(* The program has ended, or is killed, and may be run again.              *)
EndEspi ==
  /\ espi_pc' = "idle"
  /\ UNCHANGED <<host_enable, core_enable, auto_ready, espiCopy, promised>>

EspiNext ==
  \/ \E c \in EspiChannel : HostEnables(c) \/ HostDisables(c)
  \/ SetAutoReady
  \/ \E next \in {"enable", "disable"} : ReadConfig(next)
  \/ Enable
  \/ CopyHostBits
  \/ ClearAutoReady
  \/ ClearCore
  \/ EndEspi

EspiSpec == EspiInit /\ [][EspiNext]_espiVars

-------------------------------------------------------------------------------
(* The host loses no channel it had until the last write turns all of them *)
(* off at once, although readiness moves from one register to another on   *)
(* the way and the host goes on enabling and disabling channels.           *)
ReadyUntilTheEnd ==
  espi_pc \in {"disable", "clear_auto", "clear_core"} => promised \subseteq Ready

(* A run with -d that came to its end has left no channel ready, whatever  *)
(* earlier runs were killed.                                               *)
DisabledMeansOff == espi_pc = "disabled" => Ready = {}

(* The channels go off all at once, with the last write.                   *)
OffInOneStep == ReadyUntilTheEnd /\ DisabledMeansOff
===============================================================================
