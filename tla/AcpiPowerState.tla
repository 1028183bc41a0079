---------------------------- MODULE AcpiPowerState ----------------------------
(***************************************************************************)
(* acpi_power_stated: the BIOS sets a D-Bus property, and the host's S0 or *)
(* S5 target, which exclude each other, is started before it takes effect. *)
(***************************************************************************)
ACPI == {"Unknown", "S5_G2", "S0_G0_D0", "Other"}

VARIABLES
  acpi_status,   \* the property SysACPIStatus
  acpi_target,   \* the target started last
  acpi_failed    \* history: StartUnit failed since the last one that did not

acpiVars == <<acpi_status, acpi_target, acpi_failed>>

AcpiInit ==
  /\ acpi_status = "Unknown"
  /\ acpi_target = "none"
  /\ acpi_failed = FALSE

UnitOf == [S5_G2 |-> "host-s5-state", S0_G0_D0 |-> "host-s0-state"]

(* Mutant of SysACPIStatus: a failed call is logged and forgotten.         *)
SysACPIStatusAnyway(value) ==
  /\ acpi_status' = value
  /\ \/ value \in DOMAIN UnitOf /\ acpi_target' = UnitOf[value]
     \/ UNCHANGED acpi_target
  /\ UNCHANGED acpi_failed

(* sysACPIStatus(): the exception of a failed call goes to the caller, and *)
(* the property keeps its value; the target may have been started.         *)
SysACPIStatus(value) ==
  IF value \in DOMAIN UnitOf
  THEN \/ /\ acpi_target' = UnitOf[value]
          /\ acpi_status' = value
          /\ acpi_failed' = FALSE
       \/ /\ acpi_target' \in {acpi_target, UnitOf[value]}
          /\ acpi_failed' = TRUE
          /\ UNCHANGED acpi_status
  ELSE acpi_status' = value /\ UNCHANGED <<acpi_target, acpi_failed>>

RestartAcpi ==
  /\ acpi_status' = "Unknown"
  /\ UNCHANGED <<acpi_target, acpi_failed>>

AcpiNext == RestartAcpi \/ \E value \in ACPI : SysACPIStatus(value)

AcpiSpec == AcpiInit /\ [][AcpiNext]_acpiVars

(* Whatever order the BIOS reports its states in, a state the property     *)
(* shows is the one whose target was started last, unless starting the     *)
(* target of a later state failed after systemd had accepted it.           *)
StatusMatchesTarget ==
  acpi_status \in DOMAIN UnitOf /\ ~acpi_failed =>
    acpi_target = UnitOf[acpi_status]
===============================================================================
