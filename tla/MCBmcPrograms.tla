----------------------------- MODULE MCBmcPrograms ----------------------------
(***************************************************************************)
(* The small programs of the BMC for TLC.  They share no state, so one     *)
(* behaviour is of one program: `who` selects it, and the others stay as   *)
(* they are.  PhosphorConfig comes in twice, once for each of its two      *)
(* functions, which share no state either.                                 *)
(***************************************************************************)
EXTENDS PhosphorConfig, PostCodes, HostMonitor, AcpiPowerState, EspiControl,
        DhcpDone, Cr51Regions, MetricBlobs, TLC

VARIABLE who

mcVars == <<who, ncVars, postVars, hmVars, acpiVars, espiVars, dhcpVars, rgVars,
            mbVars>>

Program == {"address", "mode", "post", "host", "acpi", "espi", "dhcp",
            "regions", "metrics"}

-------------------------------------------------------------------------------
(* The inputs of validate_payload_regions(): arrays of one and two regions *)
(* of any kind, and contiguous ones of three, over a flash of six units    *)
(* with regions aligned to two, of which two are read at a time.           *)
Regions(offsets, sizes) ==
  [offset : offsets, size : sizes, static : BOOLEAN]

Three(x, y, kinds) ==
  <<[offset |-> 0, size |-> x, static |-> kinds[1]],
    [offset |-> x, size |-> y, static |-> kinds[2]],
    [offset |-> x + y, size |-> 6 - x - y, static |-> kinds[3]]>>

RegionArrays ==
  {<<r>> : r \in Regions({0, 2}, {0, 1, 2, 4, 6})}
    \cup {<<r, s>> : r \in Regions({0}, {0, 2, 4}),
                     s \in Regions({0, 2, 4}, {0, 1, 2, 4})}
    \cup {Three(x, y, kinds) :
            x \in {0, 2, 4}, y \in {0, 2}, kinds \in [1..3 -> BOOLEAN]}

(* Signed for what it should be, or for all static bytes, or for none, or  *)
(* without the magic of a digest.                                          *)
RegionInputs ==
  {in \in [regions : RegionArrays, d : 0..6, area : 1..3, image_size : {4, 6},
           hooked : BOOLEAN, magic : BOOLEAN, signed : SUBSET (0..5)] :
     /\ in.d + in.area <= 6
     /\ \/ in.signed = SignedBytes(in)
        \/ in.magic /\ in.signed \in {{}, StaticOf(in, Len(in.regions))}
     /\ \/ in.magic /\ in.signed = SignedBytes(in)
        \/ ~in.hooked /\ ProperArray(in)}

-------------------------------------------------------------------------------
SomeRegionInput == CHOOSE in \in RegionInput : TRUE

(* What a program that is not selected would choose in its initial state.  *)
Parked ==
  /\ who \in Program
  /\ iface_mac \in IF who = "address" THEN NetMac
                   ELSE {CHOOSE mac \in NetMac : TRUE}
  /\ iface_flags \in IF who = "address" THEN SUBSET Flag ELSE {Flag}
  /\ bmc_mac \in IF who = "post" THEN BmcMac ELSE {CHOOSE mac \in BmcMac : TRUE}
  /\ event_mac \in IF who = "post" THEN BmcMac ELSE {bmc_mac}
  /\ host_state \in IF who = "host" THEN HostState ELSE {"Other"}
  /\ serving = CHOOSE c \in Client : TRUE
  /\ rg_in \in IF who = "regions" THEN RegionInput ELSE {SomeRegionInput}

McInit ==
  /\ Parked
  /\ NcInit
  /\ PostInit
  /\ HmInit
  /\ AcpiInit
  /\ EspiInit
  /\ DhcpInit
  /\ RgInit
  /\ MbInit

Only(program) ==
  /\ who = program
  /\ UNCHANGED who
  /\ program \notin {"address", "mode"} => UNCHANGED ncVars
  /\ program # "post" => UNCHANGED postVars
  /\ program # "host" => UNCHANGED hmVars
  /\ program # "acpi" => UNCHANGED acpiVars
  /\ program # "espi" => UNCHANGED espiVars
  /\ program # "dhcp" => UNCHANGED dhcpVars
  /\ program # "regions" => UNCHANGED rgVars
  /\ program # "metrics" => UNCHANGED mbVars

McNext ==
  \/ Only("address") /\ NcNext /\ reported_mode' = "unset"
  \/ Only("mode") /\ NcNext /\ requested' = NoNetMac
  \/ Only("post") /\ PostNext
  \/ Only("host") /\ HmNext
  \/ Only("acpi") /\ AcpiNext
  \/ Only("espi") /\ EspiNext
  \/ Only("dhcp") /\ DhcpNext
  \/ Only("regions") /\ RgNext
  \/ Only("metrics") /\ MbNext

(* The fairness of the selected program; that of a program that is not     *)
(* selected asks for nothing.                                              *)
McFairness ==
  /\ WF_mcVars(Only("post") /\ HandleSignal)
  /\ WF_mcVars(Only("post") /\ UdpPoll)
  /\ WF_mcVars(Only("host") /\ HmStep)
  /\ WF_mcVars(Only("host") /\ AnswerGet)
  /\ WF_mcVars(Only("dhcp") /\ DhcpStep)
  /\ WF_mcVars(Only("regions") /\ RgNext)

McSpec == McInit /\ [][McNext]_mcVars /\ McFairness
===============================================================================
