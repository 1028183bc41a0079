------------------------------ MODULE NcsiClient ------------------------------
(***************************************************************************)
(* The NC-SI packets ncsid exchanges with the NIC, and the validation of a *)
(* response (ncsi_client.c, ncsi.h).                                       *)
(*                                                                         *)
(* A packet keeps what the state machines look at.  `count' is the channel *)
(* count of a GET_CAPABILITIES response, `mac' the address of a            *)
(* GET_HOST_MAC response or the filter a GET_FILTER response describes,    *)
(* and `flag' the one bit each of the other responses is read for: legacy  *)
(* firmware (GET_VERSION_ID), legacy layout (GET_PASSTHROUGH_STATISTICS),  *)
(* pattern returned intact (ECHO), hostless mode (GET_FILTER), link up     *)
(* (GET_LINK_STATUS).  `fault' is what is wrong with the packet.           *)
(***************************************************************************)
EXTENDS Naturals

CONSTANTS Mac,    \* the MAC addresses
          NoMac   \* no address: an empty or foreign filter

ASSUME MacAssumption == NoMac \notin Mac

Channel == {0, 1}

StdCommand == {"CLEAR_INITIAL_STATE", "GET_VERSION_ID", "GET_CAPABILITIES",
               "RESET_CHANNEL", "SET_MAC_ADDRESS", "ENABLE_CHANNEL",
               "ENABLE_CHANNEL_NETWORK_TX", "GET_PASSTHROUGH_STATISTICS",
               "GET_LINK_STATUS"}

OemCommand == {"GET_HOST_MAC", "SET_FILTER", "GET_FILTER", "ECHO"}

(* A command ncsid writes; `mac' is the payload of SET_MAC_ADDRESS and     *)
(* SET_FILTER.                                                             *)
Request(c, channel, mac) == [cmd |-> c, ch |-> channel, mac |-> mac]

NoRequest == Request("NONE", 0, NoMac)

Requests == [cmd : StdCommand \cup OemCommand,
             ch  : Channel,
             mac : Mac \cup {NoMac}]

(* What receive_ncsi() can put in the buffer: an NC-SI response, an NC-SI  *)
(* command (our own, coming back over a loopback), or nothing (timeout).   *)
Fault == {"none", "nack", "short", "size", "oem"}

Packets == [type  : {"response", "command"},
            cmd   : StdCommand \cup OemCommand,
            ch    : Channel,
            count : 0..255,
            flag  : BOOLEAN,
            mac   : Mac \cup {NoMac},
            fault : Fault]

NoPacket == [type |-> "none", cmd |-> "NONE", ch |-> 0, count |-> 0,
             flag |-> FALSE, mac |-> NoMac, fault |-> "none"]

(* The control_packet_type of an OEM command does not tell which one it is.*)
PacketType(c) == IF c \in OemCommand THEN "OEM_COMMAND" ELSE c

(* Mutant: the size of a response is not checked.                          *)
SizeUnchecked(rx, want, legacy) == TRUE

(* The response sizes of the four OEM commands differ, so a response to    *)
(* another OEM command than `want' fails the size check; `legacy' selects  *)
(* which of the two layouts of the passthrough statistics is expected.     *)
SizeMatches(rx, want, legacy) ==
  /\ rx.cmd = want
  /\ rx.fault # "size"
  /\ want = "GET_PASSTHROUGH_STATISTICS" => rx.flag = legacy

(* ncsi_validate_response(): the checks are made in this order, and neither*)
(* the channel nor the instance id of the response is among them.          *)
ValidateResponse(rx, want, legacy) ==
  CASE rx.type = "none" \/ rx.fault = "short" -> "UNDERSIZED"
    [] rx.type # "none" /\ rx.fault = "nack" -> "NACK"
    [] rx.type # "none" /\ rx.fault \notin {"short", "nack"} ->
         IF rx.type # "response" \/ PacketType(rx.cmd) # PacketType(want)
         THEN "UNEXPECTED_TYPE"
         ELSE IF ~SizeMatches(rx, want, legacy)
         THEN "UNEXPECTED_SIZE"
         ELSE IF want \in OemCommand /\ rx.fault = "oem"
         THEN "OEM_FORMAT_ERROR"
         ELSE "ACK"

ResponseType == {"NONE", "ACK", "NACK", "UNDERSIZED", "UNEXPECTED_TYPE",
                 "UNEXPECTED_SIZE", "OEM_FORMAT_ERROR", "UNEXPECTED_PARAMS"}
===============================================================================
