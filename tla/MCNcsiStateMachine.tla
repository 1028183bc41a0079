-------------------------- MODULE MCNcsiStateMachine --------------------------
(* NcsiStateMachine on a small instance for TLC.                           *)
EXTENDS NcsiStateMachine

CONSTANTS m1, m2

Packet(type, c, count, flag, mac, fault) ==
  [type |-> type, cmd |-> c, ch |-> 0, count |-> count, flag |-> flag,
   mac |-> mac, fault |-> fault]

(* Every well-formed response, with each payload its receiver tells apart. *)
GoodPackets ==
  {Packet("response", c, 1, flag, NoMac, "none") :
     c \in (StdCommand \cup OemCommand) \ {"GET_HOST_MAC", "GET_FILTER"},
     flag \in BOOLEAN}
  \cup {Packet("response", "GET_CAPABILITIES", count, FALSE, NoMac, "none") :
          count \in 0..3}
  \cup {Packet("response", "GET_HOST_MAC", 1, FALSE, mac, "none") :
          mac \in Mac}
  \cup {Packet("response", "GET_FILTER", 1, flag, mac, "none") :
          flag \in BOOLEAN, mac \in Mac \cup {NoMac}}

(* Everything else: faulty responses, and our own commands coming back.    *)
BadPackets ==
  {Packet("response", c, 1, TRUE, NoMac, fault) :
     c \in {"GET_FILTER", "ECHO", "GET_LINK_STATUS", "CLEAR_INITIAL_STATE"},
     fault \in Fault \ {"none"}}
  \cup {Packet("command", c, 1, FALSE, NoMac, fault) :
          c \in {"CLEAR_INITIAL_STATE", "GET_LINK_STATUS"},
          fault \in {"none", "short"}}

MCMac == {m1, m2}
OneMac == {m1}
MCRxPackets == GoodPackets \cup BadPackets
===============================================================================
