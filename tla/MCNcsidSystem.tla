---------------------------- MODULE MCNcsidSystem -----------------------------
(* NcsidSystem on a small instance for TLC.                                *)
EXTENDS NcsidSystem

CONSTANTS m1, m2

MCMac == {m1, m2}

(* Everything the NIC answers.                                             *)
MCRxPackets ==
  {[type |-> "response", cmd |-> c, ch |-> ch, count |-> count,
    flag |-> flag, mac |-> mac, fault |-> "none"] :
      c \in StdCommand \cup OemCommand, ch \in Channel, count \in NicChannels,
      flag \in BOOLEAN, mac \in {NoMac, m1, m2}}
===============================================================================
