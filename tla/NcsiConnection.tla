---------------------------- MODULE NcsiConnection ----------------------------
(***************************************************************************)
(* What the NC-SI daemon promises about the connection to the NIC, without *)
(* its three state machines: the global connection state, the channels     *)
(* whose receive filter the NIC confirmed, and the mode (hostless or       *)
(* hostful) last reported to the rest of the BMC.                          *)
(***************************************************************************)
EXTENDS Naturals

VARIABLES conn,       \* the connection state reported for the state machines
          channels,   \* the number of channels of a connection that is up
          confirmed,  \* the channels whose filter the NIC acknowledged
          mode        \* the mode last reported

vars == <<conn, channels, confirmed, mode>>

Init == /\ conn = "DOWN"
        /\ channels = 0
        /\ confirmed = {}
        /\ mode = "unknown"

Down == {"DOWN", "LOOPBACK"}
Up == {"UP", "UP_AND_CONFIGURED"}

(* While the NIC does not answer, a cable loopback may show up or go away. *)
SenseLoopback == /\ conn \in Down
                 /\ conn' \in Down
                 /\ UNCHANGED <<channels, confirmed, mode>>

Connect == /\ conn = "DOWN"
           /\ conn' = "UP"
           /\ channels' \in {1, 2}
           /\ UNCHANGED <<confirmed, mode>>

(* Filters are installed channel by channel, only on a connection whose    *)
(* NIC was found to serve a host.                                          *)
Confirm == /\ conn = "UP"
           /\ mode = "hostful"
           /\ \E c \in (0..channels - 1) \ confirmed :
                confirmed' = confirmed \cup {c}
           /\ conn' = IF confirmed' = 0..channels - 1
                      THEN "UP_AND_CONFIGURED" ELSE "UP"
           /\ UNCHANGED <<channels, mode>>

Report == /\ conn \in Up
          /\ mode' \in {"hostless", "hostful"}
          /\ UNCHANGED <<conn, channels, confirmed>>

(* A failure takes everything back; it may report the NIC as hostful but   *)
(* never as hostless.                                                      *)
Restart == /\ conn \in Up
           /\ conn' = "DOWN"
           /\ channels' = 0
           /\ confirmed' = {}
           /\ mode' \in {mode, "hostful"}

Disable == /\ conn = "DOWN"
           /\ conn' = "DISABLED"
           /\ UNCHANGED <<channels, confirmed, mode>>

Enable == /\ conn = "DISABLED"
          /\ conn' = "DOWN"
          /\ UNCHANGED <<channels, confirmed, mode>>

Next == SenseLoopback \/ Connect \/ Confirm \/ Report \/ Restart
          \/ Disable \/ Enable

Spec == Init /\ [][Next]_vars
===============================================================================
