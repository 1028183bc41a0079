------------------------------- MODULE PostCodes ------------------------------
(***************************************************************************)
(* nemora-postd: a D-Bus thread collects the POST codes of the host in a   *)
(* vector, a second thread drains the vector every 20 seconds and sends    *)
(* what it found to an IPv6 and an IPv4 collector.  A POST code is known   *)
(* by its place in the order of emission.                                  *)
(***************************************************************************)
EXTENDS Naturals, Sequences

CONSTANTS MaxPost,    \* POST codes the host emits (bound)
          MaxSignals, \* signals waiting on the connection (bound)
          BmcMac      \* addresses the BMC's interface may have

ASSUME PostAssumption == MaxPost \in Nat /\ MaxSignals \in Nat

Collector == {"v6", "v4"}
NoCode == 0           \* a property change that carries no POST code

VARIABLES
  post_seen,          \* how many codes the host has emitted
  post_signals,       \* PropertiesChanged signals not yet processed
  postcodes,          \* HostManager::postcodes_
  post_pc,            \* where UdpPoll() is
  event_codes,        \* event_data_.postcodes
  event_mac,          \* event_data_.mac
  post_socket,        \* whether SendDatagram() got a socket
  bmc_mac,            \* the address of the interface, which ncsid may change
  \* history variables, of no effect on the program
  wire,               \* the codes handed to the kernel, by collector
  lost_codes,         \* codes sent to nobody, or that died with the daemon
  mac_read,           \* GetMacAddr() succeeded in this round
  macs_since          \* the addresses the interface had in this round

postBus == <<post_seen, post_signals>>
postSend == <<post_pc, event_codes, event_mac, post_socket, mac_read>>
postOut == <<wire, lost_codes>>
postMac == <<bmc_mac, macs_since>>
postVars == <<postBus, postcodes, postSend, postOut, postMac>>

Codes(s) == {s[i] : i \in DOMAIN s} \ {NoCode}

PostInit ==
  /\ post_seen = 0
  /\ post_signals = <<>>
  /\ postcodes = <<>>
  /\ post_pc = "drain"
  /\ event_codes = <<>>
  /\ event_mac \in BmcMac
  /\ post_socket = FALSE
  /\ bmc_mac \in BmcMac
  /\ wire = [c \in Collector |-> <<>>]
  /\ lost_codes = {}
  /\ mac_read = FALSE
  /\ macs_since = {bmc_mac}

-------------------------------------------------------------------------------
(* The host and the rest of the BMC.                                       *)
EmitCode ==
  /\ post_seen < MaxPost
  /\ Len(post_signals) < MaxSignals
  /\ post_seen' = post_seen + 1
  /\ post_signals' = Append(post_signals, post_seen + 1)
  /\ UNCHANGED <<postcodes, postSend, postOut, postMac>>

(* Another interface of the object, or another property.                   *)
EmitOther ==
  /\ Len(post_signals) < MaxSignals
  /\ post_signals' = Append(post_signals, NoCode)
  /\ UNCHANGED <<post_seen, postcodes, postSend, postOut, postMac>>

ChangeMac ==
  /\ bmc_mac' \in BmcMac \ {bmc_mac}
  /\ macs_since' = macs_since \cup {bmc_mac'}
  /\ UNCHANGED <<postBus, postcodes, postSend, postOut>>

(* PostPollerThread(): DbusHandleSignal() and, under postcodes_lock_,      *)
(* PushPostcode().                                                         *)
HandleSignal ==
  /\ post_signals # <<>>
  /\ post_signals' = Tail(post_signals)
  /\ postcodes' = IF Head(post_signals) = NoCode
                  THEN postcodes
                  ELSE Append(postcodes, Head(post_signals))
  /\ UNCHANGED <<post_seen, postSend, postOut, postMac>>

-------------------------------------------------------------------------------
(* Mutant of Drain: the vector is copied, not moved.                       *)
DrainCopies ==
  /\ post_pc = "drain"
  /\ event_codes' = postcodes
  /\ post_pc' = "mac"
  /\ mac_read' = FALSE
  /\ macs_since' = {bmc_mac}
  /\ UNCHANGED <<postBus, postcodes, event_mac, post_socket, postOut, bmc_mac>>

(* The loop of UdpPoll().  DrainPostcodes(), under postcodes_lock_.        *)
Drain ==
  /\ post_pc = "drain"
  /\ event_codes' = postcodes
  /\ postcodes' = <<>>
  /\ post_pc' = "mac"
  /\ mac_read' = FALSE
  /\ macs_since' = {bmc_mac}
  /\ UNCHANGED <<postBus, event_mac, post_socket, postOut, bmc_mac>>

(* Mutant of ReadMac: the address is read once and kept.                   *)
ReadMacKept == UNCHANGED event_mac /\ mac_read' = TRUE

(* GetMacAddr(): the address, or a failure, which leaves `mac` as the      *)
(* stack had it.                                                           *)
ReadMac ==
  \/ event_mac' = bmc_mac /\ mac_read' = TRUE
  \/ event_mac' \in BmcMac /\ mac_read' = FALSE

(* Mutant of UpdateEventData: nothing is sent when the address could not   *)
(* be read.                                                                *)
UpdateEventDataNeedsMac ==
  /\ post_pc = "mac"
  /\ ReadMac
  /\ post_pc' = IF event_codes # <<>> /\ mac_read' THEN "socket" ELSE "sleep"
  /\ UNCHANGED <<postBus, postcodes, event_codes, post_socket, postOut,
                 postMac>>

(* Mutant of UpdateEventData: the vector is looked at that was just moved  *)
(* from.                                                                   *)
UpdateEventDataMoved ==
  /\ post_pc = "mac"
  /\ ReadMac
  /\ post_pc' = IF postcodes # <<>> THEN "socket" ELSE "sleep"
  /\ UNCHANGED <<postBus, postcodes, event_codes, post_socket, postOut,
                 postMac>>

(* UpdateEventData(), and whether there is anything to broadcast.          *)
UpdateEventData ==
  /\ post_pc = "mac"
  /\ ReadMac
  /\ post_pc' = IF event_codes # <<>> THEN "socket" ELSE "sleep"
  /\ UNCHANGED <<postBus, postcodes, event_codes, post_socket, postOut,
                 postMac>>

(* SendDatagram() goes on with descriptor -1 when there is no socket.      *)
OpenSocket ==
  /\ post_pc = "socket"
  /\ post_socket' \in BOOLEAN
  /\ post_pc' = "v6"
  /\ UNCHANGED <<postBus, postcodes, event_codes, event_mac, mac_read, postOut,
                 postMac>>

Sent(collector) ==
  wire' = [wire EXCEPT ![collector] = @ \o event_codes]

SendV6 ==
  /\ post_pc = "v6"
  /\ \/ post_socket /\ Sent("v6")
     \/ UNCHANGED wire
  /\ post_pc' = "v4"
  /\ UNCHANGED <<postBus, postcodes, event_codes, event_mac, post_socket,
                 mac_read, lost_codes, postMac>>

SendV4 ==
  /\ post_pc = "v4"
  /\ \/ post_socket /\ Sent("v4") /\ UNCHANGED lost_codes
     \/ /\ UNCHANGED wire
        /\ lost_codes' = lost_codes \cup (Codes(event_codes) \ Codes(wire["v6"]))
  /\ post_pc' = "sleep"
  /\ UNCHANGED <<postBus, postcodes, event_codes, event_mac, post_socket,
                 mac_read, postMac>>

WakeUp ==
  /\ post_pc = "sleep"
  /\ post_pc' = "drain"
  /\ UNCHANGED <<postBus, postcodes, event_codes, event_mac, post_socket,
                 mac_read, postOut, postMac>>

UdpPoll == Drain \/ UpdateEventData \/ OpenSocket \/ SendV6 \/ SendV4 \/ WakeUp

(* The daemon ends, by a signal, by an exception nobody catches or when    *)
(* its threads are destroyed, and is started again.                        *)
RestartPostd ==
  /\ lost_codes' = lost_codes \cup
       (1..post_seen \ (Codes(wire["v6"]) \cup Codes(wire["v4"])))
  /\ post_signals' = <<>>
  /\ postcodes' = <<>>
  /\ event_codes' = <<>>
  /\ post_pc' = "drain"
  /\ mac_read' = FALSE
  /\ UNCHANGED <<post_seen, event_mac, post_socket, wire, postMac>>

PostNext ==
  \/ EmitCode
  \/ EmitOther
  \/ ChangeMac
  \/ HandleSignal
  \/ UdpPoll
  \/ RestartPostd

PostSpec == PostInit /\ [][PostNext]_postVars

(* Both threads run; nothing is assumed of the host, or that a send        *)
(* succeeds.                                                               *)
PostFairness == WF_postVars(HandleSignal) /\ WF_postVars(UdpPoll)

-------------------------------------------------------------------------------
(* The codes of the batch that have not been offered to the collectors.    *)
InFlight == IF post_pc \in {"mac", "socket", "v6", "v4"} THEN Codes(event_codes)
            ELSE {}

Settled == Codes(wire["v6"]) \cup Codes(wire["v4"]) \cup lost_codes

(* No code vanishes between the two threads: every code the host emitted   *)
(* waits on the connection, in the vector or in the batch, was sent, or is *)
(* known to be lost because both sends failed or the daemon ended.         *)
NoCodeVanishes ==
  1..post_seen = Settled \cup InFlight \cup Codes(postcodes)
                         \cup Codes(post_signals)

(* A collector is sent every code at most once and in the order in which   *)
(* the host emitted them, whatever the interleaving of the two threads and *)
(* however often the daemon is restarted.                                  *)
SentOnceInOrder ==
  \A c \in Collector : \A i, j \in DOMAIN wire[c] :
    i < j => wire[c][i] < wire[c][j]

(* A datagram whose address was read carries one the interface had in this *)
(* round, not that of an earlier datagram.                                 *)
AddressOfThisRound ==
  post_pc \in {"socket", "v6", "v4"} /\ mac_read => event_mac \in macs_since

(* Every code the host emits is sent or known to be lost in the end.       *)
CodesSettle ==
  \A n \in 1..MaxPost : post_seen >= n ~> n \in Settled

-------------------------------------------------------------------------------
PostTypeOK ==
  /\ post_seen \in Nat
  /\ post_signals \in Seq(Nat)
  /\ postcodes \in Seq(Nat \ {NoCode})
  /\ event_codes \in Seq(Nat \ {NoCode})
  /\ wire \in [Collector -> Seq(Nat \ {NoCode})]
  /\ post_pc \in {"drain", "mac", "socket", "v6", "v4", "sleep"}
  /\ post_socket \in BOOLEAN
  /\ mac_read \in BOOLEAN
  /\ bmc_mac \in BmcMac
  /\ event_mac \in BmcMac

(* The codes among the entries of a sequence come in order; all those of   *)
(* one sequence come before those of another.                              *)
Rising(s) ==
  \A i, j \in DOMAIN s :
    i < j /\ s[i] # NoCode /\ s[j] # NoCode => s[i] < s[j]

Before(s, t) == \A n \in Codes(s), k \in Codes(t) : n < k

(* The collectors the batch is still to be offered to.                     *)
Owed ==
  {c \in Collector : \/ post_pc \in {"mac", "socket", "v6"}
                     \/ post_pc = "v4" /\ c = "v4"}

(* What the host emitted moves through the wire, the batch, the vector and *)
(* the connection in the order of emission.                                *)
Ordered ==
  /\ Rising(post_signals) /\ Rising(postcodes) /\ Rising(event_codes)
  /\ Before(postcodes, post_signals)
  /\ post_pc \in {"mac", "socket", "v6", "v4"} =>
       Before(event_codes, postcodes) /\ Before(event_codes, post_signals)
  /\ \A c \in Collector :
       /\ Rising(wire[c])
       /\ Before(wire[c], postcodes) /\ Before(wire[c], post_signals)
       /\ c \in Owed => Before(wire[c], event_codes)

(* The inductive invariant: the codes are ordered, none vanishes (so none  *)
(* is above post_seen), and the interface's address is one of this round.  *)
PostIInv ==
  /\ PostTypeOK
  /\ Ordered
  /\ NoCodeVanishes
  /\ AddressOfThisRound
  /\ bmc_mac \in macs_since
===============================================================================
