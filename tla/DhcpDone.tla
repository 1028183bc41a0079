------------------------------- MODULE DhcpDone -------------------------------
(***************************************************************************)
(* dhcp-done and update-dhcp-status: the status of DHCP is a file, replaced*)
(* by one program, while a daemon sends its contents to every client that  *)
(* connects.  The listener is polled edge-triggered.                       *)
(***************************************************************************)
EXTENDS Naturals, Sequences

CONSTANTS Client,        \* clients, each of which connects once
          Status,        \* contents update-dhcp-status writes
          Ongoing,       \* the status of ExecStartPre, and of a failed read
          NoFile,        \* the file does not exist
          MaxDhcpFaults  \* failures of the daemon (bound)

ASSUME DhcpAssumption ==
  /\ Ongoing \in Status
  /\ NoFile \notin Status
  /\ MaxDhcpFaults \in Nat

VARIABLES
  status_file,   \* what the name of the file leads to
  status_temp,   \* the temporary file of a running update-dhcp-status
  backlog,       \* connections that wait to be accepted
  edge,          \* the listener became readable since the last callback
  dhcp_pc,       \* "down", "wait", "accept" or "serve"
  serving,       \* the connection accepted last
  dhcp_faults,   \* counter of the bound
  client_state,
  answer,        \* what a client received
  \* history variable, of no effect on the program
  held           \* what the file held since a client connected

dhcpFile == <<status_file, status_temp>>
dhcpClients == <<client_state, answer>>
dhcpLoop == <<backlog, edge, dhcp_pc, serving, dhcp_faults>>
dhcpVars == <<dhcpFile, dhcpLoop, dhcpClients, held>>

DhcpInit ==
  /\ status_file = NoFile
  /\ status_temp = NoFile
  /\ backlog = <<>>
  /\ edge = FALSE
  /\ dhcp_pc = "down"
  /\ serving \in Client
  /\ dhcp_faults = 0
  /\ client_state = [c \in Client |-> "out"]
  /\ answer = [c \in Client |-> NoFile]
  /\ held = [c \in Client |-> {}]

-------------------------------------------------------------------------------
(* Mutant of OpenWriter: the file is written in place; {status} is a part  *)
(* of it.                                                                  *)
OpenWriterInPlace(status) ==
  /\ status_temp = NoFile
  /\ status_temp' = status
  /\ status_file' = {status}
  /\ UNCHANGED <<dhcpLoop, dhcpClients, held>>

(* update-dhcp-status: fileWrite() writes a temporary file, and commit()   *)
(* renames it; the program may be killed in between.                       *)
OpenWriter(status) ==
  /\ status_temp = NoFile
  /\ status_temp' = status
  /\ UNCHANGED <<status_file, dhcpLoop, dhcpClients, held>>

FileHolds(status) ==
  /\ status_file' = status
  /\ held' = [c \in Client |->
                IF client_state[c] = "waiting" THEN held[c] \cup {status}
                ELSE held[c]]

CommitWriter ==
  /\ status_temp # NoFile
  /\ FileHolds(status_temp)
  /\ status_temp' = NoFile
  /\ UNCHANGED <<dhcpLoop, dhcpClients>>

KillWriter ==
  /\ status_temp # NoFile
  /\ status_temp' = NoFile
  /\ UNCHANGED <<status_file, dhcpLoop, dhcpClients, held>>

-------------------------------------------------------------------------------
(* A client connects: it is refused while nobody listens.                  *)
Connect(c) ==
  /\ client_state[c] = "out"
  /\ IF dhcp_pc = "down"
     THEN /\ client_state' = [client_state EXCEPT ![c] = "refused"]
          /\ UNCHANGED <<backlog, edge, held>>
     ELSE /\ client_state' = [client_state EXCEPT ![c] = "waiting"]
          /\ backlog' = Append(backlog, c)
          /\ edge' = TRUE
          /\ held' = [held EXCEPT ![c] = {status_file}]
  /\ UNCHANGED <<dhcpFile, dhcp_pc, serving, dhcp_faults, answer>>

(* ExecStartPre, then main(): the listener is created.                     *)
StartDhcpDone ==
  /\ dhcp_pc = "down"
  /\ FileHolds(Ongoing)
  /\ dhcp_pc' = "wait"
  /\ UNCHANGED <<status_temp, backlog, edge, serving, dhcp_faults, dhcpClients>>

(* The event loop calls do_accept's callback once per edge.                *)
Callback ==
  /\ dhcp_pc = "wait"
  /\ edge
  /\ edge' = FALSE
  /\ dhcp_pc' = "accept"
  /\ UNCHANGED <<dhcpFile, backlog, serving, dhcp_faults, dhcpClients, held>>

(* while (auto fd = accept(listener)): the loop ends when nobody waits.    *)
Accept ==
  /\ dhcp_pc = "accept"
  /\ IF backlog = <<>>
     THEN dhcp_pc' = "wait" /\ UNCHANGED <<backlog, serving>>
     ELSE /\ dhcp_pc' = "serve"
          /\ serving' = Head(backlog)
          /\ backlog' = Tail(backlog)
  /\ UNCHANGED <<dhcpFile, edge, dhcp_faults, dhcpClients, held>>

(* fileRead(): the file may be missing, and any read may fail.             *)
DataRead == {Ongoing} \cup ({status_file} \ {NoFile})

(* Mutant of AfterServe: one connection is accepted per callback.          *)
AfterServeOnce == "wait"

AfterServe == "accept"

Serve ==
  /\ dhcp_pc = "serve"
  /\ \E data \in DataRead : answer' = [answer EXCEPT ![serving] = data]
  /\ client_state' = [client_state EXCEPT ![serving] = "answered"]
  /\ dhcp_pc' = AfterServe
  /\ UNCHANGED <<dhcpFile, backlog, edge, serving, dhcp_faults, held>>

(* accept() or sendExact() throws, for one because the client is gone: the *)
(* exception leaves the loop, the daemon ends with 1, and every connection *)
(* is reset.                                                               *)
FailDhcpDone ==
  /\ dhcp_pc \in {"accept", "serve"}
  /\ dhcp_faults < MaxDhcpFaults
  /\ dhcp_faults' = dhcp_faults + 1
  /\ dhcp_pc' = "down"
  /\ backlog' = <<>>
  /\ edge' = FALSE
  /\ client_state' = [c \in Client |->
       IF client_state[c] = "waiting" THEN "refused" ELSE client_state[c]]
  /\ UNCHANGED <<dhcpFile, serving, answer, held>>

DhcpStep == StartDhcpDone \/ Callback \/ Accept \/ Serve

DhcpNext ==
  \/ \E status \in Status : OpenWriter(status)
  \/ CommitWriter
  \/ KillWriter
  \/ \E c \in Client : Connect(c)
  \/ DhcpStep
  \/ FailDhcpDone

DhcpSpec == DhcpInit /\ [][DhcpNext]_dhcpVars

(* The event loop runs; nothing is assumed of the writer or the clients.   *)
DhcpFairness == WF_dhcpVars(DhcpStep)

-------------------------------------------------------------------------------
(* A client receives one whole status, one the file held between its       *)
(* connection and the answer, however many writers replaced the file in    *)
(* that time or were killed while they did; or "ongoing" if the read fails.*)
AnswerIsAStatus ==
  \A c \in Client : client_state[c] = "answered" =>
    answer[c] \in Status /\ answer[c] \in held[c] \cup {Ongoing}

(* No connection is left waiting behind the edge-triggered listener: every *)
(* client that connects is answered or reset.                              *)
EveryClientLeaves ==
  \A c \in Client : client_state[c] = "waiting" ~> client_state[c] # "waiting"
===============================================================================
