------------------------------ MODULE HostMonitor -----------------------------
(***************************************************************************)
(* host_gpio_monitor: starts gbmc-bare-metal-active@.target when it finds  *)
(* the host running as it starts itself, and stops it when the host goes   *)
(* into reset.  The state of the host is a property another service owns:  *)
(* it is asked for with asynchronous calls, and its changes are announced  *)
(* by signals that say only that something changed.                        *)
(***************************************************************************)
EXTENDS Naturals, Sequences

CONSTANTS MaxHostChanges,  \* changes of the host's state (bound)
          MaxMonitorFaults \* failed calls and restarts of the daemon (bound)

ASSUME HostMonitorAssumption ==
  MaxHostChanges \in Nat /\ MaxMonitorFaults \in Nat

HostState == {"Standby", "Inactive", "Other"}
Check == {"startup", "event"}

VARIABLES
  host_state,      \* the property
  bm_active,       \* whether the target is active
  hm_pc,           \* main(): "check", "match" or "run"
  hm_gets,         \* calls of Get under way, by the check they belong to
  hm_inbox,        \* what waits on the connection
  hm_timer,        \* filterTimer is running
  hm_expired,      \* its handler is queued: it can no longer be cancelled
  hm_changes, hm_faults,  \* counters of the bounds
  \* history variable, of no effect on the program
  hm_trouble       \* a call failed, the daemon was restarted, or a change
                   \*   was announced before the match was installed

hmCounters == <<hm_changes, hm_faults>>
hmLoop == <<hm_pc, hm_gets, hm_inbox, hm_timer, hm_expired>>
hmVars == <<host_state, bm_active, hmLoop, hmCounters, hm_trouble>>

Signal == [type |-> "signal"]
Reply(check, state) == [type |-> "reply", check |-> check, state |-> state]

HmInit ==
  /\ host_state \in HostState
  /\ bm_active = FALSE
  /\ hm_pc = "check"
  /\ hm_gets = <<>>
  /\ hm_inbox = <<>>
  /\ hm_timer = FALSE
  /\ hm_expired = FALSE
  /\ hm_changes = 0
  /\ hm_faults = 0
  /\ hm_trouble = FALSE

-------------------------------------------------------------------------------
(* The host, and the service that owns the property.                       *)
ChangeHost ==
  /\ hm_changes < MaxHostChanges
  /\ hm_changes' = hm_changes + 1
  /\ host_state' \in HostState \ {host_state}
  /\ IF hm_pc = "run"
     THEN hm_inbox' = Append(hm_inbox, Signal) /\ UNCHANGED hm_trouble
     ELSE hm_trouble' = TRUE /\ UNCHANGED hm_inbox
  /\ UNCHANGED <<bm_active, hm_pc, hm_gets, hm_timer, hm_expired, hm_faults>>

(* The loaded operating system has the target started by other means.      *)
ActivateTarget ==
  /\ host_state = "Standby"
  /\ bm_active' = TRUE
  /\ UNCHANGED <<host_state, hmLoop, hmCounters, hm_trouble>>

AnswerGet ==
  /\ hm_gets # <<>>
  /\ hm_gets' = Tail(hm_gets)
  /\ hm_inbox' = Append(hm_inbox, Reply(Head(hm_gets), host_state))
  /\ UNCHANGED <<host_state, bm_active, hm_pc, hm_timer, hm_expired,
                 hmCounters, hm_trouble>>

(* The service is not there: the handler logs and does nothing.            *)
GetFails ==
  /\ hm_gets # <<>>
  /\ hm_faults < MaxMonitorFaults
  /\ hm_faults' = hm_faults + 1
  /\ hm_trouble' = TRUE
  /\ hm_gets' = Tail(hm_gets)
  /\ UNCHANGED <<host_state, bm_active, hm_pc, hm_inbox, hm_timer, hm_expired,
                 hm_changes>>

-------------------------------------------------------------------------------
(* getProperty() on the connection of the daemon.                          *)
CheckPostComplete(check) == hm_gets' = Append(hm_gets, check)

CheckStartup ==
  /\ hm_pc = "check"
  /\ CheckPostComplete("startup")
  /\ hm_pc' = "match"
  /\ UNCHANGED <<host_state, bm_active, hm_inbox, hm_timer, hm_expired,
                 hmCounters, hm_trouble>>

AddMatch ==
  /\ hm_pc = "match"
  /\ hm_pc' = "run"
  /\ UNCHANGED <<host_state, bm_active, hm_gets, hm_inbox, hm_timer,
                 hm_expired, hmCounters, hm_trouble>>

(* Mutant of RestartTimer: a signal only cancels a timer under way.        *)
RestartTimerCancels == hm_timer' = ~hm_timer

(* Every signal starts the 100 ms again, and cancels a timer under way.    *)
RestartTimer == hm_timer' = TRUE

HandleChange ==
  /\ hm_pc = "run"
  /\ hm_inbox # <<>>
  /\ Head(hm_inbox).type = "signal"
  /\ hm_inbox' = Tail(hm_inbox)
  /\ RestartTimer
  /\ UNCHANGED <<host_state, bm_active, hm_pc, hm_gets, hm_expired, hmCounters,
                 hm_trouble>>

(* The state each check acts on, and whether it starts or stops.           *)
Wanted == [startup |-> "Standby", event |-> "Inactive"]
Action == [startup |-> TRUE, event |-> FALSE]

HandleReply ==
  /\ hm_pc = "run"
  /\ hm_inbox # <<>>
  /\ Head(hm_inbox).type = "reply"
  /\ hm_inbox' = Tail(hm_inbox)
  /\ bm_active' = LET reply == Head(hm_inbox)
                  IN IF reply.state = Wanted[reply.check]
                     THEN Action[reply.check] ELSE bm_active
  /\ UNCHANGED <<host_state, hm_pc, hm_gets, hm_timer, hm_expired, hmCounters,
                 hm_trouble>>

ExpireTimer ==
  /\ hm_timer /\ ~hm_expired
  /\ hm_timer' = FALSE
  /\ hm_expired' = TRUE
  /\ UNCHANGED <<host_state, bm_active, hm_pc, hm_gets, hm_inbox, hmCounters,
                 hm_trouble>>

(* Mutant of CheckEvent: the answer is handled as that to the start-up     *)
(* check.                                                                  *)
CheckEventAsStartup ==
  /\ hm_pc = "run"
  /\ hm_expired
  /\ hm_expired' = FALSE
  /\ CheckPostComplete("startup")
  /\ UNCHANGED <<host_state, bm_active, hm_pc, hm_inbox, hm_timer, hmCounters,
                 hm_trouble>>

CheckEvent ==
  /\ hm_pc = "run"
  /\ hm_expired
  /\ hm_expired' = FALSE
  /\ CheckPostComplete("event")
  /\ UNCHANGED <<host_state, bm_active, hm_pc, hm_inbox, hm_timer, hmCounters,
                 hm_trouble>>

(* The daemon ends at any point, for one because StartUnit or StopUnit     *)
(* failed, done or not, and systemd starts it again.                       *)
RestartMonitor ==
  /\ hm_faults < MaxMonitorFaults
  /\ hm_faults' = hm_faults + 1
  /\ hm_trouble' = TRUE
  /\ hm_pc' = "check"
  /\ hm_gets' = <<>>
  /\ hm_inbox' = <<>>
  /\ hm_timer' = FALSE
  /\ hm_expired' = FALSE
  /\ UNCHANGED <<host_state, bm_active, hm_changes>>

HmStep ==
  \/ CheckStartup
  \/ AddMatch
  \/ HandleChange
  \/ HandleReply
  \/ ExpireTimer
  \/ CheckEvent

HmNext ==
  \/ ChangeHost
  \/ ActivateTarget
  \/ AnswerGet
  \/ GetFails
  \/ HmStep
  \/ RestartMonitor

HmSpec == HmInit /\ [][HmNext]_hmVars

(* The event loop runs, time passes and the service answers.               *)
HmFairness == WF_hmVars(HmStep) /\ WF_hmVars(AnswerGet)

-------------------------------------------------------------------------------
(* A host that settles in reset finds its target stopped in the end,       *)
(* whatever burst of changes came before and whoever started the target,   *)
(* unless a call failed, the daemon was restarted, or a change was         *)
(* announced before the match was installed.                               *)
StoppedInReset ==
  <>[](host_state = "Inactive") /\ [](~hm_trouble) => <>[](~bm_active)

(* A host that runs when the daemon starts, and goes on running, finds its *)
(* target started.                                                         *)
StartedIfRunning ==
  [](host_state = "Standby" /\ ~hm_trouble) => <>[]bm_active

(* Once the host and the calls behave, the target follows the host.        *)
TargetFollowsHost == StoppedInReset /\ StartedIfRunning

(* Only one check is in force at a time: the answer to the start-up check  *)
(* never comes after that of an event, and so a target stopped because of  *)
(* a reset is not started again by a state read before it.                 *)
StartupAnsweredFirst ==
  \A i, j \in DOMAIN hm_inbox :
    i < j /\ hm_inbox[i].type = "reply" /\ hm_inbox[j].type = "reply" =>
      hm_inbox[j].check = "event"
===============================================================================
