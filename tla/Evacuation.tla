----------------------------- MODULE Evacuation -----------------------------
(***************************************************************************)
(* Evacuation of a compute host of the source cloud: tasks/evacuation.py   *)
(* builds the flow, tasks/service.py and tasks/server.py hold its tasks,   *)
(* and taskflow runs it.                                                   *)
(*                                                                         *)
(* The compute service of the host is disabled, so that the scheduler puts *)
(* no server on it any more, and every server that was found there before  *)
(* is live-migrated to a host of the scheduler's choice.  When a live      *)
(* migration fails the service is enabled again.  Nova answers a request   *)
(* at once and begins to migrate later, until when the server is reported  *)
(* as active; it may also drop the migration or roll it back, which leaves *)
(* the server active where it was.                                         *)
(***************************************************************************)
EXTENDS Naturals

CONSTANTS
    Server,     \* servers that are, or may be put, on the host
    MaxRuns     \* bound: how often the operator evacuates the host

ASSUME EvacuationAssumption == MaxRuns \in Nat

VARIABLES
    nodes, state, failures,   \* the engine, see TaskFlow
    waiting,    \* servers whose live migration is being polled for
    runs,       \* how often the evacuation was started
    service,    \* nova-compute on the host: "enabled" or "disabled"
    shown,      \* the host in the UI: "available" or "blocked"
    asked,      \* servers whose live migration nova has taken, but not begun
    place,      \* where each server runs: "nowhere", "host" or "elsewhere"
    status      \* status of each server

cloudVars == <<service, shown, asked, place, status>>
vars == <<nodes, state, failures, waiting, runs, cloudVars>>

-----------------------------------------------------------------------------
(* The flow: each server is retrieved; with that and with the service      *)
(* disabled it is evacuated.                                               *)

disable == <<"disable", "nova-compute">>

EvacuationTask == {disable} \cup ({"retrieve", "evacuate"} \X Server)

(* Mutant: evacuate_server is called without requires=[disable_services].  *)
OrderWithoutRequires == {<<<<"retrieve", s>>, <<"evacuate", s>>>> : s \in Server}

Order ==
    {<<disable, <<"evacuate", s>>>> : s \in Server} \cup
    {<<<<"retrieve", s>>, <<"evacuate", s>>>> : s \in Server}

FlowOf(servers) == {disable} \cup ({"retrieve", "evacuate"} \X servers)

Engine == INSTANCE TaskFlow WITH Task <- EvacuationTask, Before <- Order

-----------------------------------------------------------------------------
TypeOK ==
    /\ Engine!TypeOK
    /\ waiting \subseteq Server
    /\ runs \in 0..MaxRuns
    /\ service \in {"enabled", "disabled"}
    /\ shown \in {"available", "blocked"}
    /\ asked \subseteq Server
    /\ place \in [Server -> {"nowhere", "host", "elsewhere"}]
    /\ status \in [Server -> {"NONE", "ACTIVE", "MIGRATING", "ERROR"}]

Init ==
    /\ Engine!Init
    /\ waiting = {}
    /\ runs = 0
    /\ service = "enabled"
    /\ shown = "available"
    /\ asked = {}
    /\ place \in [Server -> {"nowhere", "host"}]
    /\ status = [s \in Server |->
                    IF place[s] = "nowhere" THEN "NONE" ELSE "ACTIVE"]

-----------------------------------------------------------------------------
(* evacuate_servers asks nova for the servers of the host; from then on    *)
(* the flow knows these servers and no others.                             *)
EvacuateHost ==
    /\ runs < MaxRuns
    /\ Engine!Run(FlowOf({s \in Server : place[s] = "host"}))
    /\ runs' = runs + 1
    /\ waiting' = {}
    /\ UNCHANGED cloudVars

(* The engine submits a task, to execute it or to revert it.               *)
StartTask(t) ==
    /\ Engine!Execute(t) \/ Engine!Revert(t)
    /\ UNCHANGED <<waiting, runs, cloudVars>>

(* DisableService.execute: the event follows the answer of nova, which may *)
(* be an error although the service was disabled.                          *)
DisableService ==
    /\ \/ /\ Engine!Succeed(disable)
          /\ service' = "disabled"
          /\ shown' = "blocked"
       \/ /\ Engine!Fail(disable)
          /\ service' \in {service, "disabled"}
          /\ UNCHANGED shown
    /\ UNCHANGED <<waiting, runs, asked, place, status>>

(* DiableServiceWithRollback.revert, also after a failed execute.          *)
(* Mutant: the base class, which has no revert of its own.                 *)
EnableServiceNot ==
    /\ Engine!RevertSucceeds(disable)
    /\ UNCHANGED <<waiting, runs, cloudVars>>

EnableService ==
    /\ \/ /\ Engine!RevertSucceeds(disable)
          /\ service' = "enabled"
          /\ shown' = "available"
       \/ /\ Engine!RevertRaises(disable)
          /\ service' \in {service, "enabled"}
          /\ UNCHANGED shown
    /\ UNCHANGED <<waiting, runs, asked, place, status>>

RetrieveServer(s) ==
    /\ Engine!Succeed(<<"retrieve", s>>) \/ Engine!Fail(<<"retrieve", s>>)
    /\ UNCHANGED <<waiting, runs, cloudVars>>

(* The default revert of taskflow does nothing.                            *)
DefaultRevert(t) ==
    /\ t # disable
    /\ Engine!RevertSucceeds(t)
    /\ UNCHANGED <<waiting, runs, cloudVars>>

-----------------------------------------------------------------------------
(* EvacuateServer.execute: the request to live-migrate, which nova takes   *)
(* only for an active server; its answer may be an error nevertheless.     *)
(* The server stays active until nova begins.                              *)
MigrationTaken(s) ==
    /\ status[s] = "ACTIVE"
    /\ asked' = asked \cup {s}

EvacuateRequest(s) ==
    LET t == <<"evacuate", s>> IN
    /\ state[t] = "RUNNING"
    /\ s \notin waiting
    /\ \/ /\ MigrationTaken(s)
          /\ waiting' = waiting \cup {s}
          /\ UNCHANGED <<nodes, state, failures>>
       \/ MigrationTaken(s) /\ Engine!Fail(t) /\ UNCHANGED waiting
       \/ UNCHANGED asked /\ Engine!Fail(t) /\ UNCHANGED waiting
    /\ UNCHANGED <<runs, service, shown, place, status>>

(* EvacuateServer.execute: wait_for(...) polls until the server is active, *)
(* wherever it is: that is also so before nova begins.                     *)
EvacuateObserved(s) ==
    /\ s \in waiting
    /\ status[s] = "ACTIVE"
    /\ Engine!Succeed(<<"evacuate", s>>)
    /\ waiting' = waiting \ {s}
    /\ UNCHANGED <<runs, cloudVars>>

(* Mutant: without a timeout only the error state of the server ends it.   *)
WaitGivesUpOnError(s) ==
    /\ s \in waiting
    /\ status[s] = "ERROR"
    /\ Engine!Fail(<<"evacuate", s>>)
    /\ waiting' = waiting \ {s}
    /\ UNCHANGED <<runs, cloudVars>>

(* wait_for gives up: the timeout is over, a poll raised, or the server    *)
(* fell into the error state.                                              *)
WaitGivesUp(s) ==
    /\ s \in waiting
    /\ Engine!Fail(<<"evacuate", s>>)
    /\ waiting' = waiting \ {s}
    /\ UNCHANGED <<runs, cloudVars>>

-----------------------------------------------------------------------------
(* Nova begins a migration it has taken, or drops it when the scheduler    *)
(* finds no host or the server cannot be migrated.                         *)
NovaBegins(s) ==
    /\ s \in asked
    /\ asked' = asked \ {s}
    /\ \/ status[s] = "ACTIVE" /\ status' = [status EXCEPT ![s] = "MIGRATING"]
       \/ UNCHANGED status
    /\ UNCHANGED <<nodes, state, failures, waiting, runs, service, shown, place>>

(* Nova migrates to a host where the service is enabled, rolls back or     *)
(* fails.                                                                  *)
NovaMigrates(s) ==
    /\ status[s] = "MIGRATING"
    /\ \/ /\ \E to \in {"host", "elsewhere"} :
                /\ to = "host" => service = "enabled" \/ place[s] = "host"
                /\ place' = [place EXCEPT ![s] = to]
          /\ status' = [status EXCEPT ![s] = "ACTIVE"]
       \/ /\ status' = [status EXCEPT ![s] = "ERROR"]
          /\ UNCHANGED place
    /\ UNCHANGED <<nodes, state, failures, waiting, runs, service, shown, asked>>

(* The scheduler puts a new server on the host as long as the service      *)
(* there is enabled.                                                       *)
NovaBoots(s) ==
    /\ service = "enabled"
    /\ place[s] = "nowhere"
    /\ place' = [place EXCEPT ![s] = "host"]
    /\ status' = [status EXCEPT ![s] = "ACTIVE"]
    /\ UNCHANGED <<nodes, state, failures, waiting, runs, service, shown, asked>>

-----------------------------------------------------------------------------
FlowStep ==
    \/ \E t \in EvacuationTask : StartTask(t) \/ DefaultRevert(t)
    \/ DisableService
    \/ EnableService
    \/ \E s \in Server :
          \/ RetrieveServer(s) \/ EvacuateRequest(s)
          \/ EvacuateObserved(s) \/ WaitGivesUp(s)

NovaStep ==
    \E s \in Server : NovaBegins(s) \/ NovaMigrates(s) \/ NovaBoots(s)

Next == EvacuateHost \/ FlowStep \/ NovaStep

(* The engine's threads and the polls with a timeout always go on; nova    *)
(* may take as long as it likes.                                           *)
Spec == Init /\ [][Next]_vars /\ WF_vars(FlowStep)

-----------------------------------------------------------------------------
(* Properties.                                                             *)

(* The host stays blocked from before the first request to live-migrate a  *)
(* server until the last evacuation that was begun has been undone, so     *)
(* that the scheduler cannot bring back a server that was moved away.      *)
BlockedWhileEvacuating ==
    \A s \in Server :
        state[<<"evacuate", s>>] \notin {"PENDING", "REVERTED"} =>
            service = "disabled"

(* The outcome the engine reports is the one the cloud and the UI show:    *)
(* after a success the host is blocked; after a complete rollback that has *)
(* undone the blocking it is available, also when the request to disable   *)
(* the service was an error that had its effect.                           *)
ServiceMatchesOutcome ==
    /\ nodes # {} /\ Engine!Succeeded =>
          service = "disabled" /\ shown = "blocked"
    /\ Engine!Reverted /\ state[disable] = "REVERTED" =>
          service = "enabled" /\ shown = "available"

(* The functional test of the evacuation: after a success, no server that  *)
(* was found on the host is there any more.  The code takes the server     *)
(* being active for the end of its migration, which it also is before the  *)
(* migration begins and after it was given up.                             *)
HostIsCleared ==
    nodes # {} /\ Engine!Succeeded =>
        \A s \in Server : <<"evacuate", s>> \in nodes => place[s] # "host"

(* Every evacuation comes to an end, however long nova takes.              *)
EvacuationEnds == []<>Engine!Over

=============================================================================
