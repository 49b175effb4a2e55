---------------------------- MODULE Reassignment ----------------------------
(***************************************************************************)
(* Reassignment of a compute host from the source cloud to the             *)
(* destination: tasks/node.py builds the flow, taskflow runs it, Fuel      *)
(* carries it out.                                                         *)
(*                                                                         *)
(* The host's node is marked for removal from the source environment and   *)
(* the environment is deployed, which wipes and reboots the node; when     *)
(* Fuel has discovered it again it is assigned to the destination, gets    *)
(* the disk and network settings of a compute node there, and the          *)
(* destination is deployed.  Beside this, the services the host has left   *)
(* in the source cloud are deleted.  Nothing of this is undone when a task *)
(* fails: all reverts do nothing.                                          *)
(***************************************************************************)
EXTENDS Naturals

CONSTANT MaxRuns     \* bound: how often the operator reassigns the host

ASSUME ReassignmentAssumption == MaxRuns \in Nat

VARIABLES
    nodes, state, failures,   \* the engine, see TaskFlow
    waiting,    \* tasks that have asked for something and poll for it
    watched,    \* a deployment that is polled waits for the node to be finished
    runs,       \* how often the reassignment was started
    listed,     \* the node is among those read from the source environment
    deleted,    \* the compute service is among those that were deleted
    cluster,    \* Fuel: the environment the node belongs to, or "none"
    pending,    \* Fuel: what the next deployment does with the node
    node,       \* Fuel: status of the node
    deploy,     \* Fuel: the last deployment of each environment
    copied,     \* settings of the node taken from another compute node
    compute,    \* nova of each cloud: the record of the host's service
    shown       \* the host in the UI, in each cloud

fuelVars == <<cluster, pending, node, deploy, copied>>
localVars == <<waiting, watched, runs, listed, deleted>>
vars == <<nodes, state, failures, localVars, fuelVars, compute, shown>>

Cloud == {"source", "destination"}

(* Node.is_finished of the Fuel client.                                    *)
NodeFinished == node \in {"ready", "error"}

-----------------------------------------------------------------------------
(* The flow.  Tasks that only read are joined: "environments" are the      *)
(* three that read those, "choose" reads the nodes of the destination and  *)
(* chooses one with its roles, "update" includes the node's hostname.      *)

ReassignTask ==
    {"environments", "source_nodes", "node", "unassign", "deploy_source",
     "wait_unassigned", "delete_services", "delete_events",
     "choose", "assign", "copy_disks", "copy_nets", "deploy_destination",
     "update", "wait_computes", "success_events"}

(* Pairs from each task on the left to each on the right.                  *)
Reads == {"environments"} \X
    {"source_nodes", "unassign", "deploy_source", "choose", "assign", "deploy_destination"}

UnassignOrder ==
    {<<"source_nodes", "node">>, <<"node", "unassign">>,
     <<"unassign", "deploy_source">>} \cup
    {"unassign", "deploy_source"} \X {"wait_unassigned", "delete_services"} \cup
    {<<"delete_services", "delete_events">>}

(* Mutant: the deployment waits for one of the two kinds of settings only. *)
AssignOrderWithoutNets ==
    {<<"wait_unassigned", "assign">>, <<"choose", "assign">>,
     <<"copy_disks", "deploy_destination">>} \cup
    {"choose", "assign"} \X {"copy_disks", "copy_nets"}

AssignOrder ==
    {<<"wait_unassigned", "assign">>, <<"choose", "assign">>} \cup
    {"choose", "assign"} \X {"copy_disks", "copy_nets"} \cup
    {"copy_disks", "copy_nets"} \X {"deploy_destination"}

ComputesOrder ==
    {<<"assign", "update">>, <<"deploy_destination", "update">>,
     <<"update", "wait_computes">>, <<"deploy_destination", "wait_computes">>,
     <<"wait_computes", "success_events">>}

Order == Reads \cup UnassignOrder \cup AssignOrder \cup ComputesOrder

Engine == INSTANCE TaskFlow WITH Task <- ReassignTask, Before <- Order

-----------------------------------------------------------------------------
TypeOK ==
    /\ Engine!TypeOK
    /\ waiting \subseteq ReassignTask
    /\ watched \in [Cloud -> BOOLEAN]
    /\ runs \in 0..MaxRuns
    /\ listed \in BOOLEAN
    /\ deleted \in BOOLEAN
    /\ cluster \in Cloud \cup {"none"}
    /\ pending \in {"nothing", "removal", "addition"}
    /\ node \in {"ready", "rebooting", "discover", "error"}
    /\ deploy \in [Cloud -> {"none", "running", "ready", "error"}]
    /\ copied \subseteq {"disks", "nets"}
    /\ compute \in [Cloud -> {"absent", "present"}]
    /\ shown \in [Cloud -> {"absent", "shown", "reassignment"}]

In(source, destination) ==
    [c \in Cloud |-> IF c = "source" THEN source ELSE destination]

Init ==
    /\ Engine!Init
    /\ waiting = {}
    /\ watched = In(FALSE, FALSE)
    /\ runs = 0
    /\ listed = FALSE
    /\ deleted = FALSE
    /\ cluster = "source"
    /\ pending = "nothing"
    /\ node = "ready"
    /\ deploy = In("none", "none")
    /\ copied = {}
    /\ compute = In("present", "absent")
    /\ shown = In("shown", "absent")

-----------------------------------------------------------------------------
ReassignHost ==
    /\ runs < MaxRuns
    /\ Engine!Run(ReassignTask)
    /\ runs' = runs + 1
    /\ waiting' = {}
    /\ listed' = FALSE
    /\ deleted' = FALSE
    /\ UNCHANGED <<watched, fuelVars, compute, shown>>

StartTask(t) ==
    /\ Engine!Execute(t)
    /\ UNCHANGED <<localVars, fuelVars, compute, shown>>

(* The reverts of taskflow's Task and of DeployChanges do nothing, so they *)
(* are over as soon as they begin.                                         *)
DefaultRevert(t) ==
    /\ Engine!Undo(t)
    /\ UNCHANGED <<localVars, fuelVars, compute, shown>>

(* Any task can fail: a request is refused or gets no answer.              *)
TaskFails(t) ==
    /\ Engine!Fail(t)
    /\ t \notin waiting
    /\ UNCHANGED <<localVars, fuelVars, compute, shown>>

(* Tasks that only read; "choose" raises without a compute node to choose. *)
ReadTask(t) ==
    /\ t \in {"environments", "choose", "update"}
    /\ Engine!Succeed(t)
    /\ UNCHANGED <<localVars, fuelVars, compute, shown>>

-----------------------------------------------------------------------------
(* Away from the source environment.                                       *)

RetrieveEnvNodes ==
    /\ Engine!Succeed("source_nodes")
    /\ listed' = (cluster = "source")
    /\ UNCHANGED <<waiting, watched, runs, deleted, fuelVars, compute, shown>>

(* Raises KeyError (TaskFails) for a host that was not listed.             *)
RetrieveNode ==
    /\ listed
    /\ Engine!Succeed("node")
    /\ UNCHANGED <<localVars, fuelVars, compute, shown>>

(* UnassignNode: the mark for removal, then the event of the start, which  *)
(* is missing when reading the node back fails.                            *)
UnassignNode ==
    /\ cluster = "source"
    /\ pending' = "removal"
    /\ \/ /\ Engine!Succeed("unassign")
          /\ shown' = IF shown["source"] = "absent" THEN shown
                      ELSE [shown EXCEPT !["source"] = "reassignment"]
       \/ Engine!Fail("unassign") /\ UNCHANGED shown
    /\ UNCHANGED <<localVars, cluster, node, deploy, copied, compute>>

DeployOf(c) == IF c = "source" THEN "deploy_source" ELSE "deploy_destination"

(* DeployChanges: Fuel starts one deployment of an environment at a time.  *)
(* The answer may be lost.  With it the client reads the nodes of the      *)
(* environment, and waits for those that are not finished then: a node to  *)
(* be wiped may be on its way already.  The other nodes are taken to be    *)
(* finished.                                                               *)
DeployRequest(c) ==
    /\ state[DeployOf(c)] = "RUNNING"
    /\ DeployOf(c) \notin waiting
    /\ deploy[c] # "running"
    /\ deploy' = [deploy EXCEPT ![c] = "running"]
    /\ \/ /\ waiting' = waiting \cup {DeployOf(c)}
          /\ \E unfinished \in BOOLEAN :
                /\ unfinished => cluster = c /\ (NodeFinished => pending = "removal")
                /\ cluster = c /\ ~NodeFinished => unfinished
                /\ watched' = [watched EXCEPT ![c] = unfinished]
          /\ UNCHANGED <<nodes, state, failures>>
       \/ Engine!Fail(DeployOf(c)) /\ UNCHANGED <<waiting, watched>>
    /\ UNCHANGED <<runs, listed, deleted, cluster, pending, node, copied, compute, shown>>

(* Mutant: the iteration ends with a deployment that is ready only.        *)
DeployObservedReady(c) ==
    /\ DeployOf(c) \in waiting
    /\ deploy[c] = "ready"
    /\ watched[c] => NodeFinished
    /\ Engine!Succeed(DeployOf(c))
    /\ waiting' = waiting \ {DeployOf(c)}
    /\ UNCHANGED <<watched, runs, listed, deleted, fuelVars, compute, shown>>

(* The iteration over a deployment ends when it is over and the nodes it   *)
(* waits for are finished.  It raises for an error only when it reads the  *)
(* status after it has found something unfinished; otherwise the error     *)
(* ends it like a success.                                                 *)
DeployObserved(c) ==
    /\ DeployOf(c) \in waiting
    /\ \/ /\ deploy[c] \in {"ready", "error"}
          /\ watched[c] => NodeFinished
          /\ Engine!Succeed(DeployOf(c))
       \/ deploy[c] = "error" /\ Engine!Fail(DeployOf(c))
    /\ waiting' = waiting \ {DeployOf(c)}
    /\ UNCHANGED <<watched, runs, listed, deleted, fuelVars, compute, shown>>

(* Polling for a deployment raises, while Fuel goes on with it.            *)
DeployGivesUp(c) ==
    /\ DeployOf(c) \in waiting
    /\ Engine!Fail(DeployOf(c))
    /\ waiting' = waiting \ {DeployOf(c)}
    /\ UNCHANGED <<watched, runs, listed, deleted, fuelVars, compute, shown>>

(* Mutant: every node that has left the environment is taken for one that  *)
(* is discovered.                                                          *)
UnassignedObservedAnyStatus ==
    /\ state["wait_unassigned"] = "RUNNING"
    /\ cluster = "none"
    /\ Engine!Succeed("wait_unassigned")
    /\ UNCHANGED <<localVars, fuelVars, compute, shown>>

(* WaitUnassignedNode polls all nodes for one with the same addresses that *)
(* is discovered.                                                          *)
UnassignedObserved ==
    /\ state["wait_unassigned"] = "RUNNING"
    /\ node = "discover"
    /\ Engine!Succeed("wait_unassigned")
    /\ UNCHANGED <<localVars, fuelVars, compute, shown>>

(* DeleteServicesSilently: a service whose deletion raises is skipped,     *)
(* also when nova has carried it out and only the answer is an error.      *)
DeleteServices ==
    /\ Engine!Succeed("delete_services")
    /\ \/ compute' = [compute EXCEPT !["source"] = "absent"]
       \/ UNCHANGED compute
    /\ deleted' \in {FALSE, compute' # compute}
    /\ UNCHANGED <<waiting, watched, runs, listed, fuelVars, shown>>

(* Mutant: the host is taken from the UI whatever was deleted.             *)
HostsDeleteEventsAlways ==
    /\ Engine!Succeed("delete_events")
    /\ shown' = [shown EXCEPT !["source"] = "absent"]
    /\ UNCHANGED <<localVars, fuelVars, compute>>

HostsDeleteEvents ==
    /\ Engine!Succeed("delete_events")
    /\ shown' = IF deleted THEN [shown EXCEPT !["source"] = "absent"] ELSE shown
    /\ UNCHANGED <<localVars, fuelVars, compute>>

-----------------------------------------------------------------------------
(* Into the destination environment.                                       *)

(* AssignNode asks Fuel and then shows the host.                           *)
AssignNode ==
    /\ cluster' = "destination"
    /\ pending' = "addition"
    /\ copied' = {}
    /\ \/ /\ Engine!Succeed("assign")
          /\ shown' = [shown EXCEPT !["destination"] = "reassignment"]
       \/ Engine!Fail("assign") /\ UNCHANGED shown
    /\ UNCHANGED <<localVars, node, deploy, compute>>

CopyAttributes(t, settings) ==
    /\ Engine!Succeed(t) \/ Engine!Fail(t)
    /\ copied' = copied \cup {settings}
    /\ UNCHANGED <<localVars, cluster, pending, node, deploy, compute, shown>>

(* Mutant: any answer of nova ends the wait, also an empty list.           *)
ComputesObservedAny ==
    /\ Engine!Succeed("wait_computes")
    /\ UNCHANGED <<localVars, fuelVars, compute, shown>>

(* WaitComputesServices polls for a nova-compute that is up and enabled.   *)
ComputesObserved ==
    /\ compute["destination"] = "present"
    /\ Engine!Succeed("wait_computes")
    /\ UNCHANGED <<localVars, fuelVars, compute, shown>>

HostsSuccessEvents ==
    /\ Engine!Succeed("success_events")
    /\ shown' = [shown EXCEPT !["destination"] = "shown"]
    /\ UNCHANGED <<localVars, fuelVars, compute>>

-----------------------------------------------------------------------------
(* Fuel and nova.                                                          *)

(* What a deployment does with the node, if there is something to do.      *)
Due(c) ==
    cluster = c /\ pending = IF c = "source" THEN "removal" ELSE "addition"

Deployed(c) ==
    /\ Due(c)
    /\ pending' = "nothing"
    /\ cluster' = IF c = "source" THEN "none" ELSE c
    /\ node' = IF c = "source" THEN "rebooting" ELSE "ready"

(* Fuel fails to wipe or to install the node.                              *)
Botched(c) ==
    /\ Due(c)
    /\ node' = "error"
    /\ pending' \in {pending, "nothing"}
    /\ UNCHANGED cluster

(* A deployment that fails may have done its part to this node, failed at  *)
(* it, or not come to it.                                                  *)
FuelDeploys(c) ==
    /\ deploy[c] = "running"
    /\ \/ /\ deploy' = [deploy EXCEPT ![c] = "ready"]
          /\ Deployed(c) \/ (~Due(c) /\ UNCHANGED <<cluster, node, pending>>)
       \/ /\ deploy' = [deploy EXCEPT ![c] = "error"]
          /\ Deployed(c) \/ Botched(c) \/ UNCHANGED <<cluster, node, pending>>
    /\ UNCHANGED <<nodes, state, failures, localVars, copied, compute, shown>>

FuelDiscovers ==
    /\ node = "rebooting"
    /\ node' = "discover"
    /\ UNCHANGED <<nodes, state, failures, localVars, cluster, pending, deploy,
                   copied, compute, shown>>

(* nova-compute registers with the cloud whose node it runs on, also after *)
(* its record was deleted, and also on a node whose deployment failed      *)
(* later on.                                                               *)
ComputeReports(c) ==
    /\ cluster = c
    /\ NodeFinished
    /\ compute[c] = "absent"
    /\ compute' = [compute EXCEPT ![c] = "present"]
    /\ UNCHANGED <<nodes, state, failures, localVars, fuelVars, shown>>

-----------------------------------------------------------------------------
TaskEnds ==
    \/ \E t \in ReassignTask : StartTask(t) \/ DefaultRevert(t) \/ TaskFails(t) \/ ReadTask(t)
    \/ RetrieveEnvNodes \/ RetrieveNode \/ UnassignNode
    \/ \E c \in Cloud : DeployRequest(c) \/ DeployObserved(c)
    \/ UnassignedObserved \/ DeleteServices \/ HostsDeleteEvents
    \/ AssignNode
    \/ CopyAttributes("copy_disks", "disks") \/ CopyAttributes("copy_nets", "nets")
    \/ ComputesObserved \/ HostsSuccessEvents

FuelStep == \E c \in Cloud : FuelDeploys(c)

Next ==
    \/ ReassignHost
    \/ TaskEnds
    \/ \E c \in Cloud : DeployGivesUp(c)
    \/ FuelStep
    \/ FuelDiscovers
    \/ \E c \in Cloud : ComputeReports(c)

(* The engine's threads go on, and the waits for a discovered node and for *)
(* a compute service have timeouts.  The wait for a deployment has none:   *)
(* that Fuel ends each deployment, well or badly, is assumed of Fuel.      *)
Spec == Init /\ [][Next]_vars /\ WF_vars(TaskEnds) /\ WF_vars(FuelStep)

-----------------------------------------------------------------------------
(* Properties.                                                             *)

(* A node is only ever assigned to the destination when it has left the    *)
(* source and Fuel has discovered it, although a failed deployment of the  *)
(* source may count as done.                                               *)
AssignedOnlyWhenFree ==
    [][cluster' = "destination" /\ cluster # "destination" =>
          cluster = "none" /\ node = "discover"]_vars

(* The destination is deployed only with a node that has both kinds of     *)
(* settings (doc/USAGE.md: configure disks and interfaces, then deploy).   *)
SettingsBeforeDeployment ==
    deploy["destination"] = "running" => copied = {"disks", "nets"}

(* When the flow succeeds the host serves the destination cloud and the UI *)
(* shows it there, although the error of a deployment may be overlooked:   *)
(* then the node can be left in error with its nova-compute up.            *)
ServingWhenDone ==
    nodes # {} /\ Engine!Succeeded =>
        /\ cluster = "destination"
        /\ \/ node = "ready" /\ pending = "nothing"
           \/ node = "error" /\ deploy["destination"] = "error"
        /\ compute["destination"] = "present"
        /\ shown["destination"] = "shown"

(* When the first reassignment succeeds, a host the UI no longer shows in  *)
(* the source cloud has no service there any more: neither a deletion that *)
(* failed nor a service that has reported again is hidden.  (The host can  *)
(* stay shown although its service is gone: the answer may be lost.)       *)
HiddenOnlyIfGone ==
    runs = 1 /\ Engine!Succeeded =>
        (shown["source"] = "absent" => compute["source"] = "absent")

(* The source's deployment is over and has wiped a node that was on its    *)
(* way when the client read it: it will not be finished again.             *)
WaitsForever ==
    /\ "deploy_source" \in waiting
    /\ watched["source"]
    /\ deploy["source"] = "ready"
    /\ node \in {"rebooting", "discover"}

(* Every reassignment comes to an end if Fuel ends its deployments, unless *)
(* the wait for the source's deployment, which has no timeout, also waits  *)
(* for the wiped node.                                                     *)
ReassignmentEnds == []<>(Engine!Over \/ WaitsForever)

=============================================================================
