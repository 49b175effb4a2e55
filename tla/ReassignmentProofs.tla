------------------------- MODULE ReassignmentProofs -------------------------
(***************************************************************************)
(* Theorems about the reassignment of a host, for any number of runs.      *)
(*                                                                         *)
(* Each safety property relates where the node is to what a task that has  *)
(* succeeded says about it, so the invariant follows the node: Location    *)
(* says how Fuel's and nova's views of the node agree, and Finished what   *)
(* each finished task guarantees from then on.                             *)
(***************************************************************************)
EXTENDS Reassignment, TLAPS

EngineProofs == INSTANCE TaskFlowProofs WITH
    Task <- ReassignTask, Before <- Order

-----------------------------------------------------------------------------
(* The engine.                                                             *)

(* The module of the engine's proofs speaks of the same engine.            *)
LEMMA SameActions ==
    ASSUME NEW t
    PROVE  /\ EngineProofs!Run(t) <=> Engine!Run(t)
           /\ EngineProofs!Execute(t) <=> Engine!Execute(t)
           /\ EngineProofs!Succeed(t) <=> Engine!Succeed(t)
           /\ EngineProofs!Fail(t) <=> Engine!Fail(t)
           /\ EngineProofs!Undo(t) <=> Engine!Undo(t)
<1>1. EngineProofs!Run(t) <=> Engine!Run(t)
  BY DEF Engine!Run, Engine!Over, Engine!Succeeded, Engine!Reverted,
         Engine!Failed, Engine!Busy, EngineProofs!Run, EngineProofs!Over,
         EngineProofs!Succeeded, EngineProofs!Reverted, EngineProofs!Failed,
         EngineProofs!Busy
<1>2. EngineProofs!Execute(t) <=> Engine!Execute(t)
  BY DEF Engine!Execute, Engine!ReadyToExecute, Engine!Failed, Engine!Move,
         Engine!Predecessors, EngineProofs!Execute, EngineProofs!Failed,
         EngineProofs!ReadyToExecute, EngineProofs!Move,
         EngineProofs!Predecessors
<1>3. EngineProofs!Undo(t) <=> Engine!Undo(t)
  BY DEF Engine!Undo, Engine!ReadyToRevert, Engine!Failed, Engine!Move,
         Engine!Successors, EngineProofs!Undo, EngineProofs!Failed,
         EngineProofs!ReadyToRevert, EngineProofs!Move,
         EngineProofs!Successors
<1>4. /\ EngineProofs!Succeed(t) <=> Engine!Succeed(t)
      /\ EngineProofs!Fail(t) <=> Engine!Fail(t)
  BY DEF Engine!Succeed, Engine!Fail, Engine!Move, EngineProofs!Succeed,
         EngineProofs!Fail, EngineProofs!Move
<1>. QED  BY <1>1, <1>2, <1>3, <1>4

(* Every step of the reassignment is a step of the engine, or leaves it be.*)
LEMMA EngineStep ==
    ASSUME [Next]_vars
    PROVE  [EngineProofs!Next]_(EngineProofs!flowVars)
<1> USE DEF EngineProofs!flowVars
<1>1. ASSUME NEW t \in ReassignTask,
             \/ Engine!Execute(t) \/ Engine!Succeed(t) \/ Engine!Fail(t)
             \/ Engine!Undo(t)
      PROVE  EngineProofs!Next
  BY <1>1, SameActions DEF EngineProofs!Next, EngineProofs!TaskStep
<1>2. CASE ReassignHost
  BY <1>2, SameActions DEF ReassignHost, EngineProofs!Next
<1>3. ASSUME NEW t \in ReassignTask,
             StartTask(t) \/ DefaultRevert(t) \/ TaskFails(t) \/ ReadTask(t)
      PROVE  EngineProofs!Next
  BY <1>1, <1>3 DEF StartTask, DefaultRevert, TaskFails, ReadTask
<1>4. CASE RetrieveEnvNodes \/ RetrieveNode \/ UnassignNode
  BY <1>1, <1>4 DEF RetrieveEnvNodes, RetrieveNode, UnassignNode, ReassignTask
<1>5. ASSUME NEW c \in Cloud,
             DeployRequest(c) \/ DeployObserved(c) \/ DeployGivesUp(c)
      PROVE  EngineProofs!Next \/ UNCHANGED <<nodes, state, failures>>
  <2>1. DeployOf(c) \in ReassignTask
    BY DEF DeployOf, ReassignTask
  <2>. QED  BY <1>1, <1>5, <2>1 DEF DeployRequest, DeployObserved, DeployGivesUp
<1>6. CASE UnassignedObserved \/ DeleteServices \/ HostsDeleteEvents
  BY <1>1, <1>6
     DEF UnassignedObserved, DeleteServices, HostsDeleteEvents, ReassignTask
<1>7. CASE AssignNode
  BY <1>1, <1>7 DEF AssignNode, ReassignTask
<1>8. CASE CopyAttributes("copy_disks", "disks") \/ CopyAttributes("copy_nets", "nets")
  BY <1>1, <1>8 DEF CopyAttributes, ReassignTask
<1>9. CASE ComputesObserved \/ HostsSuccessEvents
  BY <1>1, <1>9 DEF ComputesObserved, HostsSuccessEvents, ReassignTask
<1>10. ASSUME NEW c \in Cloud, FuelDeploys(c) \/ ComputeReports(c)
       PROVE  UNCHANGED <<nodes, state, failures>>
  BY <1>10 DEF FuelDeploys, ComputeReports
<1>11. CASE FuelDiscovers
  BY <1>11 DEF FuelDiscovers
<1>12. CASE UNCHANGED vars
  BY <1>12 DEF vars
<1>. QED
  BY <1>2, <1>3, <1>4, <1>5, <1>6, <1>7, <1>8, <1>9, <1>10, <1>11, <1>12
     DEF Next, TaskEnds, FuelStep

(* The engine's type invariant and the order of its dependencies carry     *)
(* over to the reassignment.                                               *)
LEMMA EngineInvariants ==
    Spec => [](Engine!TypeOK /\ Engine!DependenciesHold)
<1>1. Init => EngineProofs!Init
  BY DEF Init, Engine!Init, EngineProofs!Init
<1>2. EngineProofs!Init =>
          EngineProofs!TypeOK /\ EngineProofs!DependenciesHold
  BY DEF EngineProofs!Init, EngineProofs!TypeOK, EngineProofs!TaskState,
         EngineProofs!DependenciesHold
<1>3. /\ EngineProofs!TypeOK
      /\ EngineProofs!DependenciesHold
      /\ [Next]_vars
      => EngineProofs!TypeOK' /\ EngineProofs!DependenciesHold'
  BY EngineStep, EngineProofs!FlowTypeStep, EngineProofs!DependenciesStep
<1>4. EngineProofs!TypeOK /\ EngineProofs!DependenciesHold =>
          Engine!TypeOK /\ Engine!DependenciesHold
  BY DEF Engine!TypeOK, EngineProofs!TypeOK, Engine!TaskState,
         EngineProofs!TaskState, Engine!DependenciesHold,
         EngineProofs!DependenciesHold, Engine!Predecessors,
         EngineProofs!Predecessors, Engine!Successors,
         EngineProofs!Successors
<1>. QED  BY <1>1, <1>2, <1>3, <1>4, PTL DEF Spec

(* What an operation of the engine does to a task.                         *)
LEMMA EngineMoves ==
    ASSUME NEW t
    PROVE  /\ Engine!Execute(t) =>
                 /\ t \in nodes /\ nodes' = nodes /\ state[t] = "PENDING"
                 /\ state' = [state EXCEPT ![t] = "RUNNING"]
           /\ Engine!Succeed(t) =>
                 /\ t \in nodes /\ nodes' = nodes /\ state[t] = "RUNNING"
                 /\ state' = [state EXCEPT ![t] = "SUCCESS"]
           /\ Engine!Fail(t) =>
                 /\ t \in nodes /\ nodes' = nodes /\ state[t] = "RUNNING"
                 /\ state' = [state EXCEPT ![t] = "FAILURE"]
           /\ Engine!Undo(t) =>
                 /\ t \in nodes /\ nodes' = nodes
                 /\ state[t] \in {"SUCCESS", "FAILURE"}
                 /\ state' = [state EXCEPT ![t] = "REVERTED"]
BY DEF Engine!Execute, Engine!Succeed, Engine!Fail, Engine!Undo, Engine!Move,
       Engine!ReadyToExecute, Engine!ReadyToRevert

-----------------------------------------------------------------------------
(* The inductive invariant.                                                *)

(* Before the first run no task has begun; then the flow is always whole.  *)
FlowShape ==
    \/ nodes = {} /\ \A t \in ReassignTask : state[t] = "PENDING"
    \/ nodes = ReassignTask

(* Fuel's and nova's views of the node agree: a node that was wiped is out *)
(* of the source, nothing is left to do for one that is ready in the       *)
(* destination, one in error there was left so by the last deployment,     *)
(* only such nodes run a compute service there, and the destination is     *)
(* deployed only with the node in it.                                      *)
Location ==
    /\ node \in {"rebooting", "discover"} => cluster # "source"
    /\ cluster = "destination" /\ node = "ready" => pending = "nothing"
    /\ cluster = "destination" /\ node = "error" => deploy["destination"] = "error"
    /\ compute["destination"] = "present" => cluster = "destination" /\ NodeFinished
    /\ deploy["destination"] = "running" => cluster = "destination"

NotAssigned == state["assign"] \in {"PENDING", "RUNNING"}

(* The destination's deployment was not asked for in this run.             *)
NotAsked ==
    \/ state["deploy_destination"] = "PENDING"
    \/ state["deploy_destination"] = "RUNNING" /\ "deploy_destination" \notin waiting

(* A node that was assigned stays as it was discovered until the           *)
(* destination is deployed with it.                                        *)
Untouched ==
    state["assign"] = "SUCCESS" /\ NotAsked =>
        node = "discover" /\ deploy["destination"] # "running"

(* What a finished task guarantees: those before the assignment until it   *)
(* is carried out, those after it for the rest of the run.                 *)
Finished ==
    /\ state["unassign"] = "SUCCESS" /\ NotAssigned => cluster # "destination"
    /\ state["wait_unassigned"] = "SUCCESS" /\ NotAssigned =>
           cluster = "none" /\ node = "discover"
    /\ state["assign"] = "SUCCESS" => cluster = "destination"
    /\ state["copy_disks"] = "SUCCESS" => "disks" \in copied
    /\ state["copy_nets"] = "SUCCESS" => "nets" \in copied
    /\ state["wait_computes"] = "SUCCESS" => compute["destination"] = "present"
    /\ state["success_events"] = "SUCCESS" => shown["destination"] = "shown"

IInv ==
    /\ TypeOK
    /\ Engine!DependenciesHold
    /\ FlowShape
    /\ Location
    /\ Finished
    /\ Untouched
    /\ SettingsBeforeDeployment

-----------------------------------------------------------------------------
(* What the order of the tasks says.                                       *)

(* What a task that has begun depends on has succeeded.                    *)
LEMMA Rests ==
    ASSUME IInv, NEW u \in ReassignTask, NEW t \in nodes, <<u, t>> \in Order,
           state[t] \notin {"PENDING", "REVERTED"}
    PROVE  state[u] = "SUCCESS"
BY DEF IInv, FlowShape, Engine!DependenciesHold, Engine!Predecessors

(* What depends on a task that has not ended has not begun.                *)
LEMMA NotBegun ==
    ASSUME IInv, NEW u \in nodes, NEW t \in ReassignTask, <<u, t>> \in Order,
           state[u] \in {"PENDING", "RUNNING"}
    PROVE  state[t] = "PENDING"
BY DEF IInv, FlowShape, Engine!DependenciesHold, Engine!Successors

(* The node is only assigned when it has been seen discovered, and then    *)
(* nothing that comes after has begun.                                     *)
LEMMA WhenAssigned ==
    ASSUME IInv, "assign" \in nodes, state["assign"] = "RUNNING"
    PROVE  /\ cluster = "none" /\ node = "discover"
           /\ state["copy_disks"] = "PENDING" /\ state["copy_nets"] = "PENDING"
           /\ state["wait_computes"] # "SUCCESS"
           /\ state["success_events"] # "SUCCESS"
<1>1. /\ <<"wait_unassigned", "assign">> \in Order
      /\ <<"assign", "copy_disks">> \in Order /\ <<"assign", "copy_nets">> \in Order
      /\ <<"assign", "update">> \in Order /\ <<"update", "wait_computes">> \in Order
      /\ <<"wait_computes", "success_events">> \in Order
  BY DEF Order, AssignOrder, ComputesOrder
<1>2. /\ {"wait_unassigned", "copy_disks", "copy_nets", "update", "wait_computes",
          "success_events"} \subseteq ReassignTask
      /\ nodes = ReassignTask
  BY DEF IInv, FlowShape, ReassignTask
<1>3. state["wait_unassigned"] = "SUCCESS"
  BY <1>1, <1>2, Rests
<1>4. /\ state["copy_disks"] = "PENDING" /\ state["copy_nets"] = "PENDING"
      /\ state["update"] = "PENDING"
  BY <1>1, <1>2, NotBegun
<1>5. state["wait_computes"] = "PENDING"
  BY <1>1, <1>2, <1>4, NotBegun
<1>6. state["success_events"] = "PENDING"
  BY <1>1, <1>2, <1>5, NotBegun
<1>. QED  BY <1>3, <1>4, <1>5, <1>6 DEF IInv, Finished, NotAssigned

(* The destination is deployed with the node in it and its settings made.  *)
LEMMA WhenDeployed ==
    ASSUME IInv, "deploy_destination" \in nodes,
           state["deploy_destination"] = "RUNNING"
    PROVE  cluster = "destination" /\ copied = {"disks", "nets"} /\ state["assign"] = "SUCCESS"
<1>1. /\ <<"copy_disks", "deploy_destination">> \in Order
      /\ <<"copy_nets", "deploy_destination">> \in Order
      /\ <<"assign", "copy_disks">> \in Order
  BY DEF Order, AssignOrder
<1>2. {"copy_disks", "copy_nets", "assign"} \subseteq ReassignTask /\ nodes = ReassignTask
  BY DEF IInv, FlowShape, ReassignTask
<1>3. state["copy_disks"] = "SUCCESS" /\ state["copy_nets"] = "SUCCESS"
  BY <1>1, <1>2, Rests
<1>4. state["assign"] = "SUCCESS"
  BY <1>1, <1>2, <1>3, Rests
<1>. QED  BY <1>3, <1>4 DEF IInv, Finished, TypeOK

(* A discovered node that is waited for is in no environment.              *)
LEMMA WhenDiscovered ==
    ASSUME IInv, "wait_unassigned" \in nodes, state["wait_unassigned"] = "RUNNING",
           node = "discover"
    PROVE  cluster = "none"
<1>1. /\ <<"unassign", "wait_unassigned">> \in Order
      /\ <<"wait_unassigned", "assign">> \in Order
  BY DEF Order, UnassignOrder, AssignOrder
<1>2. {"unassign", "assign"} \subseteq ReassignTask
  BY DEF ReassignTask
<1>3. state["unassign"] = "SUCCESS" /\ state["assign"] = "PENDING"
  BY <1>1, <1>2, Rests, NotBegun
<1>. QED  BY <1>3 DEF IInv, Finished, NotAssigned, Location, TypeOK, Cloud

-----------------------------------------------------------------------------
(* The steps.                                                              *)

(* Every step keeps the state well typed.                                  *)
LEMMA TypeStep ==
    ASSUME TypeOK, [Next]_vars, Engine!TypeOK'
    PROVE  TypeOK'
<1> USE DEF TypeOK, fuelVars, localVars
<1>. "source" \in Cloud /\ "destination" \in Cloud
  BY DEF Cloud
<1>1. CASE ReassignHost
  <2>1. runs' \in 0..MaxRuns
    BY <1>1, ReassignmentAssumption DEF ReassignHost
  <2>2. waiting' = {} /\ listed' = FALSE /\ deleted' = FALSE
    BY <1>1 DEF ReassignHost
  <2>. QED  BY <1>1, <2>1, <2>2 DEF ReassignHost
<1>2. ASSUME NEW t \in ReassignTask,
             StartTask(t) \/ DefaultRevert(t) \/ TaskFails(t) \/ ReadTask(t)
      PROVE  TypeOK'
  BY <1>2 DEF StartTask, DefaultRevert, TaskFails, ReadTask
<1>3. CASE RetrieveEnvNodes \/ RetrieveNode
  BY <1>3 DEF RetrieveEnvNodes, RetrieveNode
<1>4. CASE UnassignNode
  BY <1>4 DEF UnassignNode
<1>5. ASSUME NEW c \in Cloud,
             DeployRequest(c) \/ DeployObserved(c) \/ DeployGivesUp(c)
      PROVE  TypeOK'
  <2>1. DeployOf(c) \in ReassignTask
    BY DEF DeployOf, ReassignTask
  <2>2. CASE DeployRequest(c)
    <3>1. waiting' \subseteq ReassignTask
      BY <2>1, <2>2 DEF DeployRequest
    <3>2. deploy' \in [Cloud -> {"none", "running", "ready", "error"}]
      BY <2>2 DEF DeployRequest
    <3>3. watched' \in [Cloud -> BOOLEAN]
      BY <2>2 DEF DeployRequest
    <3>. QED  BY <2>2, <3>1, <3>2, <3>3 DEF DeployRequest
  <2>3. CASE DeployObserved(c) \/ DeployGivesUp(c)
    <3>1. waiting' \subseteq ReassignTask
      BY <2>3 DEF DeployObserved, DeployGivesUp
    <3>. QED  BY <2>3, <3>1 DEF DeployObserved, DeployGivesUp
  <2>. QED  BY <1>5, <2>2, <2>3
<1>6. CASE UnassignedObserved \/ DeleteServices \/ HostsDeleteEvents
  <2>1. CASE UnassignedObserved
    BY <2>1 DEF UnassignedObserved
  <2>2. CASE DeleteServices
    BY <2>2 DEF DeleteServices
  <2>3. CASE HostsDeleteEvents
    BY <2>3 DEF HostsDeleteEvents
  <2>. QED  BY <1>6, <2>1, <2>2, <2>3
<1>7. CASE AssignNode
  BY <1>7 DEF AssignNode
<1>8. ASSUME NEW t, NEW settings \in {"disks", "nets"}, CopyAttributes(t, settings)
      PROVE  TypeOK'
  BY <1>8 DEF CopyAttributes
<1>9. CASE ComputesObserved
  BY <1>9 DEF ComputesObserved
<1>10. CASE HostsSuccessEvents
  BY <1>10 DEF HostsSuccessEvents
<1>11. ASSUME NEW c \in Cloud, FuelDeploys(c) \/ ComputeReports(c) PROVE TypeOK'
  <2>1. CASE FuelDeploys(c)
    <3>1. /\ cluster' \in Cloud \cup {"none"}
          /\ pending' \in {"nothing", "removal", "addition"}
          /\ node' \in {"ready", "rebooting", "discover", "error"}
      BY <2>1 DEF FuelDeploys, Deployed, Botched, Cloud
    <3>2. deploy' \in [Cloud -> {"none", "running", "ready", "error"}]
      BY <2>1 DEF FuelDeploys
    <3>. QED  BY <2>1, <3>1, <3>2 DEF FuelDeploys
  <2>2. CASE ComputeReports(c)
    BY <2>2 DEF ComputeReports
  <2>. QED  BY <1>11, <2>1, <2>2
<1>12. CASE FuelDiscovers
  BY <1>12 DEF FuelDiscovers
<1>13. CASE UNCHANGED vars
  BY <1>13 DEF vars
<1>. QED
  BY <1>1, <1>2, <1>3, <1>4, <1>5, <1>6, <1>7, <1>8, <1>9, <1>10, <1>11, <1>12,
     <1>13 DEF Next, TaskEnds, FuelStep

(* Every step keeps the shape of the flow that is run.                     *)
LEMMA FlowShapeStep ==
    ASSUME FlowShape, [Next]_vars
    PROVE  FlowShape'
<1> USE EngineMoves DEF FlowShape
<1>1. CASE ReassignHost
  BY <1>1 DEF ReassignHost, Engine!Run
<1>2. ASSUME NEW t \in ReassignTask,
             StartTask(t) \/ DefaultRevert(t) \/ TaskFails(t) \/ ReadTask(t)
      PROVE  FlowShape'
  BY <1>2 DEF StartTask, DefaultRevert, TaskFails, ReadTask
<1>3. CASE RetrieveEnvNodes \/ RetrieveNode \/ UnassignNode
  BY <1>3 DEF RetrieveEnvNodes, RetrieveNode, UnassignNode
<1>4. ASSUME NEW c \in Cloud,
             DeployRequest(c) \/ DeployObserved(c) \/ DeployGivesUp(c)
      PROVE  FlowShape'
  BY <1>4 DEF DeployRequest, DeployObserved, DeployGivesUp
<1>5. CASE UnassignedObserved \/ DeleteServices \/ HostsDeleteEvents
  BY <1>5 DEF UnassignedObserved, DeleteServices, HostsDeleteEvents
<1>6. CASE AssignNode \/ CopyAttributes("copy_disks", "disks")
           \/ CopyAttributes("copy_nets", "nets")
  BY <1>6 DEF AssignNode, CopyAttributes
<1>7. CASE ComputesObserved \/ HostsSuccessEvents
  BY <1>7 DEF ComputesObserved, HostsSuccessEvents
<1>8. ASSUME NEW c \in Cloud, FuelDeploys(c) \/ ComputeReports(c) PROVE FlowShape'
  BY <1>8 DEF FuelDeploys, ComputeReports
<1>9. CASE FuelDiscovers \/ UNCHANGED vars
  BY <1>9 DEF FuelDiscovers, vars
<1>. QED
  BY <1>1, <1>2, <1>3, <1>4, <1>5, <1>6, <1>7, <1>8, <1>9 DEF Next, TaskEnds, FuelStep

(* Where the node is follows from the tasks that have succeeded.           *)
LEMMA LocationStep ==
    ASSUME IInv, [Next]_vars
    PROVE  Location' /\ SettingsBeforeDeployment'
<1> DEFINE Goal == Location' /\ SettingsBeforeDeployment'
<1>. /\ Location /\ SettingsBeforeDeployment
     /\ compute \in [Cloud -> {"absent", "present"}]
     /\ deploy \in [Cloud -> {"none", "running", "ready", "error"}]
     /\ "source" \in Cloud /\ "destination" \in Cloud /\ "source" # "destination"
     /\ copied \subseteq {"disks", "nets"}
  BY DEF IInv, TypeOK, Cloud
<1> USE DEF Location, SettingsBeforeDeployment, NodeFinished, fuelVars, localVars
<1>1. CASE ReassignHost
  BY <1>1 DEF ReassignHost
<1>2. ASSUME NEW t \in ReassignTask,
             StartTask(t) \/ DefaultRevert(t) \/ TaskFails(t) \/ ReadTask(t)
      PROVE  Goal
  BY <1>2 DEF StartTask, DefaultRevert, TaskFails, ReadTask
<1>3. CASE RetrieveEnvNodes \/ RetrieveNode
  BY <1>3 DEF RetrieveEnvNodes, RetrieveNode
<1>4. CASE UnassignNode
  BY <1>4 DEF UnassignNode
<1>5. CASE DeployRequest("destination")
  <2>1. "deploy_destination" \in nodes
    <3>1. state["deploy_destination"] = "RUNNING" /\ "deploy_destination" \in ReassignTask
      BY <1>5 DEF DeployRequest, DeployOf, ReassignTask
    <3>. QED  BY <3>1 DEF IInv, FlowShape
  <2>2. /\ cluster = "destination" /\ copied = {"disks", "nets"}
        /\ state["assign"] = "SUCCESS" /\ NotAsked
    BY <1>5, <2>1, WhenDeployed DEF DeployRequest, DeployOf, NotAsked
  <2>3. node = "discover"
    BY <2>2 DEF IInv, Untouched
  <2>. QED  BY <1>5, <2>2, <2>3 DEF DeployRequest
<1>6. CASE DeployRequest("source")
  BY <1>6 DEF DeployRequest
<1>7. ASSUME NEW c \in Cloud, DeployObserved(c) \/ DeployGivesUp(c)
      PROVE  Goal
  BY <1>7 DEF DeployObserved, DeployGivesUp
<1>8. CASE UnassignedObserved \/ HostsDeleteEvents
  BY <1>8 DEF UnassignedObserved, HostsDeleteEvents
<1>9. CASE DeleteServices
  BY <1>9 DEF DeleteServices
<1>10. CASE AssignNode
  <2>1. cluster = "none" /\ node = "discover"
    BY <1>10, EngineMoves, WhenAssigned DEF AssignNode
  <2>. QED  BY <1>10, <2>1 DEF AssignNode
<1>11. CASE CopyAttributes("copy_disks", "disks") \/ CopyAttributes("copy_nets", "nets")
  BY <1>11 DEF CopyAttributes
<1>12. CASE ComputesObserved \/ HostsSuccessEvents
  BY <1>12 DEF ComputesObserved, HostsSuccessEvents
<1>13. ASSUME NEW c \in Cloud, FuelDeploys(c) PROVE Goal
  BY <1>13 DEF FuelDeploys, Deployed, Botched, Due, Cloud
<1>14. ASSUME NEW c \in Cloud, ComputeReports(c) PROVE Goal
  BY <1>14 DEF ComputeReports
<1>15. CASE FuelDiscovers
  BY <1>15 DEF FuelDiscovers
<1>16. CASE UNCHANGED vars
  BY <1>16 DEF vars
<1>17. ASSUME NEW c \in Cloud, DeployRequest(c) PROVE Goal
  BY <1>5, <1>6, <1>17 DEF Cloud
<1>. QED
  BY <1>1, <1>2, <1>3, <1>4, <1>7, <1>8, <1>9, <1>10, <1>11, <1>12, <1>13,
     <1>14, <1>15, <1>16, <1>17 DEF Next, TaskEnds, FuelStep

(* A step that finishes none of the tasks of the invariant, and leaves the *)
(* clouds alone, keeps what the finished ones guarantee.                   *)
LEMMA QuietStep ==
    ASSUME Finished, UNCHANGED <<cluster, node, copied, compute, shown>>,
           \A u \in {"unassign", "wait_unassigned", "assign", "copy_disks",
                     "copy_nets", "wait_computes", "success_events"} :
               state'[u] = "SUCCESS" => state[u] = "SUCCESS",
           NotAssigned' => NotAssigned
    PROVE  Finished'
BY DEF Finished, NotAssigned

(* What an operation of the engine on one task leaves as it is.            *)
LEMMA OneTaskMoves ==
    ASSUME Engine!TypeOK, NEW t \in ReassignTask,
           \/ Engine!Execute(t) \/ Engine!Fail(t) \/ Engine!Succeed(t)
           \/ Engine!Undo(t)
    PROVE  /\ \A u \in ReassignTask \ {t} : state'[u] = state[u]
           /\ ~Engine!Succeed(t) => state'[t] # "SUCCESS"
           /\ state'[t] \in {"PENDING", "RUNNING"} => state[t] \in {"PENDING", "RUNNING"}
BY EngineMoves DEF Engine!TypeOK

(* What a task that has succeeded has done stays done.                     *)
LEMMA FinishedStep ==
    ASSUME IInv, [Next]_vars
    PROVE  Finished'
<1> DEFINE Kept == {"unassign", "wait_unassigned", "assign", "copy_disks",
                    "copy_nets", "wait_computes", "success_events"}
<1>0. /\ Finished /\ Engine!TypeOK
      /\ state \in [ReassignTask -> Engine!TaskState]
      /\ Kept \subseteq ReassignTask
      /\ compute \in [Cloud -> {"absent", "present"}]
      /\ shown \in [Cloud -> {"absent", "shown", "reassignment"}]
      /\ "source" \in Cloud /\ "destination" \in Cloud
  BY DEF IInv, TypeOK, Engine!TypeOK, Cloud, ReassignTask
<1>1. CASE ReassignHost
  <2>1. state' = [t \in ReassignTask |-> "PENDING"]
    BY <1>1 DEF ReassignHost, Engine!Run
  <2>2. \A u \in Kept : state'[u] = "PENDING"
    BY <1>0, <2>1
  <2>. QED  BY <2>2 DEF Finished
<1>2. ASSUME NEW t \in ReassignTask,
             \/ Engine!Execute(t) \/ Engine!Fail(t) \/ Engine!Succeed(t)
             \/ Engine!Undo(t),
             Engine!Succeed(t) => t \notin Kept,
             UNCHANGED <<cluster, node, copied, compute, shown>>
      PROVE  Finished'
  <2>1. \A u \in Kept : state'[u] = "SUCCESS" => state[u] = "SUCCESS"
    <3>1. ASSUME NEW u \in Kept, state'[u] = "SUCCESS" PROVE state[u] = "SUCCESS"
      BY <1>0, <1>2, <3>1, OneTaskMoves
    <3>. QED  BY <3>1
  <2>2. NotAssigned' => NotAssigned
    BY <1>0, <1>2, OneTaskMoves DEF NotAssigned
  <2>. QED  BY <1>0, <1>2, <2>1, <2>2, QuietStep
<1>3. ASSUME NEW t \in ReassignTask,
             StartTask(t) \/ DefaultRevert(t) \/ TaskFails(t) \/ ReadTask(t)
      PROVE  Finished'
  <2>1. /\ \/ Engine!Execute(t) \/ Engine!Fail(t) \/ Engine!Succeed(t)
           \/ Engine!Undo(t)
        /\ UNCHANGED <<cluster, node, copied, compute, shown>>
    BY <1>3 DEF StartTask, DefaultRevert, TaskFails, ReadTask, fuelVars
  <2>2. Engine!Succeed(t) => t \notin Kept
    <3>1. CASE ReadTask(t)
      BY <3>1 DEF ReadTask
    <3>2. CASE StartTask(t) \/ DefaultRevert(t) \/ TaskFails(t)
      BY <1>0, <3>2, EngineMoves DEF StartTask, DefaultRevert, TaskFails
    <3>. QED  BY <1>3, <3>1, <3>2
  <2>. QED  BY <1>2, <2>1, <2>2
<1>4. CASE RetrieveEnvNodes \/ RetrieveNode
  BY <1>2, <1>4 DEF RetrieveEnvNodes, RetrieveNode, ReassignTask, fuelVars
<1>5. CASE UnassignNode
  BY <1>0, <1>5, EngineMoves DEF UnassignNode, Finished, NotAssigned
<1>6. ASSUME NEW c \in Cloud,
             DeployRequest(c) \/ DeployObserved(c) \/ DeployGivesUp(c)
      PROVE  Finished'
  <2>1. DeployOf(c) \in ReassignTask \ Kept
    BY DEF DeployOf, ReassignTask
  <2>2. UNCHANGED <<cluster, node, copied, compute, shown>>
    BY <1>6 DEF DeployRequest, DeployObserved, DeployGivesUp, fuelVars
  <2>3. CASE UNCHANGED <<nodes, state, failures>>
    BY <1>0, <2>2, <2>3 DEF Finished, NotAssigned
  <2>4. CASE Engine!Succeed(DeployOf(c)) \/ Engine!Fail(DeployOf(c))
    BY <1>2, <2>1, <2>2, <2>4
  <2>. QED  BY <1>6, <2>3, <2>4 DEF DeployRequest, DeployObserved, DeployGivesUp
<1>7. CASE UnassignedObserved
  <2>1. cluster = "none" /\ node = "discover"
    BY <1>7, EngineMoves, WhenDiscovered DEF UnassignedObserved
  <2>. QED
    BY <1>0, <1>7, <2>1, EngineMoves
       DEF UnassignedObserved, Finished, NotAssigned, fuelVars
<1>8. CASE DeleteServices
  <2>1. state' = [state EXCEPT !["delete_services"] = "SUCCESS"]
    BY <1>8, EngineMoves DEF DeleteServices
  <2>2. compute'["destination"] = compute["destination"]
    BY <1>0, <1>8 DEF DeleteServices
  <2>. QED
    BY <1>0, <1>8, <2>1, <2>2 DEF DeleteServices, Finished, NotAssigned, fuelVars
<1>9. CASE HostsDeleteEvents
  <2>1. state' = [state EXCEPT !["delete_events"] = "SUCCESS"]
    BY <1>9, EngineMoves DEF HostsDeleteEvents
  <2>2. shown'["destination"] = shown["destination"]
    BY <1>0, <1>9 DEF HostsDeleteEvents
  <2>. QED
    BY <1>0, <1>9, <2>1, <2>2 DEF HostsDeleteEvents, Finished, NotAssigned, fuelVars
<1>10. CASE AssignNode
  <2>1. /\ state["copy_disks"] = "PENDING" /\ state["copy_nets"] = "PENDING"
        /\ state["success_events"] # "SUCCESS"
    BY <1>10, EngineMoves, WhenAssigned DEF AssignNode
  <2>2. state' \in {[state EXCEPT !["assign"] = "SUCCESS"], [state EXCEPT !["assign"] = "FAILURE"]}
    BY <1>10, EngineMoves DEF AssignNode
  <2>. QED
    BY <1>0, <1>10, <2>1, <2>2 DEF AssignNode, Finished, NotAssigned
<1>11. CASE CopyAttributes("copy_disks", "disks") \/ CopyAttributes("copy_nets", "nets")
  BY <1>0, <1>11, EngineMoves DEF CopyAttributes, Finished, NotAssigned
<1>12. CASE ComputesObserved
  BY <1>0, <1>12, EngineMoves DEF ComputesObserved, Finished, NotAssigned, fuelVars
<1>13. CASE HostsSuccessEvents
  BY <1>0, <1>13, EngineMoves DEF HostsSuccessEvents, Finished, NotAssigned, fuelVars
<1>14. ASSUME NEW c \in Cloud, FuelDeploys(c) PROVE Finished'
  BY <1>0, <1>14
     DEF FuelDeploys, Deployed, Botched, Due, Finished, NotAssigned, Cloud, localVars
<1>15. ASSUME NEW c \in Cloud, ComputeReports(c) PROVE Finished'
  BY <1>0, <1>15 DEF ComputeReports, Finished, NotAssigned, fuelVars
<1>16. CASE FuelDiscovers
  BY <1>0, <1>16 DEF FuelDiscovers, Finished, NotAssigned
<1>17. CASE UNCHANGED vars
  BY <1>0, <1>17 DEF vars, fuelVars, Finished, NotAssigned
<1>. QED
  BY <1>1, <1>3, <1>4, <1>5, <1>6, <1>7, <1>8, <1>9, <1>10, <1>11, <1>12, <1>13,
     <1>14, <1>15, <1>16, <1>17 DEF Next, TaskEnds, FuelStep

(* Nothing but the destination's deployment touches an assigned node.      *)
LEMMA UntouchedStep ==
    ASSUME IInv, [Next]_vars
    PROVE  Untouched'
<1> DEFINE Watching == {"assign", "deploy_destination"}
<1>0. /\ Untouched /\ Engine!TypeOK
      /\ Watching \subseteq ReassignTask
      /\ deploy \in [Cloud -> {"none", "running", "ready", "error"}]
      /\ "destination" \in Cloud
      /\ state["assign"] = "SUCCESS" => cluster = "destination"
  BY DEF IInv, TypeOK, Cloud, ReassignTask, Finished
<1>1. ASSUME UNCHANGED <<node, deploy>>,
             state'["assign"] = "SUCCESS" => state["assign"] = "SUCCESS",
             NotAsked' => NotAsked
      PROVE  Untouched'
  BY <1>0, <1>1 DEF Untouched
<1>2. ASSUME NEW t \in ReassignTask,
             \/ Engine!Execute(t) \/ Engine!Fail(t) \/ Engine!Succeed(t)
             \/ Engine!Undo(t),
             Engine!Succeed(t) => t # "assign",
             UNCHANGED <<node, deploy, waiting>>
      PROVE  Untouched'
  <2>1. state'["assign"] = "SUCCESS" => state["assign"] = "SUCCESS"
    BY <1>0, <1>2, OneTaskMoves
  <2>2. NotAsked' => NotAsked
    <3>1. CASE t # "deploy_destination"
      BY <1>0, <1>2, <3>1, OneTaskMoves DEF NotAsked
    <3>2. CASE t = "deploy_destination"
      BY <1>0, <1>2, <3>2, EngineMoves DEF NotAsked, Engine!TypeOK
    <3>. QED  BY <3>1, <3>2
  <2>. QED  BY <1>1, <1>2, <2>1, <2>2
<1>3. CASE ReassignHost
  <2>1. state'["assign"] = "PENDING"
    BY <1>0, <1>3 DEF ReassignHost, Engine!Run
  <2>. QED  BY <2>1 DEF Untouched
<1>4. ASSUME NEW t \in ReassignTask,
             StartTask(t) \/ DefaultRevert(t) \/ TaskFails(t) \/ ReadTask(t)
      PROVE  Untouched'
  <2>1. /\ \/ Engine!Execute(t) \/ Engine!Fail(t) \/ Engine!Succeed(t)
           \/ Engine!Undo(t)
        /\ UNCHANGED <<node, deploy, waiting>>
    BY <1>4 DEF StartTask, DefaultRevert, TaskFails, ReadTask, fuelVars, localVars
  <2>2. Engine!Succeed(t) => t # "assign"
    <3>1. CASE ReadTask(t)
      BY <3>1 DEF ReadTask
    <3>2. CASE StartTask(t) \/ DefaultRevert(t) \/ TaskFails(t)
      BY <1>0, <3>2, EngineMoves DEF StartTask, DefaultRevert, TaskFails, Engine!TypeOK
    <3>. QED  BY <1>4, <3>1, <3>2
  <2>. QED  BY <1>2, <2>1, <2>2
<1>5. CASE RetrieveEnvNodes \/ RetrieveNode \/ UnassignNode
  BY <1>2, <1>5
     DEF RetrieveEnvNodes, RetrieveNode, UnassignNode, ReassignTask, fuelVars, localVars
<1>6. ASSUME NEW c \in Cloud, DeployRequest(c) PROVE Untouched'
  <2>1. /\ node' = node /\ deploy' = [deploy EXCEPT ![c] = "running"]
        /\ \/ UNCHANGED <<nodes, state, failures>> /\ waiting' = waiting \cup {DeployOf(c)}
           \/ Engine!Fail(DeployOf(c)) /\ waiting' = waiting
        /\ state[DeployOf(c)] = "RUNNING"
    BY <1>6 DEF DeployRequest
  <2>2. DeployOf(c) \in ReassignTask
    BY DEF DeployOf, ReassignTask
  <2>3. CASE c = "destination"
    <3>1. ~NotAsked'
      <4>1. CASE UNCHANGED <<nodes, state, failures>> /\ waiting' = waiting \cup {DeployOf(c)}
        BY <2>1, <2>3, <4>1 DEF NotAsked, DeployOf
      <4>2. CASE Engine!Fail(DeployOf(c))
        BY <1>0, <2>3, <4>2, EngineMoves DEF NotAsked, DeployOf, Engine!TypeOK
      <4>. QED  BY <2>1, <4>1, <4>2
    <3>. QED  BY <3>1 DEF Untouched
  <2>4. CASE c # "destination"
    <3>1. deploy'["destination"] = deploy["destination"]
      BY <1>0, <2>1, <2>4
    <3>2. state'["assign"] = "SUCCESS" => state["assign"] = "SUCCESS"
      BY <1>0, <2>1, <2>2, <2>4, EngineMoves DEF DeployOf, Engine!TypeOK
    <3>3. NotAsked' => NotAsked
      BY <1>0, <2>1, <2>2, <2>4, EngineMoves DEF DeployOf, NotAsked, Engine!TypeOK
    <3>. QED  BY <1>0, <2>1, <3>1, <3>2, <3>3 DEF Untouched
  <2>. QED  BY <2>3, <2>4
<1>7. ASSUME NEW c \in Cloud, DeployObserved(c) \/ DeployGivesUp(c) PROVE Untouched'
  <2>1. /\ UNCHANGED <<node, deploy>>
        /\ Engine!Succeed(DeployOf(c)) \/ Engine!Fail(DeployOf(c))
        /\ waiting' = waiting \ {DeployOf(c)}
    BY <1>7 DEF DeployObserved, DeployGivesUp, fuelVars
  <2>2. state'["assign"] = "SUCCESS" => state["assign"] = "SUCCESS"
    BY <1>0, <2>1, EngineMoves DEF DeployOf, Engine!TypeOK
  <2>3. NotAsked' => NotAsked
    BY <1>0, <2>1, EngineMoves DEF DeployOf, NotAsked, Engine!TypeOK
  <2>. QED  BY <1>1, <2>1, <2>2, <2>3
<1>8. CASE UnassignedObserved \/ DeleteServices \/ HostsDeleteEvents
  BY <1>2, <1>8
     DEF UnassignedObserved, DeleteServices, HostsDeleteEvents, ReassignTask, fuelVars, localVars
<1>9. CASE AssignNode
  <2>1. cluster = "none" /\ node = "discover"
    BY <1>9, EngineMoves, WhenAssigned DEF AssignNode
  <2>2. deploy["destination"] # "running"
    BY <2>1 DEF IInv, Location
  <2>. QED  BY <1>9, <2>1, <2>2 DEF AssignNode, Untouched
<1>10. CASE CopyAttributes("copy_disks", "disks") \/ CopyAttributes("copy_nets", "nets")
  BY <1>2, <1>10 DEF CopyAttributes, ReassignTask, localVars
<1>11. CASE ComputesObserved \/ HostsSuccessEvents
  BY <1>2, <1>11 DEF ComputesObserved, HostsSuccessEvents, ReassignTask, fuelVars, localVars
<1>12. ASSUME NEW c \in Cloud, FuelDeploys(c) PROVE Untouched'
  <2>1. SUFFICES ASSUME state["assign"] = "SUCCESS", NotAsked
                 PROVE  node' = "discover" /\ deploy'["destination"] # "running"
    BY <1>12 DEF FuelDeploys, localVars, NotAsked, Untouched
  <2>2. cluster = "destination" /\ node = "discover" /\ deploy["destination"] # "running"
    BY <1>0, <2>1 DEF Untouched
  <2>3. c = "source"
    BY <1>12, <2>2 DEF FuelDeploys, Cloud
  <2>. QED  BY <1>0, <1>12, <2>2, <2>3 DEF FuelDeploys, Deployed, Botched, Due
<1>13. ASSUME NEW c \in Cloud, ComputeReports(c) PROVE Untouched'
  BY <1>1, <1>13 DEF ComputeReports, fuelVars, localVars, NotAsked
<1>14. CASE FuelDiscovers
  BY <1>0, <1>14 DEF FuelDiscovers, localVars, NotAsked, Untouched
<1>15. CASE UNCHANGED vars
  BY <1>1, <1>15 DEF vars, fuelVars, localVars, NotAsked
<1>. QED
  BY <1>3, <1>4, <1>5, <1>6, <1>7, <1>8, <1>9, <1>10, <1>11, <1>12, <1>13, <1>14,
     <1>15 DEF Next, TaskEnds, FuelStep

-----------------------------------------------------------------------------
(* The theorems.                                                           *)

(* The invariant holds before the first reassignment.                      *)
LEMMA InitInvariant == Init => IInv
<1> SUFFICES ASSUME Init PROVE IInv
  OBVIOUS
<1>1. /\ nodes = {} /\ failures = FALSE
      /\ state = [t \in ReassignTask |-> "PENDING"]
  BY DEF Init, Engine!Init
<1>2. {"unassign", "wait_unassigned", "assign", "copy_disks", "copy_nets",
       "wait_computes", "success_events"} \subseteq ReassignTask
  BY DEF ReassignTask
<1>3. compute["destination"] = "absent" /\ deploy["destination"] = "none"
  BY DEF Init, In, Cloud
<1>4. TypeOK
  <2>1. Engine!TypeOK
    BY <1>1 DEF Engine!TypeOK, Engine!TaskState
  <2>2. runs \in 0..MaxRuns
    BY ReassignmentAssumption DEF Init
  <2>3. /\ deploy \in [Cloud -> {"none", "running", "ready", "error"}]
        /\ compute \in [Cloud -> {"absent", "present"}]
        /\ shown \in [Cloud -> {"absent", "shown", "reassignment"}]
        /\ watched \in [Cloud -> BOOLEAN]
    BY DEF Init, In
  <2>. QED  BY <2>1, <2>2, <2>3 DEF Init, TypeOK, Cloud
<1>5. Engine!DependenciesHold
  BY <1>1 DEF Engine!DependenciesHold
<1>6. FlowShape /\ Location /\ SettingsBeforeDeployment
  BY <1>1, <1>3 DEF Init, FlowShape, Location, SettingsBeforeDeployment
<1>7. Finished /\ Untouched
  BY <1>1, <1>2 DEF Init, Finished, Untouched
<1>. QED  BY <1>4, <1>5, <1>6, <1>7 DEF IInv

(* The strengthened invariant, from which the others follow.               *)
THEOREM Invariant == Spec => []IInv
<1>1. ASSUME IInv, [Next]_vars, Engine!TypeOK', Engine!DependenciesHold'
      PROVE  IInv'
  BY <1>1, TypeStep, FlowShapeStep, LocationStep, FinishedStep, UntouchedStep DEF IInv
<1>. QED  BY <1>1, InitInvariant, EngineInvariants, PTL DEF Spec

(* The variables stay well typed, whatever fails and however often the     *)
(* operator tries again.                                                   *)
THEOREM TypeCorrect == Spec => []TypeOK
<1>1. IInv => TypeOK
  BY DEF IInv
<1>. QED  BY <1>1, Invariant, PTL

(* AssignNode puts the node into the destination only when it has left the *)
(* source and was discovered.                                              *)
THEOREM OnlyFreeNodesAssigned == Spec => AssignedOnlyWhenFree
<1>1. ASSUME IInv, [Next]_vars, cluster' = "destination", cluster # "destination"
      PROVE  cluster = "none" /\ node = "discover"
  <2>1. CASE AssignNode
    BY <1>1, <2>1, EngineMoves, WhenAssigned DEF AssignNode
  <2>2. CASE ReassignHost
    BY <1>1, <2>2 DEF ReassignHost, fuelVars
  <2>3. ASSUME NEW t \in ReassignTask,
               StartTask(t) \/ DefaultRevert(t) \/ TaskFails(t) \/ ReadTask(t)
        PROVE  FALSE
    BY <1>1, <2>3 DEF StartTask, DefaultRevert, TaskFails, ReadTask, fuelVars
  <2>4. CASE RetrieveEnvNodes \/ RetrieveNode \/ UnassignNode \/ UnassignedObserved
    BY <1>1, <2>4
       DEF RetrieveEnvNodes, RetrieveNode, UnassignNode, UnassignedObserved, fuelVars
  <2>5. ASSUME NEW c \in Cloud,
               DeployRequest(c) \/ DeployObserved(c) \/ DeployGivesUp(c)
        PROVE  FALSE
    BY <1>1, <2>5 DEF DeployRequest, DeployObserved, DeployGivesUp, fuelVars
  <2>6. CASE DeleteServices \/ HostsDeleteEvents
    BY <1>1, <2>6 DEF DeleteServices, HostsDeleteEvents, fuelVars
  <2>7. CASE CopyAttributes("copy_disks", "disks") \/ CopyAttributes("copy_nets", "nets")
    BY <1>1, <2>7 DEF CopyAttributes
  <2>8. CASE ComputesObserved \/ HostsSuccessEvents
    BY <1>1, <2>8 DEF ComputesObserved, HostsSuccessEvents, fuelVars
  <2>9. ASSUME NEW c \in Cloud, FuelDeploys(c) \/ ComputeReports(c) PROVE FALSE
    BY <1>1, <2>9 DEF FuelDeploys, Deployed, Botched, Due, ComputeReports, fuelVars, Cloud
  <2>10. CASE FuelDiscovers \/ UNCHANGED vars
    BY <1>1, <2>10 DEF FuelDiscovers, vars, fuelVars
  <2>. QED
    BY <1>1, <2>1, <2>2, <2>3, <2>4, <2>5, <2>6, <2>7, <2>8, <2>9, <2>10
       DEF Next, TaskEnds, FuelStep
<1>2. IInv /\ [Next]_vars =>
          [cluster' = "destination" /\ cluster # "destination" =>
              cluster = "none" /\ node = "discover"]_vars
  BY <1>1
<1>. QED  BY <1>2, Invariant, PTL DEF Spec, AssignedOnlyWhenFree

(* The destination is deployed only with the node's settings made, also by *)
(* a deployment that a failed run has left behind.                         *)
THEOREM SettingsComeFirst == Spec => []SettingsBeforeDeployment
<1>1. IInv => SettingsBeforeDeployment
  BY DEF IInv
<1>. QED  BY <1>1, Invariant, PTL

(* A flow that succeeds leaves the host serving the destination, although  *)
(* the error of a deployment may have been overlooked on the way; only     *)
(* then may the node be in error.                                          *)
THEOREM ServesWhenDone == Spec => []ServingWhenDone
<1>1. ASSUME IInv PROVE ServingWhenDone
  <2> SUFFICES ASSUME nodes # {}, Engine!Succeeded
               PROVE  /\ cluster = "destination"
                      /\ \/ node = "ready" /\ pending = "nothing"
                         \/ node = "error" /\ deploy["destination"] = "error"
                      /\ compute["destination"] = "present"
                      /\ shown["destination"] = "shown"
    BY DEF ServingWhenDone
  <2>1. state["wait_computes"] = "SUCCESS" /\ state["success_events"] = "SUCCESS"
    BY <1>1 DEF IInv, FlowShape, Engine!Succeeded, ReassignTask
  <2>. QED  BY <1>1, <2>1 DEF IInv, Finished, Location, NodeFinished
<1>. QED  BY <1>1, Invariant, PTL

-----------------------------------------------------------------------------
(* The first run.                                                          *)

(* As long as the first run has not deleted the service of the source it   *)
(* is there.  If deleted says so it is gone, once the node has left the    *)
(* source: the deployment that takes it away was over before, so that a    *)
(* node that is still there stays there.  The UI follows deleted.          *)
FirstRun ==
    /\ runs = 0 <=> nodes = {}
    /\ state["deploy_source"] = "SUCCESS" => deploy["source"] # "running"
    /\ runs <= 1 =>
           /\ state["delete_services"] \in {"PENDING", "RUNNING"} => compute["source"] = "present"
           /\ state["delete_services"] = "SUCCESS" /\ cluster # "source" =>
                  (deleted => compute["source"] = "absent")
           /\ state["delete_events"] \in {"PENDING", "RUNNING"} => shown["source"] # "absent"
           /\ state["delete_events"] = "SUCCESS" => (deleted <=> shown["source"] = "absent")

(* The tasks it speaks of.                                                 *)
Deleting == {"deploy_source", "delete_services", "delete_events"}

(* A step that finishes none of them and changes nothing in the source     *)
(* keeps it.                                                               *)
LEMMA FirstRunRests ==
    ASSUME FirstRun, runs' = runs, nodes' = nodes, deleted' = deleted,
           cluster' # "source" => cluster # "source",
           deploy'["source"] = "running" => deploy["source"] = "running",
           compute'["source"] = compute["source"],
           shown'["source"] = "absent" <=> shown["source"] = "absent",
           \A u \in Deleting :
               /\ state'[u] = "SUCCESS" => state[u] = "SUCCESS"
               /\ state'[u] \in {"PENDING", "RUNNING"} => state[u] \in {"PENDING", "RUNNING"}
    PROVE  FirstRun'
<1>1. /\ state'["deploy_source"] = "SUCCESS" => state["deploy_source"] = "SUCCESS"
      /\ state'["delete_services"] = "SUCCESS" => state["delete_services"] = "SUCCESS"
      /\ state'["delete_events"] = "SUCCESS" => state["delete_events"] = "SUCCESS"
      /\ state'["delete_services"] \in {"PENDING", "RUNNING"} =>
             state["delete_services"] \in {"PENDING", "RUNNING"}
      /\ state'["delete_events"] \in {"PENDING", "RUNNING"} =>
             state["delete_events"] \in {"PENDING", "RUNNING"}
  BY DEF Deleting
<1>. QED  BY <1>1 DEF FirstRun

(* In the first run the source shows the host until its service is gone.   *)
LEMMA FirstRunStep ==
    ASSUME IInv, FirstRun, [Next]_vars
    PROVE  FirstRun'
<1>0. /\ Engine!TypeOK /\ runs \in Nat
      /\ state \in [ReassignTask -> Engine!TaskState]
      /\ Deleting \subseteq ReassignTask
      /\ compute \in [Cloud -> {"absent", "present"}]
      /\ deploy \in [Cloud -> {"none", "running", "ready", "error"}]
      /\ shown \in [Cloud -> {"absent", "shown", "reassignment"}]
      /\ "source" \in Cloud /\ "destination" \in Cloud
      /\ deleted \in BOOLEAN
  BY ReassignmentAssumption DEF IInv, TypeOK, Engine!TypeOK, Cloud, ReassignTask, Deleting
<1>1. CASE ReassignHost
  <2>1. /\ runs' = runs + 1 /\ deleted' = FALSE /\ nodes' = ReassignTask /\ ReassignTask # {}
        /\ UNCHANGED <<cluster, deploy, compute, shown>>
        /\ state' = [t \in ReassignTask |-> "PENDING"]
    BY <1>1 DEF ReassignHost, Engine!Run, fuelVars, ReassignTask
  <2>2. \A u \in Deleting : state'[u] = "PENDING"
    BY <1>0, <2>1
  <2>3. CASE runs = 0
    <3>1. \A u \in Deleting : state[u] = "PENDING"
      BY <1>0, <2>3 DEF IInv, FlowShape, FirstRun, ReassignTask
    <3>2. compute["source"] = "present" /\ shown["source"] # "absent"
      BY <2>3, <3>1 DEF FirstRun, Deleting
    <3>. QED  BY <2>1, <2>2, <2>3, <3>2 DEF FirstRun, Deleting
  <2>4. CASE runs # 0
    BY <1>0, <2>1, <2>2, <2>4 DEF FirstRun, Deleting
  <2>. QED  BY <2>3, <2>4
<1>2. ASSUME NEW t \in ReassignTask,
             \/ Engine!Execute(t) \/ Engine!Fail(t) \/ Engine!Succeed(t)
             \/ Engine!Undo(t),
             Engine!Succeed(t) => t \notin Deleting,
             runs' = runs, deleted' = deleted,
             cluster' # "source" => cluster # "source",
             deploy'["source"] = "running" => deploy["source"] = "running",
             compute'["source"] = compute["source"],
             shown'["source"] = "absent" <=> shown["source"] = "absent"
      PROVE  FirstRun'
  <2>1. nodes' = nodes
    BY <1>2, EngineMoves
  <2>2. ASSUME NEW u \in Deleting
        PROVE  /\ state'[u] = "SUCCESS" => state[u] = "SUCCESS"
               /\ state'[u] \in {"PENDING", "RUNNING"} => state[u] \in {"PENDING", "RUNNING"}
    BY <1>0, <1>2, OneTaskMoves
  <2>. QED  BY <1>2, <2>1, <2>2, FirstRunRests
<1>3. ASSUME NEW t \in ReassignTask,
             StartTask(t) \/ DefaultRevert(t) \/ TaskFails(t) \/ ReadTask(t)
      PROVE  FirstRun'
  <2>1. /\ \/ Engine!Execute(t) \/ Engine!Fail(t) \/ Engine!Succeed(t)
           \/ Engine!Undo(t)
        /\ UNCHANGED <<runs, deleted, cluster, deploy, compute, shown>>
    BY <1>3 DEF StartTask, DefaultRevert, TaskFails, ReadTask, fuelVars, localVars
  <2>2. Engine!Succeed(t) => t \notin Deleting
    <3>1. CASE ReadTask(t)
      BY <3>1 DEF ReadTask, Deleting
    <3>2. CASE StartTask(t) \/ DefaultRevert(t) \/ TaskFails(t)
      BY <1>0, <3>2, EngineMoves DEF StartTask, DefaultRevert, TaskFails
    <3>. QED  BY <1>3, <3>1, <3>2
  <2>. QED  BY <1>2, <2>1, <2>2
<1>4. CASE RetrieveEnvNodes \/ RetrieveNode
  BY <1>2, <1>4 DEF RetrieveEnvNodes, RetrieveNode, ReassignTask, fuelVars, localVars, Deleting
<1>5. CASE UnassignNode
  <2>1. /\ Engine!Succeed("unassign") \/ Engine!Fail("unassign")
        /\ UNCHANGED <<runs, deleted, cluster, deploy, compute>>
        /\ "unassign" \in ReassignTask \ Deleting
    BY <1>5 DEF UnassignNode, localVars, ReassignTask, Deleting
  <2>2. shown'["source"] = "absent" <=> shown["source"] = "absent"
    BY <1>0, <1>5 DEF UnassignNode
  <2>. QED  BY <1>2, <2>1, <2>2
<1>6. ASSUME NEW c \in Cloud, DeployRequest(c) PROVE FirstRun'
  <2>1. /\ state[DeployOf(c)] = "RUNNING" /\ deploy' = [deploy EXCEPT ![c] = "running"]
        /\ UNCHANGED <<nodes, state>> \/ Engine!Fail(DeployOf(c))
        /\ UNCHANGED <<runs, deleted, cluster, compute, shown>>
    BY <1>6 DEF DeployRequest
  <2>2. DeployOf(c) \in ReassignTask
    BY DEF DeployOf, ReassignTask
  <2>3. CASE c = "source"
    <3>1. state'["deploy_source"] # "SUCCESS"
      BY <1>0, <2>1, <2>2, <2>3, EngineMoves DEF DeployOf
    <3>2. /\ nodes' = nodes /\ state'["delete_services"] = state["delete_services"]
          /\ state'["delete_events"] = state["delete_events"]
      BY <1>0, <2>1, <2>2, <2>3, EngineMoves DEF DeployOf, Deleting
    <3>. QED  BY <2>1, <3>1, <3>2 DEF FirstRun
  <2>4. CASE c # "source"
    <3>1. deploy'["source"] = deploy["source"]
      BY <1>0, <2>1, <2>4
    <3>2. CASE UNCHANGED <<nodes, state>>
      BY <2>1, <3>1, <3>2, FirstRunRests
    <3>3. CASE Engine!Fail(DeployOf(c))
      <4>1. ~Engine!Succeed(DeployOf(c))
        BY <1>0, <2>2, <3>3, EngineMoves
      <4>. QED  BY <1>2, <2>1, <2>2, <3>1, <3>3, <4>1
    <3>. QED  BY <2>1, <3>2, <3>3
  <2>. QED  BY <2>3, <2>4
<1>7. ASSUME NEW c \in Cloud, DeployObserved(c) \/ DeployGivesUp(c) PROVE FirstRun'
  <2>1. /\ UNCHANGED <<runs, deleted, cluster, deploy, compute, shown>>
        /\ \/ Engine!Succeed(DeployOf(c)) /\ deploy[c] # "running"
           \/ Engine!Fail(DeployOf(c))
        /\ DeployOf(c) \in ReassignTask
    BY <1>7 DEF DeployObserved, DeployGivesUp, fuelVars, DeployOf, ReassignTask
  <2>2. CASE Engine!Succeed(DeployOf(c)) /\ c = "source" /\ deploy[c] # "running"
    <3>1. /\ nodes' = nodes /\ state'["delete_services"] = state["delete_services"]
          /\ state'["delete_events"] = state["delete_events"]
      BY <1>0, <2>1, <2>2, EngineMoves DEF DeployOf, Deleting
    <3>. QED  BY <2>1, <2>2, <3>1 DEF FirstRun
  <2>3. CASE Engine!Succeed(DeployOf(c)) /\ c # "source"
    <3>1. DeployOf(c) \notin Deleting
      BY <2>3 DEF DeployOf, Deleting
    <3>. QED  BY <1>2, <2>1, <2>3, <3>1
  <2>4. CASE Engine!Fail(DeployOf(c))
    <3>1. ~Engine!Succeed(DeployOf(c))
      BY <1>0, <2>1, <2>4, EngineMoves
    <3>. QED  BY <1>2, <2>1, <2>4, <3>1
  <2>. QED  BY <2>1, <2>2, <2>3, <2>4
<1>8. CASE UnassignedObserved \/ ComputesObserved
  BY <1>2, <1>8 DEF UnassignedObserved, ComputesObserved, ReassignTask, fuelVars, localVars, Deleting
<1>9. CASE DeleteServices
  <2>1. /\ state["delete_services"] = "RUNNING" /\ "delete_services" \in nodes /\ nodes' = nodes
        /\ state' = [state EXCEPT !["delete_services"] = "SUCCESS"]
        /\ UNCHANGED <<runs, cluster, deploy, shown>>
    BY <1>9, EngineMoves DEF DeleteServices, fuelVars
  <2>2. state["delete_events"] = "PENDING"
    <3>1. <<"delete_services", "delete_events">> \in Order /\ "delete_events" \in ReassignTask
      BY DEF Order, UnassignOrder, ReassignTask
    <3>. QED  BY <2>1, <3>1, NotBegun
  <2>3. deleted' => compute'["source"] = "absent"
    BY <1>0, <1>9 DEF DeleteServices
  <2>4. /\ state'["delete_services"] = "SUCCESS"
        /\ state'["delete_events"] = "PENDING"
        /\ state'["deploy_source"] = state["deploy_source"]
    BY <1>0, <2>1, <2>2 DEF Deleting
  <2>. QED  BY <2>1, <2>2, <2>3, <2>4 DEF FirstRun
<1>10. CASE HostsDeleteEvents
  <2>1. /\ state["delete_events"] = "RUNNING" /\ nodes' = nodes
        /\ state' = [state EXCEPT !["delete_events"] = "SUCCESS"]
        /\ UNCHANGED <<runs, deleted, cluster, deploy, compute>>
    BY <1>10, EngineMoves DEF HostsDeleteEvents, fuelVars, localVars
  <2>2. shown["source"] # "absent" => (deleted <=> shown'["source"] = "absent")
    BY <1>0, <1>10 DEF HostsDeleteEvents
  <2>3. /\ state'["delete_events"] = "SUCCESS"
        /\ state'["delete_services"] = state["delete_services"]
        /\ state'["deploy_source"] = state["deploy_source"]
    BY <1>0, <2>1 DEF Deleting
  <2>. QED  BY <2>1, <2>2, <2>3 DEF FirstRun
<1>11. CASE AssignNode
  <2>1. cluster = "none"
    BY <1>11, EngineMoves, WhenAssigned DEF AssignNode
  <2>2. /\ Engine!Succeed("assign") \/ Engine!Fail("assign")
        /\ UNCHANGED <<runs, deleted, deploy, compute>> /\ "assign" \in ReassignTask \ Deleting
    BY <1>11 DEF AssignNode, localVars, ReassignTask, Deleting
  <2>3. shown'["source"] = shown["source"]
    BY <1>0, <1>11 DEF AssignNode
  <2>. QED  BY <1>2, <2>1, <2>2, <2>3
<1>12. CASE CopyAttributes("copy_disks", "disks") \/ CopyAttributes("copy_nets", "nets")
  <2>1. PICK t \in {"copy_disks", "copy_nets"} :
            /\ Engine!Succeed(t) \/ Engine!Fail(t)
            /\ UNCHANGED <<runs, deleted, cluster, deploy, compute, shown>>
    BY <1>12 DEF CopyAttributes, localVars
  <2>2. t \in ReassignTask /\ t \notin Deleting
    BY DEF ReassignTask, Deleting
  <2>. QED  BY <1>2, <2>1, <2>2
<1>13. CASE HostsSuccessEvents
  <2>1. shown'["source"] = shown["source"]
    BY <1>0, <1>13 DEF HostsSuccessEvents
  <2>. QED
    BY <1>2, <1>13, <2>1 DEF HostsSuccessEvents, ReassignTask, fuelVars, localVars, Deleting
<1>14. ASSUME NEW c \in Cloud, FuelDeploys(c) PROVE FirstRun'
  <2>1. /\ UNCHANGED <<nodes, state, runs, deleted, compute, shown>>
        /\ deploy[c] = "running"
        /\ deploy'["source"] = "running" => deploy["source"] = "running"
    BY <1>0, <1>14 DEF FuelDeploys, localVars
  <2>2. CASE cluster' # "source" => cluster # "source"
    BY <2>1, <2>2, FirstRunRests
  <2>3. CASE cluster' # "source" /\ cluster = "source"
    <3>1. deploy["source"] = "running"
      BY <1>14, <2>3 DEF FuelDeploys, Deployed, Botched, Due, Cloud
    <3>2. state["deploy_source"] # "SUCCESS"
      BY <3>1 DEF FirstRun
    <3>3. state["delete_services"] # "SUCCESS"
      <4>1. /\ <<"deploy_source", "delete_services">> \in Order
            /\ {"deploy_source", "delete_services"} \subseteq ReassignTask
        BY DEF Order, UnassignOrder, ReassignTask
      <4>2. CASE nodes = ReassignTask
        BY <3>2, <4>1, <4>2, Rests
      <4>3. CASE nodes # ReassignTask
        BY <4>1, <4>3 DEF IInv, FlowShape
      <4>. QED  BY <4>2, <4>3
    <3>. QED  BY <2>1, <3>2, <3>3 DEF FirstRun
  <2>. QED  BY <2>2, <2>3
<1>15. ASSUME NEW c \in Cloud, ComputeReports(c) PROVE FirstRun'
  <2>1. /\ UNCHANGED <<nodes, state, runs, deleted, cluster, deploy, shown>>
        /\ cluster = c /\ compute[c] = "absent" /\ compute' = [compute EXCEPT ![c] = "present"]
    BY <1>15 DEF ComputeReports, fuelVars, localVars
  <2>2. CASE c = "source"
    BY <1>0, <2>1, <2>2 DEF FirstRun
  <2>3. CASE c # "source"
    <3>1. compute'["source"] = compute["source"]
      BY <1>0, <2>1, <2>3
    <3>. QED  BY <2>1, <3>1, FirstRunRests
  <2>. QED  BY <2>2, <2>3
<1>16. CASE FuelDiscovers
  BY <1>16, FirstRunRests DEF FuelDiscovers, localVars
<1>17. CASE UNCHANGED vars
  BY <1>17, FirstRunRests DEF vars, fuelVars, localVars
<1>. QED
  BY <1>1, <1>3, <1>4, <1>5, <1>6, <1>7, <1>8, <1>9, <1>10, <1>11, <1>12, <1>13,
     <1>14, <1>15, <1>16, <1>17 DEF Next, TaskEnds, FuelStep

(* When the first run succeeds, a host that the UI has taken away from the *)
(* source has no service there: deletions that failed are not hidden, and  *)
(* no service that was deleted reports again.                              *)
THEOREM OnlyGoneIsHidden == Spec => []HiddenOnlyIfGone
<1>1. Init => FirstRun
  <2> SUFFICES ASSUME Init PROVE FirstRun
    OBVIOUS
  <2>1. nodes = {} /\ runs = 0 /\ state = [t \in ReassignTask |-> "PENDING"]
    BY DEF Init, Engine!Init
  <2>2. Deleting \subseteq ReassignTask
    BY DEF Deleting, ReassignTask
  <2>3. \A u \in Deleting : state[u] = "PENDING"
    BY <2>1, <2>2
  <2>4. compute["source"] = "present" /\ shown["source"] = "shown"
    BY DEF Init, In, Cloud
  <2>. QED  BY <2>1, <2>3, <2>4 DEF FirstRun, Deleting
<1>2. IInv /\ FirstRun /\ [Next]_vars => FirstRun'
  BY FirstRunStep
<1>3. ASSUME IInv, FirstRun PROVE HiddenOnlyIfGone
  <2> SUFFICES ASSUME runs = 1, Engine!Succeeded
               PROVE  shown["source"] = "absent" => compute["source"] = "absent"
    BY DEF HiddenOnlyIfGone
  <2>1. nodes = ReassignTask
    BY <1>3 DEF IInv, FlowShape, FirstRun
  <2>2. /\ state["delete_services"] = "SUCCESS" /\ state["delete_events"] = "SUCCESS"
        /\ state["assign"] = "SUCCESS"
    BY <1>3, <2>1 DEF Engine!Succeeded, ReassignTask
  <2>3. cluster = "destination"
    BY <1>3, <2>2 DEF IInv, Finished
  <2>. QED  BY <1>3, <2>2, <2>3 DEF FirstRun
<1>. QED  BY <1>1, <1>2, <1>3, Invariant, PTL DEF Spec

=============================================================================
