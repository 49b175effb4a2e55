-------------------------- MODULE EvacuationProofs --------------------------
(* Proofs about the evacuation of a host, for every set of servers and any *)
(* number of runs.                                                         *)
EXTENDS Evacuation, TLAPS

EngineProofs == INSTANCE TaskFlowProofs WITH
    Task <- EvacuationTask, Before <- Order

-----------------------------------------------------------------------------
(* The engine.                                                             *)

(* The module of the engine's proofs speaks of the same engine.            *)
LEMMA SameActions ==
    ASSUME NEW t
    PROVE  /\ EngineProofs!Run(t) <=> Engine!Run(t)
           /\ EngineProofs!Execute(t) <=> Engine!Execute(t)
           /\ EngineProofs!Succeed(t) <=> Engine!Succeed(t)
           /\ EngineProofs!Fail(t) <=> Engine!Fail(t)
           /\ EngineProofs!Revert(t) <=> Engine!Revert(t)
           /\ EngineProofs!RevertSucceeds(t) <=> Engine!RevertSucceeds(t)
           /\ EngineProofs!RevertRaises(t) <=> Engine!RevertRaises(t)
<1>1. EngineProofs!Run(t) <=> Engine!Run(t)
  BY DEF Engine!Run, Engine!Over, Engine!Succeeded, Engine!Reverted,
         Engine!Failed, Engine!Busy, EngineProofs!Run, EngineProofs!Over,
         EngineProofs!Succeeded, EngineProofs!Reverted, EngineProofs!Failed,
         EngineProofs!Busy
<1>2. EngineProofs!Execute(t) <=> Engine!Execute(t)
  BY DEF Engine!Execute, Engine!ReadyToExecute, Engine!Failed, Engine!Move,
         Engine!Predecessors, EngineProofs!Execute, EngineProofs!Failed,
         EngineProofs!ReadyToExecute, EngineProofs!Move,
         EngineProofs!Predecessors
<1>3. EngineProofs!Revert(t) <=> Engine!Revert(t)
  BY DEF Engine!Revert, Engine!ReadyToRevert, Engine!Failed, Engine!Move,
         Engine!Successors, EngineProofs!Revert, EngineProofs!Failed,
         EngineProofs!ReadyToRevert, EngineProofs!Move,
         EngineProofs!Successors
<1>4. /\ EngineProofs!Succeed(t) <=> Engine!Succeed(t)
      /\ EngineProofs!Fail(t) <=> Engine!Fail(t)
      /\ EngineProofs!RevertSucceeds(t) <=> Engine!RevertSucceeds(t)
      /\ EngineProofs!RevertRaises(t) <=> Engine!RevertRaises(t)
  BY DEF Engine!Succeed, Engine!Fail, Engine!RevertSucceeds,
         Engine!RevertRaises, Engine!Move, EngineProofs!Succeed,
         EngineProofs!Fail, EngineProofs!RevertSucceeds,
         EngineProofs!RevertRaises, EngineProofs!Move
<1>. QED  BY <1>1, <1>2, <1>3, <1>4

(* Where the tasks named in the actions come from.                         *)
LEMMA TaskTypes ==
    /\ disable \in EvacuationTask
    /\ \A s \in Server : /\ <<"retrieve", s>> \in EvacuationTask
                         /\ <<"evacuate", s>> \in EvacuationTask
                         /\ <<"evacuate", s>> # disable
                         /\ <<"retrieve", s>> # disable
    /\ \A servers \in SUBSET Server : FlowOf(servers) \subseteq EvacuationTask
BY DEF EvacuationTask, FlowOf, disable

(* Every step of the evacuation is a step of the engine, or leaves it be.  *)
LEMMA EngineStep ==
    ASSUME [Next]_vars
    PROVE  [EngineProofs!Next]_(EngineProofs!flowVars)
<1> USE DEF EngineProofs!flowVars
<1>1. ASSUME NEW t \in EvacuationTask,
             \/ Engine!Execute(t) \/ Engine!Succeed(t) \/ Engine!Fail(t)
             \/ Engine!Revert(t) \/ Engine!RevertSucceeds(t)
             \/ Engine!RevertRaises(t)
      PROVE  EngineProofs!Next
  BY <1>1, SameActions DEF EngineProofs!Next, EngineProofs!TaskStep
<1>2. ASSUME EvacuateHost PROVE EngineProofs!Next
  BY <1>2, TaskTypes, SameActions DEF EvacuateHost, EngineProofs!Next
<1>3. ASSUME NEW t \in EvacuationTask, StartTask(t) \/ DefaultRevert(t)
      PROVE  EngineProofs!Next
  BY <1>1, <1>3 DEF StartTask, DefaultRevert
<1>4. ASSUME DisableService \/ EnableService PROVE EngineProofs!Next
  BY <1>1, <1>4, TaskTypes DEF DisableService, EnableService
<1>5. ASSUME NEW s \in Server,
             \/ RetrieveServer(s) \/ EvacuateRequest(s)
             \/ EvacuateObserved(s) \/ WaitGivesUp(s)
      PROVE  EngineProofs!Next \/ UNCHANGED <<nodes, state, failures>>
  BY <1>1, <1>5, TaskTypes
     DEF RetrieveServer, EvacuateRequest, EvacuateObserved, WaitGivesUp
<1>6. CASE NovaStep
  BY <1>6 DEF NovaStep, NovaBegins, NovaMigrates, NovaBoots
<1>7. CASE UNCHANGED vars
  BY <1>7 DEF vars, cloudVars
<1>. QED  BY <1>2, <1>3, <1>4, <1>5, <1>6, <1>7 DEF Next, FlowStep

(* The engine's type invariant and the order of its dependencies carry     *)
(* over to the evacuation.                                                 *)
LEMMA EngineInvariants ==
    Spec => [](Engine!TypeOK /\ Engine!DependenciesHold)
<1>1. Init => EngineProofs!Init
  BY DEF Init, Engine!Init, EngineProofs!Init
<1>2. EngineProofs!Init =>
          EngineProofs!TypeOK /\ EngineProofs!DependenciesHold
  BY DEF EngineProofs!Init, EngineProofs!TypeOK, EngineProofs!TaskState,
         EngineProofs!DependenciesHold
<1>3. /\ EngineProofs!TypeOK
      /\ EngineProofs!DependenciesHold
      /\ [Next]_vars
      => EngineProofs!TypeOK' /\ EngineProofs!DependenciesHold'
  BY EngineStep, EngineProofs!FlowTypeStep, EngineProofs!DependenciesStep
<1>4. EngineProofs!TypeOK /\ EngineProofs!DependenciesHold =>
          Engine!TypeOK /\ Engine!DependenciesHold
  BY DEF Engine!TypeOK, EngineProofs!TypeOK, Engine!TaskState,
         EngineProofs!TaskState, Engine!DependenciesHold,
         EngineProofs!DependenciesHold, Engine!Predecessors,
         EngineProofs!Predecessors, Engine!Successors,
         EngineProofs!Successors
<1>. QED  BY <1>1, <1>2, <1>3, <1>4, PTL DEF Spec

(* What an operation of the engine does to a task.                         *)
LEMMA EngineMoves ==
    ASSUME NEW t
    PROVE  /\ Engine!Execute(t) =>
                 /\ t \in nodes /\ nodes' = nodes /\ state[t] = "PENDING"
                 /\ state' = [state EXCEPT ![t] = "RUNNING"]
           /\ Engine!Succeed(t) =>
                 /\ t \in nodes /\ nodes' = nodes /\ state[t] = "RUNNING"
                 /\ state' = [state EXCEPT ![t] = "SUCCESS"]
           /\ Engine!Fail(t) =>
                 /\ t \in nodes /\ nodes' = nodes /\ state[t] = "RUNNING"
                 /\ state' = [state EXCEPT ![t] = "FAILURE"]
           /\ Engine!Revert(t) =>
                 /\ t \in nodes /\ nodes' = nodes
                 /\ state[t] \in {"SUCCESS", "FAILURE"}
                 /\ state' = [state EXCEPT ![t] = "REVERTING"]
           /\ Engine!RevertSucceeds(t) =>
                 /\ t \in nodes /\ nodes' = nodes /\ state[t] = "REVERTING"
                 /\ state' = [state EXCEPT ![t] = "REVERTED"]
           /\ Engine!RevertRaises(t) =>
                 /\ t \in nodes /\ nodes' = nodes /\ state[t] = "REVERTING"
                 /\ state' = [state EXCEPT ![t] = "FAILURE"]
BY DEF Engine!Execute, Engine!Succeed, Engine!Fail, Engine!Revert,
       Engine!RevertSucceeds, Engine!RevertRaises, Engine!Move,
       Engine!ReadyToExecute, Engine!ReadyToRevert

-----------------------------------------------------------------------------
(* The inductive invariant.                                                *)

(* A flow always disables the service, and tasks outside it never begin.   *)
FlowShape ==
    /\ \A t \in EvacuationTask \ nodes : state[t] = "PENDING"
    /\ nodes # {} => disable \in nodes

(* What the state of the disabling task says about the cloud and the UI.   *)
ServiceFollowsTask ==
    /\ state[disable] = "SUCCESS" => service = "disabled" /\ shown = "blocked"
    /\ state[disable] = "REVERTED" =>
          service = "enabled" /\ shown = "available"

IInv ==
    /\ TypeOK
    /\ Engine!DependenciesHold
    /\ FlowShape
    /\ ServiceFollowsTask

(* Every action of the flow or of nova moves at most one task.             *)
LEMMA OneTaskMoves ==
    ASSUME FlowStep \/ NovaStep \/ UNCHANGED vars
    PROVE  \/ UNCHANGED <<nodes, state>>
           \/ \E t \in nodes, to \in Engine!TaskState :
                 /\ nodes' = nodes
                 /\ state' = [state EXCEPT ![t] = to]
<1> USE EngineMoves DEF Engine!TaskState
<1>1. ASSUME NEW t \in EvacuationTask, StartTask(t) \/ DefaultRevert(t)
      PROVE  \E u \in nodes, to \in Engine!TaskState :
                 nodes' = nodes /\ state' = [state EXCEPT ![u] = to]
  BY <1>1 DEF StartTask, DefaultRevert
<1>2. ASSUME DisableService \/ EnableService
      PROVE  \E u \in nodes, to \in Engine!TaskState :
                 nodes' = nodes /\ state' = [state EXCEPT ![u] = to]
  BY <1>2 DEF DisableService, EnableService
<1>3. ASSUME NEW s \in Server,
             \/ RetrieveServer(s) \/ EvacuateRequest(s)
             \/ EvacuateObserved(s) \/ WaitGivesUp(s)
      PROVE  \/ UNCHANGED <<nodes, state>>
             \/ \E u \in nodes, to \in Engine!TaskState :
                 nodes' = nodes /\ state' = [state EXCEPT ![u] = to]
  BY <1>3
     DEF RetrieveServer, EvacuateRequest, EvacuateObserved, WaitGivesUp
<1>4. CASE NovaStep
  BY <1>4 DEF NovaStep, NovaBegins, NovaMigrates, NovaBoots
<1>5. CASE UNCHANGED vars
  BY <1>5 DEF vars, cloudVars
<1>. QED  BY <1>1, <1>2, <1>3, <1>4, <1>5 DEF FlowStep

-----------------------------------------------------------------------------
(* The steps.                                                              *)

(* Every step keeps the state well typed.                                  *)
LEMMA TypeStep ==
    ASSUME IInv, [Next]_vars, Engine!TypeOK'
    PROVE  TypeOK'
<1> USE EvacuationAssumption DEF IInv, TypeOK
<1>1. ASSUME EvacuateHost PROVE TypeOK'
  BY <1>1 DEF EvacuateHost, cloudVars
<1>2. ASSUME NEW t \in EvacuationTask, StartTask(t) \/ DefaultRevert(t)
      PROVE  TypeOK'
  BY <1>2 DEF StartTask, DefaultRevert, cloudVars
<1>3. ASSUME DisableService \/ EnableService PROVE TypeOK'
  BY <1>3 DEF DisableService, EnableService
<1>4. ASSUME NEW s \in Server,
             RetrieveServer(s) \/ EvacuateObserved(s) \/ WaitGivesUp(s)
      PROVE  TypeOK'
  BY <1>4 DEF RetrieveServer, EvacuateObserved, WaitGivesUp, cloudVars
<1>5. ASSUME NEW s \in Server, EvacuateRequest(s) PROVE TypeOK'
  BY <1>5 DEF EvacuateRequest, MigrationTaken
<1>6. ASSUME NEW s \in Server, NovaBegins(s) \/ NovaMigrates(s) \/ NovaBoots(s)
      PROVE  TypeOK'
  BY <1>6 DEF NovaBegins, NovaMigrates, NovaBoots
<1>7. CASE UNCHANGED vars
  BY <1>7 DEF vars, cloudVars
<1>. QED
  BY <1>1, <1>2, <1>3, <1>4, <1>5, <1>6, <1>7
     DEF Next, FlowStep, NovaStep

(* Every step keeps the shape of the flow that is run.                     *)
LEMMA FlowShapeStep ==
    ASSUME IInv, [Next]_vars
    PROVE  FlowShape'
<1> USE DEF FlowShape
<1>1. CASE EvacuateHost
  <2>1. /\ disable \in nodes'
        /\ state' = [t \in EvacuationTask |-> "PENDING"]
    BY <1>1 DEF EvacuateHost, Engine!Run, FlowOf
  <2>. QED  BY <2>1
<1>2. CASE FlowStep \/ NovaStep \/ UNCHANGED vars
  <2>1. state \in [EvacuationTask -> Engine!TaskState]
    BY DEF IInv, TypeOK, Engine!TypeOK
  <2>. QED  BY <1>2, <2>1, OneTaskMoves DEF IInv
<1>. QED  BY <1>1, <1>2 DEF Next

(* The service is what the task that disables it has made of it.           *)
LEMMA ServiceStep ==
    ASSUME IInv, [Next]_vars
    PROVE  ServiceFollowsTask'
<1> USE DEF ServiceFollowsTask
<1>1. /\ state \in [EvacuationTask -> Engine!TaskState]
      /\ disable \in EvacuationTask
      /\ ServiceFollowsTask
  BY TaskTypes DEF IInv, TypeOK, Engine!TypeOK
<1>2. ASSUME EvacuateHost PROVE ServiceFollowsTask'
  <2>1. state' = [t \in EvacuationTask |-> "PENDING"]
    BY <1>2 DEF EvacuateHost, Engine!Run
  <2>. QED  BY <1>1, <2>1
<1>3. ASSUME NEW t \in EvacuationTask, StartTask(t)
      PROVE  ServiceFollowsTask'
  BY <1>1, <1>3, EngineMoves DEF StartTask, cloudVars
<1>4. ASSUME NEW t \in EvacuationTask, DefaultRevert(t)
      PROVE  ServiceFollowsTask'
  BY <1>1, <1>4, EngineMoves DEF DefaultRevert, cloudVars
<1>5. ASSUME DisableService PROVE ServiceFollowsTask'
  BY <1>1, <1>5, EngineMoves DEF DisableService
<1>6. ASSUME EnableService PROVE ServiceFollowsTask'
  BY <1>1, <1>6, EngineMoves DEF EnableService
<1>7. ASSUME NEW s \in Server,
             \/ RetrieveServer(s) \/ EvacuateRequest(s)
             \/ EvacuateObserved(s) \/ WaitGivesUp(s)
      PROVE  ServiceFollowsTask'
  <2>1. <<"evacuate", s>> # disable /\ <<"retrieve", s>> # disable
    BY TaskTypes
  <2>. QED
    BY <1>1, <1>7, <2>1, EngineMoves
       DEF RetrieveServer, EvacuateRequest, EvacuateObserved, WaitGivesUp,
           cloudVars
<1>8. CASE NovaStep
  BY <1>1, <1>8 DEF NovaStep, NovaBegins, NovaMigrates, NovaBoots
<1>9. CASE UNCHANGED vars
  BY <1>1, <1>9 DEF vars, cloudVars
<1>. QED
  BY <1>2, <1>3, <1>4, <1>5, <1>6, <1>7, <1>8, <1>9 DEF Next, FlowStep

-----------------------------------------------------------------------------
(* The theorems.                                                           *)

(* The invariant holds before the first evacuation.                        *)
LEMMA InitInvariant == Init => IInv
<1> SUFFICES ASSUME Init PROVE IInv
  OBVIOUS
<1>1. /\ nodes = {}
      /\ state = [t \in EvacuationTask |-> "PENDING"]
      /\ failures = FALSE
  BY DEF Init, Engine!Init
<1>2. TypeOK
  <2>1. Engine!TypeOK
    BY <1>1 DEF Engine!TypeOK, Engine!TaskState
  <2>2. runs \in 0..MaxRuns
    BY EvacuationAssumption DEF Init
  <2>3. /\ place \in [Server -> {"nowhere", "host", "elsewhere"}]
        /\ status \in [Server -> {"NONE", "ACTIVE", "MIGRATING", "ERROR"}]
    BY DEF Init
  <2>. QED  BY <2>1, <2>2, <2>3 DEF Init, TypeOK
<1>3. Engine!DependenciesHold
  BY <1>1 DEF Engine!DependenciesHold
<1>4. FlowShape /\ ServiceFollowsTask
  BY <1>1, TaskTypes DEF FlowShape, ServiceFollowsTask
<1>. QED  BY <1>2, <1>3, <1>4 DEF IInv

(* The strengthened invariant, from which the others follow.               *)
THEOREM Invariant == Spec => []IInv
<1>1. ASSUME IInv, [Next]_vars, Engine!TypeOK', Engine!DependenciesHold'
      PROVE  IInv'
  BY <1>1, TypeStep, FlowShapeStep, ServiceStep DEF IInv
<1>. QED  BY <1>1, InitInvariant, EngineInvariants, PTL DEF Spec

(* The variables stay well typed, whatever fails and however often the     *)
(* operator tries again.                                                   *)
THEOREM TypeCorrect == Spec => []TypeOK
<1>1. IInv => TypeOK
  BY DEF IInv
<1>. QED  BY <1>1, Invariant, PTL

(* The compute service is disabled as long as an evacuation has begun and  *)
(* is not undone.                                                          *)
THEOREM StaysBlocked == Spec => []BlockedWhileEvacuating
<1>1. ASSUME IInv PROVE BlockedWhileEvacuating
  <2> SUFFICES ASSUME NEW s \in Server,
                      state[<<"evacuate", s>>] \notin {"PENDING", "REVERTED"}
               PROVE  service = "disabled"
    BY DEF BlockedWhileEvacuating
  <2>1. <<"evacuate", s>> \in nodes /\ disable \in nodes
    BY <1>1, TaskTypes DEF IInv, FlowShape
  <2>2. <<disable, <<"evacuate", s>>>> \in Order
    BY DEF Order
  <2>3. state[disable] = "SUCCESS"
    BY <1>1, <2>1, <2>2
       DEF IInv, Engine!DependenciesHold, Engine!Predecessors
  <2>. QED  BY <1>1, <2>3 DEF IInv, ServiceFollowsTask
<1>. QED  BY <1>1, Invariant, PTL

(* The reported outcome is what the cloud and the UI show.                 *)
THEOREM OutcomeCorrect == Spec => []ServiceMatchesOutcome
<1>1. ASSUME IInv PROVE ServiceMatchesOutcome
  BY <1>1
     DEF IInv, FlowShape, ServiceFollowsTask, ServiceMatchesOutcome,
         Engine!Succeeded
<1>. QED  BY <1>1, Invariant, PTL

=============================================================================
