------------------------ MODULE ServerMigrationProofs ------------------------
(* Proofs about the migration of servers, for every set of servers,        *)
(* meta-resources and floating ips, and any number of runs.                *)
EXTENDS ServerMigration, TLAPS

EngineProofs == INSTANCE TaskFlowProofs WITH
    Task <- MigrationTask, Before <- Order

-----------------------------------------------------------------------------
(* The tasks.                                                              *)

(* Where the tasks named in the actions come from.                         *)
LEMMA TaskTypes ==
    /\ \A s \in Server, k \in ServerKind : <<k, s>> \in MigrationTask
    /\ \A f \in Fip : <<"fip", f>> \in MigrationTask
    /\ \A servers : FlowOf(servers) \subseteq MigrationTask
<1>1. \A s \in Server, k \in ServerKind : <<k, s>> \in MigrationTask
  BY DEF MigrationTask
<1>2. \A f \in Fip : <<"fip", f>> \in MigrationTask
  BY DEF MigrationTask
<1>3. ASSUME NEW servers PROVE FlowOf(servers) \subseteq MigrationTask
  <2> DEFINE chain(s) == {t \in MigrationTask :
                /\ t[1] # "ensure" /\ ServerOf(t) = s
                /\ t[1] \in {"snapshot", "upload"} => s \in Snapshotted}
             chains == UNION {chain(s) : s \in servers}
             metas == UNION {Needs(t) : t \in chains}
  <2>1. chains \subseteq MigrationTask
    OBVIOUS
  <2>2. ASSUME NEW t \in MigrationTask PROVE Needs(t) \subseteq Meta
    <3>1. CASE t[1] = "sync"
      <4>1. t[2] \in Server  BY <3>1 DEF MigrationTask
      <4>. QED  BY <3>1, <4>1, MigrationAssumption DEF Needs
    <3>2. CASE t[1] = "upload"
      <4>1. t[2] \in Server  BY <3>2 DEF MigrationTask
      <4>. QED  BY <3>2, <4>1, MigrationAssumption DEF Needs
    <3>3. CASE t[1] = "boot"
      <4>1. t[2] \in Server  BY <3>3 DEF MigrationTask
      <4>. QED  BY <3>3, <4>1, MigrationAssumption DEF Needs
    <3>4. CASE t[1] = "fip"
      <4>1. t[2] \in Fip  BY <3>4 DEF MigrationTask, ServerKind
      <4>. QED  BY <3>4, <4>1, MigrationAssumption DEF Needs
    <3>5. CASE t[1] \notin {"sync", "upload", "boot", "fip"}
      BY <3>5 DEF Needs
    <3>. QED  BY <3>1, <3>2, <3>3, <3>4, <3>5
  <2>3. metas \subseteq Meta
    BY <2>1, <2>2
  <2>4. {<<"ensure", m>> : m \in metas} \subseteq MigrationTask
    BY <2>3 DEF MigrationTask
  <2>5. FlowOf(servers) = chains \cup {<<"ensure", m>> : m \in metas}
    BY DEF FlowOf
  <2>. QED  BY <2>1, <2>4, <2>5
<1>. QED  BY <1>1, <1>2, <1>3

-----------------------------------------------------------------------------
(* The module of the engine's proofs speaks of the same engine.            *)
LEMMA SameActions ==
    ASSUME NEW t
    PROVE  /\ EngineProofs!Run(t) <=> Engine!Run(t)
           /\ EngineProofs!Execute(t) <=> Engine!Execute(t)
           /\ EngineProofs!Succeed(t) <=> Engine!Succeed(t)
           /\ EngineProofs!Fail(t) <=> Engine!Fail(t)
           /\ EngineProofs!Revert(t) <=> Engine!Revert(t)
           /\ EngineProofs!RevertSucceeds(t) <=> Engine!RevertSucceeds(t)
           /\ EngineProofs!RevertRaises(t) <=> Engine!RevertRaises(t)
           /\ EngineProofs!Undo(t) <=> Engine!Undo(t)
<1>1. EngineProofs!Run(t) <=> Engine!Run(t)
  BY DEF Engine!Run, Engine!Over, Engine!Succeeded, Engine!Reverted,
         Engine!Failed, Engine!Busy, EngineProofs!Run, EngineProofs!Over,
         EngineProofs!Succeeded, EngineProofs!Reverted, EngineProofs!Failed,
         EngineProofs!Busy
<1>2. EngineProofs!Execute(t) <=> Engine!Execute(t)
  BY DEF Engine!Execute, Engine!ReadyToExecute, Engine!Failed, Engine!Move,
         Engine!Predecessors, EngineProofs!Execute, EngineProofs!Failed,
         EngineProofs!ReadyToExecute, EngineProofs!Move,
         EngineProofs!Predecessors
<1>3. /\ EngineProofs!Revert(t) <=> Engine!Revert(t)
      /\ EngineProofs!Undo(t) <=> Engine!Undo(t)
  BY DEF Engine!Revert, Engine!Undo, Engine!ReadyToRevert, Engine!Failed, Engine!Move,
         Engine!Successors, EngineProofs!Revert, EngineProofs!Undo, EngineProofs!Failed,
         EngineProofs!ReadyToRevert, EngineProofs!Move,
         EngineProofs!Successors
<1>4. /\ EngineProofs!Succeed(t) <=> Engine!Succeed(t)
      /\ EngineProofs!Fail(t) <=> Engine!Fail(t)
      /\ EngineProofs!RevertSucceeds(t) <=> Engine!RevertSucceeds(t)
      /\ EngineProofs!RevertRaises(t) <=> Engine!RevertRaises(t)
  BY DEF Engine!Succeed, Engine!Fail, Engine!RevertSucceeds,
         Engine!RevertRaises, Engine!Move, EngineProofs!Succeed,
         EngineProofs!Fail, EngineProofs!RevertSucceeds,
         EngineProofs!RevertRaises, EngineProofs!Move
<1>. QED  BY <1>1, <1>2, <1>3, <1>4

(* Every step of the migration is a step of the engine, or leaves it alone. *)
LEMMA EngineStep ==
    ASSUME [Next]_vars
    PROVE  [EngineProofs!Next]_(EngineProofs!flowVars)
<1> USE DEF EngineProofs!flowVars
<1>1. ASSUME NEW t \in MigrationTask,
             \/ Engine!Execute(t) \/ Engine!Succeed(t) \/ Engine!Fail(t)
             \/ Engine!Revert(t) \/ Engine!RevertSucceeds(t)
             \/ Engine!RevertRaises(t)
      PROVE  EngineProofs!Next
  BY <1>1, SameActions DEF EngineProofs!Next, EngineProofs!TaskStep
<1>2. ASSUME MigrateTenant
      PROVE  EngineProofs!Next
  BY <1>2, TaskTypes, SameActions DEF MigrateTenant, EngineProofs!Next
<1>3. ASSUME NEW t \in MigrationTask,
             \/ StartTask(t) \/ PassiveTaskEnds(t) \/ DefaultRevert(t)
             \/ WaitGivesUp(t)
      PROVE  EngineProofs!Next
  BY <1>1, <1>3
     DEF StartTask, PassiveTaskEnds, DefaultRevert, WaitGivesUp
<1>4. ASSUME NEW s \in Server, ServerStep(s)
      PROVE  EngineProofs!Next \/ UNCHANGED <<nodes, state, failures>>
  <2>1. \A k \in ServerKind : <<k, s>> \in MigrationTask
    BY TaskTypes
  <2>2. CASE StartEvent(s) \/ StartEventRevert(s)
    BY <1>1, <2>1, <2>2 DEF StartEvent, StartEventRevert, ServerKind
  <2>3. CASE SuspendRequest(s) \/ SuspendObserved(s)
    BY <1>1, <2>1, <2>3
       DEF SuspendRequest, SuspendObserved, Await, ServerKind
  <2>4. CASE ResumeRequest(s) \/ ResumeObserved(s)
    BY <1>1, <2>1, <2>4 DEF ResumeRequest, ResumeObserved, Await, ServerKind
  <2>5. CASE BootRequest(s) \/ BootObserved(s)
    BY <1>1, <2>1, <2>5 DEF BootRequest, BootObserved, Await, ServerKind
  <2>6. CASE TerminateRequest(s)
    BY <1>1, <2>1, <2>6 DEF TerminateRequest, ServerKind
  <2>. QED  BY <1>4, <2>2, <2>3, <2>4, <2>5, <2>6 DEF ServerStep
<1>5. ASSUME NEW f \in Fip, RestoreFloatingIp(f)
      PROVE  EngineProofs!Next
  BY <1>1, <1>5, TaskTypes DEF RestoreFloatingIp
<1>6. CASE NovaStep
  BY <1>6 DEF NovaStep, SourceNova, DestinationNova
<1>7. CASE UNCHANGED vars
  BY <1>7 DEF vars
<1>. QED  BY <1>2, <1>3, <1>4, <1>5, <1>6, <1>7 DEF Next, FlowStep

(* The engine's type invariant and the order of its dependencies carry     *)
(* over to the migration.                                                  *)
LEMMA EngineInvariants ==
    Spec => [](Engine!TypeOK /\ Engine!DependenciesHold)
<1>1. Init => EngineProofs!Init
  BY DEF Init, Engine!Init, EngineProofs!Init
<1>2. EngineProofs!Init =>
          EngineProofs!TypeOK /\ EngineProofs!DependenciesHold
  BY DEF EngineProofs!Init, EngineProofs!TypeOK, EngineProofs!TaskState,
         EngineProofs!DependenciesHold
<1>3. /\ EngineProofs!TypeOK
      /\ EngineProofs!DependenciesHold
      /\ [Next]_vars
      => EngineProofs!TypeOK' /\ EngineProofs!DependenciesHold'
  BY EngineStep, EngineProofs!FlowTypeStep, EngineProofs!DependenciesStep
<1>4. EngineProofs!TypeOK /\ EngineProofs!DependenciesHold =>
          Engine!TypeOK /\ Engine!DependenciesHold
  BY DEF Engine!TypeOK, EngineProofs!TypeOK, Engine!TaskState,
         EngineProofs!TaskState, Engine!DependenciesHold,
         EngineProofs!DependenciesHold, Engine!Predecessors,
         EngineProofs!Predecessors, Engine!Successors,
         EngineProofs!Successors
<1>. QED  BY <1>1, <1>2, <1>3, <1>4, PTL DEF Spec

-----------------------------------------------------------------------------
(* The inductive invariant.                                                *)

Stands(t) == state[t] \notin {"PENDING", "REVERTED"}

(* A flow holds the whole chain of a server or nothing of it.              *)
FlowShape ==
    /\ \A t \in MigrationTask \ nodes : state[t] = "PENDING"
    /\ \A s \in Server, k \in ServerKind : <<k, s>> \in nodes =>
          /\ \A j \in {"start", "suspend", "boot", "terminate"} :
                <<j, s>> \in nodes
          /\ \A f \in Fip : Owner[f] = s => <<"fip", f>> \in nodes
    /\ run = 0 => nodes = {}

(* What the states of the tasks of a server say about the clouds.          *)
Suspension(s) ==
    /\ state[<<"suspend", s>>] = "SUCCESS" =>
          \/ src[s] = "SUSPENDED"
          \/ /\ src[s] \in {"DELETING", "GONE"}
             /\ state[<<"terminate", s>>] \notin {"PENDING", "RUNNING"}
    /\ state[<<"suspend", s>>] = "REVERTED" => src[s] = "ACTIVE"

Copy(s) ==
    /\ state[<<"boot", s>>] = "SUCCESS" => dst[s][run] = "ACTIVE"
    /\ state[<<"boot", s>>] = "PENDING" /\ run > 0 => dst[s][run] = "NONE"
    /\ \A r \in Run : r > run => dst[s][r] = "NONE"

FloatingIp(f) == state[<<"fip", f>>] = "SUCCESS" => holder[f] = run

(* What is known of the first run, before which nothing was touched.       *)
FirstRun(s) ==
    /\ run = 0 => src[s] = "ACTIVE" /\ s \notin banner
    /\ run = 1 =>
          /\ state[<<"suspend", s>>] = "PENDING" => src[s] = "ACTIVE"
          /\ state[<<"start", s>>] \in {"PENDING", "RUNNING", "REVERTED"} =>
                s \notin banner

Announced(s) ==
    state[<<"start", s>>] = "SUCCESS" =>
        s \in banner \/ src[s] \in {"DELETING", "GONE"}

IInv ==
    /\ TypeOK
    /\ Engine!DependenciesHold
    /\ FlowShape
    /\ \A s \in Server : Suspension(s)
    /\ \A s \in Server : Copy(s)
    /\ \A f \in Fip : FloatingIp(f)
    /\ \A s \in Server : FirstRun(s)
    /\ \A s \in Server : Announced(s)
    /\ NoServerLost

-----------------------------------------------------------------------------
(* Facts the steps are proved from.                                        *)

(* What an operation of the engine does to a task.                         *)
LEMMA EngineMoves ==
    ASSUME NEW t
    PROVE  /\ Engine!Execute(t) =>
                 /\ t \in nodes /\ nodes' = nodes /\ state[t] = "PENDING"
                 /\ state' = [state EXCEPT ![t] = "RUNNING"]
           /\ Engine!Succeed(t) =>
                 /\ t \in nodes /\ nodes' = nodes /\ state[t] = "RUNNING"
                 /\ state' = [state EXCEPT ![t] = "SUCCESS"]
           /\ Engine!Fail(t) =>
                 /\ t \in nodes /\ nodes' = nodes /\ state[t] = "RUNNING"
                 /\ state' = [state EXCEPT ![t] = "FAILURE"]
           /\ Engine!Revert(t) =>
                 /\ t \in nodes /\ nodes' = nodes
                 /\ state[t] \in {"SUCCESS", "FAILURE"}
                 /\ state' = [state EXCEPT ![t] = "REVERTING"]
           /\ Engine!RevertSucceeds(t) =>
                 /\ t \in nodes /\ nodes' = nodes /\ state[t] = "REVERTING"
                 /\ state' = [state EXCEPT ![t] = "REVERTED"]
           /\ Engine!RevertRaises(t) =>
                 /\ t \in nodes /\ nodes' = nodes /\ state[t] = "REVERTING"
                 /\ state' = [state EXCEPT ![t] = "FAILURE"]
           /\ Engine!Undo(t) =>
                 /\ t \in nodes /\ nodes' = nodes
                 /\ state' = [state EXCEPT ![t] = "REVERTED"]
BY DEF Engine!Execute, Engine!Succeed, Engine!Fail, Engine!Revert,
       Engine!RevertSucceeds, Engine!RevertRaises, Engine!Undo, Engine!Move,
       Engine!ReadyToExecute, Engine!ReadyToRevert

(* The order of the tasks of one server.                                   *)
LEMMA ChainOrder ==
    ASSUME NEW s \in Server
    PROVE  /\ \A j, k \in ServerKind : Rank[j] < Rank[k] =>
                  <<<<j, s>>, <<k, s>>>> \in Order
           /\ \A f \in Fip : Owner[f] = s =>
                  <<<<"fip", f>>, <<"terminate", s>>>> \in Order
<1>1. ASSUME NEW j \in ServerKind, NEW k \in ServerKind, Rank[j] < Rank[k]
      PROVE  <<<<j, s>>, <<k, s>>>> \in Order
  <2>1. Precedes(<<j, s>>, <<k, s>>)
    BY <1>1 DEF Precedes, ServerOf, ServerKind
  <2>. QED  BY <2>1, TaskTypes DEF Order
<1>2. ASSUME NEW f \in Fip, Owner[f] = s
      PROVE  <<<<"fip", f>>, <<"terminate", s>>>> \in Order
  <2>1. Precedes(<<"fip", f>>, <<"terminate", s>>)
    BY <1>2 DEF Precedes, ServerOf, Rank
  <2>2. "terminate" \in ServerKind
    BY DEF ServerKind
  <2>3. /\ <<"fip", f>> \in MigrationTask
        /\ <<"terminate", s>> \in MigrationTask
    BY <2>2, TaskTypes
  <2>. QED  BY <2>1, <2>3 DEF Order
<1>. QED  BY <1>1, <1>2

(* What must have succeeded for a task of a server to stand.               *)
LEMMA ChainStands ==
    ASSUME Engine!DependenciesHold, FlowShape, NEW s \in Server
    PROVE  /\ \A k \in {"snapshot", "upload", "boot", "terminate"} :
                 Stands(<<k, s>>) => state[<<"suspend", s>>] = "SUCCESS"
           /\ \A k \in {"suspend", "boot", "terminate"} :
                 Stands(<<k, s>>) => state[<<"start", s>>] = "SUCCESS"
           /\ Stands(<<"terminate", s>>) =>
                 /\ state[<<"boot", s>>] = "SUCCESS"
                 /\ \A f \in Fip :
                       Owner[f] = s => state[<<"fip", f>>] = "SUCCESS"
<1>1. ASSUME NEW k \in ServerKind, Stands(<<k, s>>)
      PROVE  <<k, s>> \in nodes
  BY <1>1, TaskTypes DEF Stands, FlowShape
<1>2. ASSUME NEW t, NEW u, t \in nodes, u \in nodes,
             <<u, t>> \in Order, Stands(t)
      PROVE  state[u] = "SUCCESS"
  BY <1>2 DEF Engine!DependenciesHold, Engine!Predecessors, Stands
<1>3. ASSUME NEW j \in {"start", "suspend", "boot"}, NEW k \in ServerKind,
             Rank[j] < Rank[k], Stands(<<k, s>>)
      PROVE  state[<<j, s>>] = "SUCCESS"
  <2>1. <<k, s>> \in nodes  BY <1>1, <1>3
  <2>2. <<j, s>> \in nodes  BY <2>1 DEF FlowShape
  <2>3. j \in ServerKind  BY DEF ServerKind
  <2>4. <<<<j, s>>, <<k, s>>>> \in Order  BY <1>3, <2>3, ChainOrder
  <2>. QED  BY <1>2, <1>3, <2>1, <2>2, <2>4
<1>4. ASSUME Stands(<<"terminate", s>>), NEW f \in Fip, Owner[f] = s
      PROVE  state[<<"fip", f>>] = "SUCCESS"
  <2>1. <<"terminate", s>> \in nodes  BY <1>1, <1>4 DEF ServerKind
  <2>2. <<"fip", f>> \in nodes  BY <1>4, <2>1 DEF FlowShape, ServerKind
  <2>. QED  BY <1>2, <1>4, <2>1, <2>2, ChainOrder
<1>5. \A k \in {"snapshot", "upload", "boot", "terminate"} :
          Stands(<<k, s>>) => state[<<"suspend", s>>] = "SUCCESS"
  BY <1>3 DEF ServerKind, Rank
<1>6. \A k \in {"suspend", "boot", "terminate"} :
          Stands(<<k, s>>) => state[<<"start", s>>] = "SUCCESS"
  BY <1>3 DEF ServerKind, Rank
<1>7. Stands(<<"terminate", s>>) => state[<<"boot", s>>] = "SUCCESS"
  BY <1>3 DEF ServerKind, Rank
<1>. QED  BY <1>4, <1>5, <1>6, <1>7

-----------------------------------------------------------------------------
(* The steps: typing, and the shape of the flow.                           *)

(* Every step keeps the state well typed.                                  *)
LEMMA TypeStep ==
    ASSUME IInv, [Next]_vars, Engine!TypeOK'
    PROVE  TypeOK'
<1> USE MigrationAssumption DEF IInv, TypeOK, Run, SrcStatus, DstStatus
<1>1. ASSUME MigrateTenant PROVE TypeOK'
  BY <1>1 DEF MigrateTenant, cloudVars
<1>2. ASSUME NEW t \in MigrationTask,
             StartTask(t) \/ PassiveTaskEnds(t) \/ DefaultRevert(t)
      PROVE  TypeOK'
  BY <1>2 DEF StartTask, PassiveTaskEnds, DefaultRevert, cloudVars
<1>3. ASSUME NEW t \in MigrationTask, WaitGivesUp(t) PROVE TypeOK'
  BY <1>3 DEF WaitGivesUp, cloudVars
<1>4. ASSUME NEW s \in Server, ServerStep(s) PROVE TypeOK'
  <2>1. /\ <<"suspend", s>> \in MigrationTask
        /\ <<"boot", s>> \in MigrationTask
    BY TaskTypes DEF ServerKind
  <2>2. CASE StartEvent(s) \/ StartEventRevert(s)
    BY <2>2 DEF StartEvent, StartEventRevert
  <2>3. CASE SuspendRequest(s)
    BY <2>1, <2>3 DEF SuspendRequest, Suspending, Await
  <2>4. CASE ResumeRequest(s)
    BY <2>1, <2>4 DEF ResumeRequest, Resuming, Await
  <2>5. CASE SuspendObserved(s) \/ ResumeObserved(s) \/ BootObserved(s)
    BY <2>5 DEF SuspendObserved, ResumeObserved, BootObserved, cloudVars
  <2>6. CASE BootRequest(s)
    <3>1. dst' \in [Server -> [Run -> DstStatus]]
      <4>1. dst' = dst \/ dst' = [dst EXCEPT ![s][run] = "BUILD"]
        BY <2>6 DEF BootRequest, Building
      <4>2. dst[s] \in [Run -> DstStatus]
        OBVIOUS
      <4>3. [dst[s] EXCEPT ![run] = "BUILD"] \in [Run -> DstStatus]
        BY <4>2
      <4>. QED  BY <4>1, <4>3
    <3>. QED  BY <2>1, <2>6, <3>1 DEF BootRequest, Await
  <2>7. CASE TerminateRequest(s)
    BY <2>7 DEF TerminateRequest, Deleting
  <2>. QED
    BY <1>4, <2>2, <2>3, <2>4, <2>5, <2>6, <2>7 DEF ServerStep
<1>5. ASSUME NEW f \in Fip, RestoreFloatingIp(f) PROVE TypeOK'
  BY <1>5 DEF RestoreFloatingIp
<1>6. ASSUME NEW s \in Server, SourceNova(s) PROVE TypeOK'
  BY <1>6 DEF SourceNova, SrcMove
<1>7. ASSUME NEW s \in Server, NEW r \in Run, DestinationNova(s, r)
      PROVE  TypeOK'
  BY <1>7 DEF DestinationNova
<1>8. CASE UNCHANGED vars
  BY <1>8 DEF vars
<1>. QED
  BY <1>1, <1>2, <1>3, <1>4, <1>5, <1>6, <1>7, <1>8
     DEF Next, FlowStep, NovaStep

(* A flow built for servers the source cloud lists has whole chains only.  *)
LEMMA FlowOfShape ==
    ASSUME NEW servers \in SUBSET Server, NEW s \in Server,
           NEW k \in ServerKind, <<k, s>> \in FlowOf(servers)
    PROVE  /\ \A j \in {"start", "suspend", "boot", "terminate"} :
                 <<j, s>> \in FlowOf(servers)
           /\ \A f \in Fip : Owner[f] = s => <<"fip", f>> \in FlowOf(servers)
<1> DEFINE chain(x) == {t \in MigrationTask :
              /\ t[1] # "ensure" /\ ServerOf(t) = x
              /\ t[1] \in {"snapshot", "upload"} => x \in Snapshotted}
           chains == UNION {chain(x) : x \in servers}
           ensures == {<<"ensure", m>> : m \in UNION {Needs(t) : t \in chains}}
<1>1. FlowOf(servers) = chains \cup ensures
  BY DEF FlowOf
<1>2. <<k, s>> \notin ensures
  BY DEF ServerKind
<1>3. s \in servers
  <2>1. PICK x \in servers : <<k, s>> \in chain(x)
    BY <1>1, <1>2
  <2>. QED  BY <2>1 DEF ServerOf, ServerKind
<1>4. ASSUME NEW j \in {"start", "suspend", "boot", "terminate"}
      PROVE  <<j, s>> \in chain(s)
  <2>1. <<j, s>> \in MigrationTask
    BY TaskTypes DEF ServerKind
  <2>. QED  BY <2>1 DEF ServerOf
<1>5. ASSUME NEW f \in Fip, Owner[f] = s PROVE <<"fip", f>> \in chain(s)
  BY <1>5, TaskTypes DEF ServerOf
<1>. QED  BY <1>1, <1>3, <1>4, <1>5

(* A step moves one task of the flow, or none, or begins a new run.        *)
LEMMA OneTaskMoves ==
    ASSUME [Next]_vars
    PROVE  \/ MigrateTenant
           \/ UNCHANGED <<nodes, state, run>>
           \/ /\ UNCHANGED <<nodes, run>>
              /\ \E t \in nodes, st \in {"RUNNING", "SUCCESS", "FAILURE",
                                        "REVERTING", "REVERTED"} :
                    state' = [state EXCEPT ![t] = st]
<1> DEFINE Moved == /\ UNCHANGED nodes
                    /\ \E t \in nodes, st \in {"RUNNING", "SUCCESS", "FAILURE",
                                             "REVERTING", "REVERTED"} :
                          state' = [state EXCEPT ![t] = st]
<1>1. ASSUME NEW t,
             \/ Engine!Execute(t) \/ Engine!Succeed(t) \/ Engine!Fail(t)
             \/ Engine!Revert(t) \/ Engine!RevertSucceeds(t)
             \/ Engine!RevertRaises(t)
      PROVE  Moved
  BY <1>1, EngineMoves
<1> HIDE DEF Moved
<1>2. ASSUME NEW t \in MigrationTask,
             \/ StartTask(t) \/ PassiveTaskEnds(t) \/ DefaultRevert(t)
             \/ WaitGivesUp(t)
      PROVE  Moved /\ UNCHANGED run
  BY <1>1, <1>2
     DEF StartTask, PassiveTaskEnds, DefaultRevert, WaitGivesUp
<1>3. ASSUME NEW s \in Server, ServerStep(s)
      PROVE  (Moved \/ UNCHANGED <<nodes, state>>) /\ UNCHANGED run
  <2>1. CASE StartEvent(s) \/ StartEventRevert(s)
    BY <1>1, <2>1 DEF StartEvent, StartEventRevert
  <2>2. CASE SuspendRequest(s) \/ ResumeRequest(s) \/ BootRequest(s)
    BY <1>1, <2>2 DEF SuspendRequest, ResumeRequest, BootRequest, Await
  <2>3. CASE SuspendObserved(s) \/ ResumeObserved(s) \/ BootObserved(s)
    BY <1>1, <2>3 DEF SuspendObserved, ResumeObserved, BootObserved
  <2>4. CASE TerminateRequest(s)
    BY <1>1, <2>4 DEF TerminateRequest
  <2>. QED  BY <1>3, <2>1, <2>2, <2>3, <2>4 DEF ServerStep
<1>4. ASSUME NEW f \in Fip, RestoreFloatingIp(f)
      PROVE  Moved /\ UNCHANGED run
  BY <1>1, <1>4 DEF RestoreFloatingIp
<1>5. CASE NovaStep
  BY <1>5 DEF NovaStep, SourceNova, DestinationNova
<1>6. CASE UNCHANGED vars
  BY <1>6 DEF vars
<1>. QED
  BY <1>2, <1>3, <1>4, <1>5, <1>6 DEF Next, FlowStep, Moved

(* Every step keeps the shape of the flow that is run.                     *)
LEMMA FlowShapeStep ==
    ASSUME IInv, [Next]_vars
    PROVE  FlowShape'
<1> USE DEF IInv, FlowShape
<1>1. CASE MigrateTenant
  <2> DEFINE listed == {s \in Server : src[s] # "GONE"}
  <2>1. /\ nodes' = FlowOf(listed)
        /\ state' = [t \in MigrationTask |-> "PENDING"]
        /\ run' = run + 1 /\ run \in Nat
    BY <1>1, MigrationAssumption DEF MigrateTenant, Engine!Run, TypeOK
  <2>2. run' # 0
    BY <2>1
  <2>3. \A t \in MigrationTask : state'[t] = "PENDING"
    BY <2>1
  <2> HIDE DEF IInv
  <2>. QED  BY <2>1, <2>2, <2>3, FlowOfShape
<1>2. CASE UNCHANGED <<nodes, state, run>>
  BY <1>2
<1>3. ASSUME UNCHANGED <<nodes, run>>,
             NEW t \in nodes, NEW st, state' = [state EXCEPT ![t] = st]
      PROVE  FlowShape'
  <2>1. state \in [MigrationTask -> Engine!TaskState]
    BY DEF TypeOK, Engine!TypeOK
  <2>. QED  BY <1>3, <2>1
<1>. QED  BY <1>1, <1>2, <1>3, OneTaskMoves

-----------------------------------------------------------------------------
(* The steps: the suspension of a server.                                  *)

(* The status of an original follows from the tasks of its server.         *)
LEMMA SuspensionStep ==
    ASSUME IInv, [Next]_vars, NEW s \in Server
    PROVE  Suspension(s)'
<1> DEFINE sus == <<"suspend", s>>
           ter == <<"terminate", s>>
<1>1. /\ sus \in MigrationTask /\ ter \in MigrationTask
      /\ state \in [MigrationTask -> Engine!TaskState]
      /\ src \in [Server -> SrcStatus]
  BY TaskTypes DEF IInv, TypeOK, Engine!TypeOK, ServerKind
<1>2. Suspension(s)
  BY DEF IInv
<1>3. Stands(ter) => state[sus] = "SUCCESS"
  BY ChainStands DEF IInv
<1> USE <1>1, <1>2 DEF Suspension
<1>4. ASSUME MigrateTenant PROVE Suspension(s)'
  <2>1. state' = [t \in MigrationTask |-> "PENDING"]
    BY <1>4 DEF MigrateTenant, Engine!Run
  <2>. QED  BY <2>1
<1>5. ASSUME NEW t \in MigrationTask, StartTask(t) PROVE Suspension(s)'
  <2>1. /\ src' = src
        /\ \/ state[t] = "PENDING" /\ state' = [state EXCEPT ![t] = "RUNNING"]
           \/ state' = [state EXCEPT ![t] = "REVERTING"]
    BY <1>5, EngineMoves DEF StartTask, cloudVars
  <2>. QED  BY <2>1
<1>6. ASSUME NEW t \in MigrationTask,
             PassiveTaskEnds(t) \/ DefaultRevert(t) \/ WaitGivesUp(t)
      PROVE  Suspension(s)'
  <2>1. CASE PassiveTaskEnds(t) \/ DefaultRevert(t)
    <3>1. /\ src' = src /\ t # sus
          /\ \E st \in {"SUCCESS", "FAILURE", "REVERTED"} :
                state' = [state EXCEPT ![t] = st]
      BY <2>1, EngineMoves
         DEF PassiveTaskEnds, DefaultRevert, PassiveKind, HasRevert, cloudVars
    <3>. QED  BY <3>1
  <2>2. CASE WaitGivesUp(t)
    <3>1. src' = src /\ state' = [state EXCEPT ![t] = "FAILURE"]
      BY <2>2, EngineMoves DEF WaitGivesUp, cloudVars
    <3>. QED  BY <3>1
  <2>. QED  BY <1>6, <2>1, <2>2
<1>7. ASSUME NEW x \in Server, ServerStep(x) PROVE Suspension(s)'
  <2>1. CASE StartEvent(x) \/ StartEventRevert(x)
    <3>1. src' = src /\ \E st : state' = [state EXCEPT ![<<"start", x>>] = st]
      BY <2>1, EngineMoves DEF StartEvent, StartEventRevert
    <3>. QED  BY <3>1
  <2>2. CASE SuspendRequest(x)
    <3>1. /\ state[<<"suspend", x>>] = "RUNNING"
          /\ src' = src \/ src' = [src EXCEPT ![x] = "SUSPENDING"]
          /\ \/ state' = state
             \/ state' = [state EXCEPT ![<<"suspend", x>>] = "FAILURE"]
      BY <2>2, EngineMoves DEF SuspendRequest, Suspending, Await
    <3>. QED  BY <3>1
  <2>3. CASE SuspendObserved(x)
    <3>1. /\ src[x] = "SUSPENDED" /\ src' = src
          /\ state' = [state EXCEPT ![<<"suspend", x>>] = "SUCCESS"]
      BY <2>3, EngineMoves DEF SuspendObserved, cloudVars
    <3>. QED  BY <3>1
  <2>4. CASE ResumeRequest(x)
    <3>1. /\ state[<<"suspend", x>>] = "REVERTING"
          /\ src' = src \/ src' = [src EXCEPT ![x] = "RESUMING"]
          /\ \/ state' = state
             \/ state' = [state EXCEPT ![<<"suspend", x>>] = "FAILURE"]
      BY <2>4, EngineMoves DEF ResumeRequest, Resuming, Await
    <3>. QED  BY <3>1
  <2>5. CASE ResumeObserved(x)
    <3>1. /\ src[x] = "ACTIVE" /\ src' = src
          /\ state' = [state EXCEPT ![<<"suspend", x>>] = "REVERTED"]
      BY <2>5, EngineMoves DEF ResumeObserved, cloudVars
    <3>. QED  BY <3>1
  <2>6. CASE BootRequest(x) \/ BootObserved(x)
    <3>1. /\ src' = src
          /\ \/ state' = state
             \/ \E st : state' = [state EXCEPT ![<<"boot", x>>] = st]
      BY <2>6, EngineMoves DEF BootRequest, BootObserved, Await, cloudVars
    <3>. QED  BY <3>1
  <2>7. CASE TerminateRequest(x)
    <3>1. /\ state[<<"terminate", x>>] = "RUNNING"
          /\ src' = src \/ src' = [src EXCEPT ![x] = "DELETING"]
          /\ \E st \in {"SUCCESS", "FAILURE"} :
                state' = [state EXCEPT ![<<"terminate", x>>] = st]
      BY <2>7, EngineMoves DEF TerminateRequest, Deleting
    <3>2. x = s => state[sus] = "SUCCESS"
      BY <1>3, <3>1 DEF Stands
    <3>. QED  BY <3>1, <3>2
  <2>. QED
    BY <1>7, <2>1, <2>2, <2>3, <2>4, <2>5, <2>6, <2>7 DEF ServerStep
<1>8. ASSUME NEW f \in Fip, RestoreFloatingIp(f) PROVE Suspension(s)'
  <2>1. src' = src /\ \E st : state' = [state EXCEPT ![<<"fip", f>>] = st]
    BY <1>8, EngineMoves DEF RestoreFloatingIp
  <2>. QED  BY <2>1
<1>9. ASSUME NEW x \in Server, SourceNova(x) PROVE Suspension(s)'
  <2>1. state' = state
    BY <1>9 DEF SourceNova
  <2>2. \/ src'[s] = src[s]
        \/ /\ src[s] \in {"SUSPENDING", "RESUMING", "DELETING"}
           /\ src[s] = "DELETING" => src'[s] = "GONE"
    BY <1>9 DEF SourceNova, SrcMove
  <2>. QED  BY <2>1, <2>2
<1>10. ASSUME NEW x \in Server, NEW r \in Run, DestinationNova(x, r)
       PROVE  Suspension(s)'
  BY <1>10 DEF DestinationNova
<1>11. CASE UNCHANGED vars
  BY <1>11 DEF vars
<1>. QED
  BY <1>4, <1>5, <1>6, <1>7, <1>8, <1>9, <1>10, <1>11
     DEF Next, FlowStep, NovaStep

-----------------------------------------------------------------------------
(* The steps: the copy and its floating ips.                               *)

(* The steps other than a boot's leave alone the boot tasks, but for       *)
(* moving one to a state in which nothing is known of its copy.            *)
LEMMA BootOnly ==
    ASSUME IInv, [Next]_vars
    PROVE  \/ MigrateTenant
           \/ \E x \in Server : BootRequest(x) \/ BootObserved(x)
           \/ /\ run' = run
              /\ dst' = dst \/ \E x \in Server, r \in Run : DestinationNova(x, r)
              /\ \A s \in Server :
                    \/ state'[<<"boot", s>>] = state[<<"boot", s>>]
                    \/ state'[<<"boot", s>>] \notin {"PENDING", "SUCCESS"}
<1> DEFINE Quiet == \A s \in Server :
                      \/ state'[<<"boot", s>>] = state[<<"boot", s>>]
                      \/ state'[<<"boot", s>>] \notin {"PENDING", "SUCCESS"}
<1>1. /\ \A s \in Server : <<"boot", s>> \in MigrationTask
      /\ state \in [MigrationTask -> Engine!TaskState]
  BY TaskTypes DEF IInv, TypeOK, Engine!TypeOK, ServerKind
<1>2. ASSUME NEW t, NEW st, state' = [state EXCEPT ![t] = st],
             t[1] # "boot" \/ st \notin {"PENDING", "SUCCESS"}
      PROVE  Quiet
  <2>1. ASSUME NEW s \in Server
        PROVE  \/ state'[<<"boot", s>>] = state[<<"boot", s>>]
               \/ state'[<<"boot", s>>] \notin {"PENDING", "SUCCESS"}
    <3>1. CASE t = <<"boot", s>>
      <4>1. st \notin {"PENDING", "SUCCESS"}  BY <1>2, <3>1
      <4>. QED  BY <1>1, <1>2, <3>1, <4>1
    <3>2. CASE t # <<"boot", s>>
      BY <1>1, <1>2, <3>2
    <3>. QED  BY <3>1, <3>2
  <2>. QED  BY <2>1
<1>3. ASSUME state' = state PROVE Quiet
  BY <1>3
<1> HIDE DEF Quiet
<1>4. ASSUME NEW t \in MigrationTask, StartTask(t)
      PROVE  Quiet /\ run' = run /\ dst' = dst
  BY <1>2, <1>4, EngineMoves DEF StartTask, cloudVars
<1>5. ASSUME NEW t \in MigrationTask, PassiveTaskEnds(t)
      PROVE  Quiet /\ run' = run /\ dst' = dst
  BY <1>2, <1>5, EngineMoves DEF PassiveTaskEnds, PassiveKind, cloudVars
<1>6. ASSUME NEW t \in MigrationTask, DefaultRevert(t) \/ WaitGivesUp(t)
      PROVE  Quiet /\ run' = run /\ dst' = dst
  BY <1>2, <1>6, EngineMoves DEF DefaultRevert, WaitGivesUp, cloudVars
<1>7. ASSUME NEW x \in Server, ServerStep(x),
             ~(BootRequest(x) \/ BootObserved(x))
      PROVE  Quiet /\ run' = run /\ dst' = dst
  <2>1. CASE StartEvent(x) \/ StartEventRevert(x)
    BY <1>2, <2>1, EngineMoves DEF StartEvent, StartEventRevert
  <2>2. CASE SuspendRequest(x) \/ ResumeRequest(x)
    BY <1>2, <1>3, <2>2, EngineMoves DEF SuspendRequest, ResumeRequest, Await
  <2>3. CASE SuspendObserved(x) \/ ResumeObserved(x)
    BY <1>2, <2>3, EngineMoves
       DEF SuspendObserved, ResumeObserved, cloudVars
  <2>4. CASE TerminateRequest(x)
    BY <1>2, <2>4, EngineMoves DEF TerminateRequest
  <2>. QED  BY <1>7, <2>1, <2>2, <2>3, <2>4 DEF ServerStep
<1>8. ASSUME NEW f \in Fip, RestoreFloatingIp(f)
      PROVE  Quiet /\ run' = run /\ dst' = dst
  BY <1>2, <1>8, EngineMoves DEF RestoreFloatingIp
<1>9. ASSUME NEW x \in Server, SourceNova(x)
      PROVE  Quiet /\ run' = run /\ dst' = dst
  BY <1>3, <1>9 DEF SourceNova
<1>10. ASSUME NEW x \in Server, NEW r \in Run, DestinationNova(x, r)
       PROVE  Quiet /\ run' = run
  BY <1>3, <1>10 DEF DestinationNova
<1>11. CASE UNCHANGED vars
  BY <1>3, <1>11 DEF vars, Quiet
<1>. QED
  BY <1>4, <1>5, <1>6, <1>7, <1>8, <1>9, <1>10, <1>11
     DEF Next, FlowStep, NovaStep, Quiet

(* What becomes of a copy in one step: it never stops being active, and    *)
(* the copies of later runs do not exist.                                  *)
LEMMA CopyStep ==
    ASSUME IInv, [Next]_vars, NEW s \in Server
    PROVE  /\ Copy(s)'
           /\ \A r \in Run : dst[s][r] = "ACTIVE" => dst'[s][r] = "ACTIVE"
<1>1. /\ <<"boot", s>> \in MigrationTask
      /\ state \in [MigrationTask -> Engine!TaskState]
      /\ dst \in [Server -> [Run -> DstStatus]]
      /\ run \in Nat /\ Run \subseteq Nat
  <2>1. run \in Nat /\ Run \subseteq Nat
    BY MigrationAssumption DEF IInv, TypeOK, Run
  <2>. QED
    BY <2>1, TaskTypes DEF IInv, TypeOK, Engine!TypeOK, ServerKind
<1>2. Copy(s)
  BY DEF IInv
<1> USE <1>1, <1>2 DEF Copy
<1>3. CASE MigrateTenant
  <2>1. /\ state' = [t \in MigrationTask |-> "PENDING"]
        /\ dst' = dst /\ run' = run + 1 /\ run < MaxRuns
    BY <1>3 DEF MigrateTenant, Engine!Run, cloudVars
  <2>2. run + 1 \in Run
    BY <2>1, MigrationAssumption DEF Run
  <2>. QED  BY <2>1, <2>2
<1>4. ASSUME NEW x \in Server, BootRequest(x)
      PROVE  /\ Copy(s)'
             /\ \A r \in Run : dst[s][r] = "ACTIVE" => dst'[s][r] = "ACTIVE"
  <2>1. /\ run' = run /\ state[<<"boot", x>>] = "RUNNING"
        /\ \/ state' = state
           \/ state' = [state EXCEPT ![<<"boot", x>>] = "FAILURE"]
    BY <1>4, EngineMoves DEF BootRequest, Await
  <2>2. \/ dst' = dst
        \/ /\ dst[x][run] = "NONE"
           /\ dst' = [dst EXCEPT ![x][run] = "BUILD"]
    BY <1>4 DEF BootRequest, Building
  <2>3. \A r \in Run : \/ dst'[s][r] = dst[s][r]
                       \/ x = s /\ r = run /\ dst[s][r] = "NONE"
    BY <2>2
  <2>4. CASE x = s
    <3>1. /\ state[<<"boot", s>>] = "RUNNING"
          /\ state'[<<"boot", s>>] \in {"RUNNING", "FAILURE"}
      BY <2>1, <2>4
    <3>2. \A r \in Run : \/ dst'[s][r] = dst[s][r]
                         \/ r = run /\ dst[s][r] = "NONE"
      BY <2>3, <2>4
    <3>3. \A r \in Run : r > run => dst'[s][r] = dst[s][r]
      BY <3>2
    <3>. QED  BY <2>1, <3>1, <3>2, <3>3
  <2>5. CASE x # s
    <3>1. dst'[s] = dst[s]  BY <2>2, <2>5
    <3>2. state'[<<"boot", s>>] = state[<<"boot", s>>]  BY <2>1, <2>5
    <3>. QED  BY <2>1, <2>3, <3>1, <3>2
  <2>. QED  BY <2>4, <2>5
<1>5. ASSUME NEW x \in Server, BootObserved(x)
      PROVE  /\ Copy(s)'
             /\ \A r \in Run : dst[s][r] = "ACTIVE" => dst'[s][r] = "ACTIVE"
  <2>1. /\ run' = run /\ dst' = dst /\ dst[x][run] = "ACTIVE"
        /\ state' = [state EXCEPT ![<<"boot", x>>] = "SUCCESS"]
    BY <1>5, EngineMoves DEF BootObserved, cloudVars
  <2>. QED  BY <2>1
<1>6. ASSUME /\ run' = run
             /\ \/ dst' = dst
                \/ \E x \in Server, r \in Run : DestinationNova(x, r)
             /\ \/ state'[<<"boot", s>>] = state[<<"boot", s>>]
                \/ state'[<<"boot", s>>] \notin {"PENDING", "SUCCESS"}
      PROVE  /\ Copy(s)'
             /\ \A r \in Run : dst[s][r] = "ACTIVE" => dst'[s][r] = "ACTIVE"
  <2>1. \A r \in Run : dst'[s][r] # dst[s][r] => dst[s][r] = "BUILD"
    BY <1>6 DEF DestinationNova
  <2>2. run > 0 => run \in Run
    BY MigrationAssumption DEF IInv, TypeOK, Run
  <2>3. run = 0 => state[<<"boot", s>>] # "SUCCESS"
    BY DEF IInv, FlowShape
  <2>4. state'[<<"boot", s>>] = "SUCCESS" => dst'[s][run] = "ACTIVE"
    <3>1. ASSUME state'[<<"boot", s>>] = "SUCCESS"
          PROVE  dst[s][run] = "ACTIVE" /\ run > 0
      BY <1>6, <2>3, <3>1
    <3>. QED  BY <2>1, <2>2, <3>1
  <2>5. state'[<<"boot", s>>] = "PENDING" /\ run > 0 => dst'[s][run] = "NONE"
    <3>1. ASSUME state'[<<"boot", s>>] = "PENDING", run > 0
          PROVE  dst[s][run] = "NONE"
      BY <1>6, <3>1
    <3>. QED  BY <2>1, <2>2, <3>1
  <2>6. \A r \in Run : r > run => dst'[s][r] = "NONE"
    BY <2>1
  <2>. QED  BY <1>6, <2>1, <2>4, <2>5, <2>6
<1>. QED  BY <1>3, <1>4, <1>5, <1>6, BootOnly

(* A floating ip is held by the copy of the run that has restored it, and  *)
(* no later run takes it away.                                             *)
LEMMA FloatingIpStep ==
    ASSUME IInv, [Next]_vars, NEW f \in Fip
    PROVE  /\ FloatingIp(f)'
           /\ \A r \in Run : holder[f] = r => holder'[f] = r
<1> DEFINE fip == <<"fip", f>>
           Same == /\ run' = run /\ holder' = holder
                   /\ \/ state'[fip] = state[fip]
                      \/ state'[fip] # "SUCCESS"
<1>1. /\ fip \in MigrationTask
      /\ state \in [MigrationTask -> Engine!TaskState]
      /\ holder \in [Fip -> 0..MaxRuns]
      /\ FloatingIp(f)
  BY TaskTypes DEF IInv, TypeOK, Engine!TypeOK
<1>2. ASSUME NEW t, NEW st, state' = [state EXCEPT ![t] = st],
             t[1] # "fip" \/ st # "SUCCESS", UNCHANGED <<run, holder>>
      PROVE  Same
  <2>1. CASE t = fip
    <3>1. st # "SUCCESS"  BY <1>2, <2>1
    <3>. QED  BY <1>1, <1>2, <2>1, <3>1
  <2>2. CASE t # fip
    BY <1>1, <1>2, <2>2
  <2>. QED  BY <2>1, <2>2
<1>3. ASSUME UNCHANGED <<state, run, holder>> PROVE Same
  BY <1>3
<1>4. ASSUME Same
      PROVE  /\ FloatingIp(f)'
             /\ \A r \in Run : holder[f] = r => holder'[f] = r
  BY <1>1, <1>4 DEF FloatingIp
<1> HIDE DEF Same
<1>5. CASE MigrateTenant
  <2>1. state' = [t \in MigrationTask |-> "PENDING"] /\ holder' = holder
    BY <1>5 DEF MigrateTenant, Engine!Run, cloudVars
  <2>. QED  BY <1>1, <2>1 DEF FloatingIp
<1>6. ASSUME NEW t \in MigrationTask,
             \/ StartTask(t) \/ PassiveTaskEnds(t) \/ DefaultRevert(t)
             \/ WaitGivesUp(t)
      PROVE  Same
  <2>1. CASE StartTask(t) \/ DefaultRevert(t) \/ WaitGivesUp(t)
    BY <1>2, <2>1, EngineMoves
       DEF StartTask, DefaultRevert, WaitGivesUp, cloudVars
  <2>2. CASE PassiveTaskEnds(t)
    BY <1>2, <2>2, EngineMoves DEF PassiveTaskEnds, PassiveKind, cloudVars
  <2>. QED  BY <1>6, <2>1, <2>2
<1>7. ASSUME NEW x \in Server, ServerStep(x) PROVE Same
  <2>1. CASE StartEvent(x) \/ StartEventRevert(x)
    BY <1>2, <2>1, EngineMoves DEF StartEvent, StartEventRevert
  <2>2. CASE SuspendRequest(x)
    BY <1>2, <1>3, <2>2, EngineMoves DEF SuspendRequest, Await
  <2>3. CASE ResumeRequest(x)
    BY <1>2, <1>3, <2>3, EngineMoves DEF ResumeRequest, Await
  <2>4. CASE BootRequest(x)
    BY <1>2, <1>3, <2>4, EngineMoves DEF BootRequest, Await
  <2>5. CASE SuspendObserved(x)
    BY <1>2, <2>5, EngineMoves DEF SuspendObserved, cloudVars
  <2>6. CASE ResumeObserved(x)
    BY <1>2, <2>6, EngineMoves DEF ResumeObserved, cloudVars
  <2>7. CASE BootObserved(x)
    BY <1>2, <2>7, EngineMoves DEF BootObserved, cloudVars
  <2>8. CASE TerminateRequest(x)
    BY <1>2, <2>8, EngineMoves DEF TerminateRequest
  <2>. QED
    BY <1>7, <2>1, <2>2, <2>3, <2>4, <2>5, <2>6, <2>7, <2>8 DEF ServerStep
<1>8. ASSUME NEW g \in Fip, RestoreFloatingIp(g)
      PROVE  /\ FloatingIp(f)'
             /\ \A r \in Run : holder[f] = r => holder'[f] = r
  <2>1. /\ run' = run
        /\ \/ /\ holder[g] \in {0, run}
              /\ holder' = [holder EXCEPT ![g] = run]
              /\ \E st : state' = [state EXCEPT ![<<"fip", g>>] = st]
           \/ /\ holder' = holder
              /\ state' = [state EXCEPT ![<<"fip", g>>] = "FAILURE"]
    BY <1>8, EngineMoves DEF RestoreFloatingIp
  <2>2. 0 \notin Run
    BY MigrationAssumption DEF Run
  <2>. QED  BY <1>1, <2>1, <2>2 DEF FloatingIp
<1>9. ASSUME NovaStep PROVE Same
  BY <1>3, <1>9 DEF NovaStep, SourceNova, DestinationNova
<1>10. ASSUME UNCHANGED vars PROVE Same
  BY <1>3, <1>10 DEF vars
<1>. QED
  BY <1>4, <1>5, <1>6, <1>7, <1>8, <1>9, <1>10 DEF Next, FlowStep

(* Only TerminateServer deletes a server.                                  *)
LEMMA OnlyTerminateDeletes ==
    ASSUME IInv, [Next]_vars, NEW s \in Server,
           src'[s] \in {"DELETING", "GONE"}
    PROVE  src[s] \in {"DELETING", "GONE"} \/ TerminateRequest(s)
<1>1. src \in [Server -> SrcStatus]
  BY DEF IInv, TypeOK
<1>2. CASE UNCHANGED src
  BY <1>2
<1>3. ASSUME NEW x \in Server, ServerStep(x)
      PROVE  src[s] \in {"DELETING", "GONE"} \/ TerminateRequest(s)
  <2>1. CASE SuspendRequest(x) \/ ResumeRequest(x)
    BY <1>1, <2>1 DEF SuspendRequest, ResumeRequest, Suspending, Resuming
  <2>2. CASE TerminateRequest(x)
    BY <1>1, <2>2 DEF TerminateRequest, Deleting
  <2>3. CASE UNCHANGED src
    BY <1>2, <2>3
  <2>. QED
    BY <1>3, <2>1, <2>2, <2>3
       DEF ServerStep, StartEvent, StartEventRevert, SuspendObserved,
           ResumeObserved, BootRequest, BootObserved, cloudVars
<1>4. ASSUME NEW x \in Server, SourceNova(x)
      PROVE  src[s] \in {"DELETING", "GONE"}
  BY <1>1, <1>4 DEF SourceNova, SrcMove
<1>5. ASSUME NEW t \in MigrationTask,
             \/ StartTask(t) \/ PassiveTaskEnds(t) \/ DefaultRevert(t)
             \/ WaitGivesUp(t)
      PROVE  UNCHANGED src
  BY <1>5
     DEF StartTask, PassiveTaskEnds, DefaultRevert, WaitGivesUp, cloudVars
<1>6. ASSUME MigrateTenant PROVE UNCHANGED src
  BY <1>6 DEF MigrateTenant, cloudVars
<1>7. ASSUME NEW f \in Fip, RestoreFloatingIp(f) PROVE UNCHANGED src
  BY <1>7 DEF RestoreFloatingIp
<1>8. ASSUME NEW x \in Server, NEW r \in Run, DestinationNova(x, r)
      PROVE  UNCHANGED src
  BY <1>8 DEF DestinationNova
<1>9. ASSUME UNCHANGED vars PROVE UNCHANGED src
  BY <1>9 DEF vars
<1>. QED
  BY <1>2, <1>3, <1>4, <1>5, <1>6, <1>7, <1>8, <1>9
     DEF Next, FlowStep, NovaStep

(* An original goes only beside an active copy with its addresses.         *)
LEMMA NoServerLostStep ==
    ASSUME IInv, [Next]_vars
    PROVE  NoServerLost'
<1> SUFFICES ASSUME NEW s \in Server, src'[s] \in {"DELETING", "GONE"}
             PROVE  \E r \in Run :
                       /\ dst'[s][r] = "ACTIVE"
                       /\ \A f \in Fip : Owner[f] = s => holder'[f] = r
  BY DEF NoServerLost
<1>1. SUFFICES \E r \in Run :
                  /\ dst[s][r] = "ACTIVE"
                  /\ \A f \in Fip : Owner[f] = s => holder[f] = r
  BY <1>1, CopyStep, FloatingIpStep
<1>2. CASE src[s] \in {"DELETING", "GONE"}
  BY <1>2 DEF IInv, NoServerLost
<1>3. CASE TerminateRequest(s)
  <2>1. /\ state[<<"terminate", s>>] = "RUNNING"
        /\ <<"terminate", s>> \in nodes
    BY <1>3, EngineMoves DEF TerminateRequest
  <2>2. /\ state[<<"boot", s>>] = "SUCCESS"
        /\ \A f \in Fip : Owner[f] = s => state[<<"fip", f>>] = "SUCCESS"
    BY <2>1, ChainStands DEF IInv, Stands
  <2>3. run \in Run
    BY <2>1, MigrationAssumption DEF IInv, TypeOK, FlowShape, Run
  <2>4. dst[s][run] = "ACTIVE"
    BY <2>2 DEF IInv, Copy
  <2>5. \A f \in Fip : Owner[f] = s => holder[f] = run
    BY <2>2 DEF IInv, FloatingIp
  <2>. QED  BY <2>3, <2>4, <2>5
<1>. QED  BY <1>2, <1>3, OnlyTerminateDeletes

-----------------------------------------------------------------------------
(* The steps: what the UI shows, and the first run.                        *)

(* What the UI shows follows from the tasks of the server.                 *)
LEMMA AnnouncedStep ==
    ASSUME IInv, [Next]_vars, NEW s \in Server
    PROVE  Announced(s)' /\ FirstRun(s)'
<1> DEFINE start == <<"start", s>>
           sus == <<"suspend", s>>
           Goal == Announced(s)' /\ FirstRun(s)'
<1>1. /\ start \in MigrationTask /\ sus \in MigrationTask
      /\ state \in [MigrationTask -> Engine!TaskState]
      /\ src \in [Server -> SrcStatus]
      /\ banner \subseteq Server /\ run \in Nat
      /\ Announced(s) /\ FirstRun(s)
  <2>1. run \in Nat
    BY MigrationAssumption DEF IInv, TypeOK
  <2>. QED
    BY <2>1, TaskTypes DEF IInv, TypeOK, Engine!TypeOK, ServerKind
<1>2. /\ Stands(sus) => state[start] = "SUCCESS"
      /\ Stands(<<"terminate", s>>) =>
            state[start] = "SUCCESS" /\ state[sus] = "SUCCESS"
  BY ChainStands DEF IInv
<1>3. nodes # {} => run # 0
  BY DEF IInv, FlowShape
<1> USE <1>1 DEF Announced, FirstRun
<1>4. CASE MigrateTenant
  <2>1. /\ state' = [t \in MigrationTask |-> "PENDING"]
        /\ src' = src /\ banner' = banner /\ run' = run + 1
    BY <1>4 DEF MigrateTenant, Engine!Run, cloudVars
  <2>. QED  BY <2>1
<1>5. ASSUME NEW t \in MigrationTask, NEW st,
             t # start \/ st \in {"FAILURE", "REVERTING"}
                \/ (st = "RUNNING" /\ state[t] = "PENDING"),
             t # sus \/ st # "PENDING",
             state' = [state EXCEPT ![t] = st], UNCHANGED <<run, src, banner>>
      PROVE  Goal
  <2>1. /\ state'[sus] = "PENDING" => state[sus] = "PENDING"
        /\ state'[start] \in {"PENDING", "RUNNING", "REVERTED"} =>
              state[start] \in {"PENDING", "RUNNING", "REVERTED"}
        /\ state'[start] = "SUCCESS" => state[start] = "SUCCESS"
    BY <1>5
  <2>. QED  BY <1>5, <2>1
<1>6. ASSUME UNCHANGED <<state, run, src, banner>> PROVE Goal
  BY <1>6
<1>7. ASSUME NEW t \in MigrationTask,
             \/ StartTask(t) \/ PassiveTaskEnds(t) \/ DefaultRevert(t)
             \/ WaitGivesUp(t)
      PROVE  Goal
  <2> HIDE DEF Announced, FirstRun
  <2>1. CASE StartTask(t)
    <3>1. /\ UNCHANGED <<run, src, banner>>
          /\ \/ state[t] = "PENDING" /\ state' = [state EXCEPT ![t] = "RUNNING"]
             \/ state' = [state EXCEPT ![t] = "REVERTING"]
      BY <2>1, EngineMoves DEF StartTask, cloudVars
    <3>. QED  BY <1>5, <3>1
  <2>2. CASE PassiveTaskEnds(t) \/ DefaultRevert(t)
    <3>1. /\ UNCHANGED <<run, src, banner>> /\ t # start
          /\ \E st \in {"SUCCESS", "FAILURE", "REVERTED"} :
                state' = [state EXCEPT ![t] = st]
      BY <2>2, EngineMoves
         DEF PassiveTaskEnds, DefaultRevert, PassiveKind, HasRevert, cloudVars
    <3>. QED  BY <1>5, <3>1
  <2>3. CASE WaitGivesUp(t)
    <3>1. /\ UNCHANGED <<run, src, banner>>
          /\ state' = [state EXCEPT ![t] = "FAILURE"]
      BY <2>3, EngineMoves DEF WaitGivesUp, cloudVars
    <3>. QED  BY <1>5, <3>1
  <2>. QED  BY <1>7, <2>1, <2>2, <2>3
<1>8. ASSUME NEW x \in Server, ServerStep(x) PROVE Goal
  <2>1. CASE StartEvent(x)
    <3>1. /\ UNCHANGED <<run, src>> /\ banner' = banner \cup {x}
          /\ state' = [state EXCEPT ![<<"start", x>>] = "SUCCESS"]
          /\ <<"start", x>> \in nodes
      BY <2>1, EngineMoves DEF StartEvent
    <3>2. CASE x = s  BY <1>3, <3>1, <3>2
    <3>3. CASE x # s  BY <3>1, <3>3
    <3>. QED  BY <3>2, <3>3
  <2>2. CASE StartEventRevert(x)
    <3>1. /\ UNCHANGED <<run, src>> /\ banner' = banner \ {x}
          /\ state' = [state EXCEPT ![<<"start", x>>] = "REVERTED"]
      BY <2>2, EngineMoves DEF StartEventRevert
    <3>2. CASE x = s  BY <3>1, <3>2
    <3>3. CASE x # s  BY <3>1, <3>3
    <3>. QED  BY <3>2, <3>3
  <2>3. CASE SuspendRequest(x) \/ ResumeRequest(x)
    <3>1. /\ UNCHANGED <<run, banner>>
          /\ <<"suspend", x>> \in nodes \/ src' = src
          /\ state[<<"suspend", x>>] \in {"RUNNING", "REVERTING"}
          /\ \/ src' = src
             \/ /\ src[x] \in {"ACTIVE", "SUSPENDED"}
                /\ \E v : src' = [src EXCEPT ![x] = v]
          /\ \/ state' = state
             \/ state' = [state EXCEPT ![<<"suspend", x>>] = "FAILURE"]
      BY <2>3, EngineMoves, TaskTypes
         DEF SuspendRequest, ResumeRequest, Suspending, Resuming, Await,
             IInv, FlowShape, ServerKind
    <3>2. CASE x = s  BY <1>2, <1>3, <3>1, <3>2 DEF Stands
    <3>3. CASE x # s  BY <3>1, <3>3
    <3>. QED  BY <3>2, <3>3
  <2>4. CASE SuspendObserved(x) \/ ResumeObserved(x)
    <3>1. /\ UNCHANGED <<run, src, banner>>
          /\ \E st \in {"SUCCESS", "REVERTED"} :
                state' = [state EXCEPT ![<<"suspend", x>>] = st]
      BY <2>4, EngineMoves DEF SuspendObserved, ResumeObserved, cloudVars
    <3>. QED  BY <1>5, <3>1, TaskTypes DEF ServerKind
  <2>5. CASE BootRequest(x) \/ BootObserved(x)
    <3>1. /\ UNCHANGED <<run, src, banner>>
          /\ \/ state' = state
             \/ \E st : state' = [state EXCEPT ![<<"boot", x>>] = st]
      BY <2>5, EngineMoves DEF BootRequest, BootObserved, Await, cloudVars
    <3>. QED  BY <1>5, <1>6, <3>1, TaskTypes DEF ServerKind
  <2>6. CASE TerminateRequest(x)
    <3>1. /\ UNCHANGED run /\ state[<<"terminate", x>>] = "RUNNING"
          /\ <<"terminate", x>> \in nodes
          /\ \/ /\ src' = [src EXCEPT ![x] = "DELETING"]
                /\ banner' \in {banner, banner \ {x}}
             \/ src' = src /\ banner' = banner
          /\ \E st : state' = [state EXCEPT ![<<"terminate", x>>] = st]
      BY <2>6, EngineMoves DEF TerminateRequest, Deleting
    <3>2. CASE x = s  BY <1>2, <1>3, <3>1, <3>2 DEF Stands
    <3>3. CASE x # s  BY <3>1, <3>3
    <3>. QED  BY <3>2, <3>3
  <2>. QED  BY <1>8, <2>1, <2>2, <2>3, <2>4, <2>5, <2>6 DEF ServerStep
<1>9. ASSUME NEW f \in Fip, RestoreFloatingIp(f) PROVE Goal
  <2>1. /\ UNCHANGED <<run, src, banner>>
        /\ \E st : state' = [state EXCEPT ![<<"fip", f>>] = st]
    BY <1>9, EngineMoves DEF RestoreFloatingIp
  <2>. QED  BY <1>5, <2>1, TaskTypes
<1>10. ASSUME NEW x \in Server, SourceNova(x) PROVE Goal
  <2>1. UNCHANGED <<state, run, banner>>
    BY <1>10 DEF SourceNova
  <2>2. \/ src'[s] = src[s]
        \/ /\ src[s] \in {"SUSPENDING", "RESUMING", "DELETING"}
           /\ src[s] = "DELETING" => src'[s] = "GONE"
    BY <1>10 DEF SourceNova, SrcMove
  <2>. QED  BY <2>1, <2>2
<1>11. ASSUME NEW x \in Server, NEW r \in Run, DestinationNova(x, r)
       PROVE  Goal
  BY <1>6, <1>11 DEF DestinationNova
<1>12. CASE UNCHANGED vars
  BY <1>6, <1>12 DEF vars
<1>. QED
  BY <1>4, <1>7, <1>8, <1>9, <1>10, <1>11, <1>12
     DEF Next, FlowStep, NovaStep

-----------------------------------------------------------------------------
(* The theorems.                                                           *)

(* The invariant holds before the first run.                               *)
LEMMA InitInvariant == Init => IInv
<1> SUFFICES ASSUME Init PROVE IInv
  OBVIOUS
<1>1. /\ nodes = {} /\ state = [t \in MigrationTask |-> "PENDING"]
      /\ run = 0
  BY DEF Init, Engine!Init
<1>2. TypeOK
  <2>1. Engine!TypeOK
    BY DEF Init, Engine!Init, Engine!TypeOK, Engine!TaskState
  <2>2. run \in 0..MaxRuns /\ holder \in [Fip -> 0..MaxRuns]
    BY MigrationAssumption DEF Init
  <2>. QED  BY <2>1, <2>2 DEF Init, TypeOK, SrcStatus, DstStatus
<1>3. Engine!DependenciesHold /\ FlowShape
  BY <1>1 DEF Engine!DependenciesHold, FlowShape
<1>4. ASSUME NEW s \in Server
      PROVE  Suspension(s) /\ Copy(s) /\ FirstRun(s) /\ Announced(s)
  <2>1. \A k \in ServerKind : state[<<k, s>>] = "PENDING"
    BY <1>1, TaskTypes
  <2>. QED
    BY <1>1, <2>1
       DEF Init, Suspension, Copy, FirstRun, Announced, ServerKind
<1>5. ASSUME NEW f \in Fip PROVE FloatingIp(f)
  BY <1>1, TaskTypes DEF FloatingIp
<1>6. NoServerLost
  BY DEF Init, NoServerLost
<1>. QED  BY <1>2, <1>3, <1>4, <1>5, <1>6 DEF IInv

(* Every step keeps the invariant, given what the engine promises.         *)
LEMMA NextInvariant ==
    ASSUME IInv, [Next]_vars, Engine!TypeOK', Engine!DependenciesHold'
    PROVE  IInv'
<1>1. TypeOK'  BY TypeStep
<1>2. FlowShape'  BY FlowShapeStep
<1>3. \A s \in Server : Suspension(s)'  BY SuspensionStep
<1>4. \A s \in Server : Copy(s)'  BY CopyStep
<1>5. \A f \in Fip : FloatingIp(f)'  BY FloatingIpStep
<1>6. \A s \in Server : FirstRun(s)' /\ Announced(s)'  BY AnnouncedStep
<1>7. NoServerLost'  BY NoServerLostStep
<1>. QED  BY <1>1, <1>2, <1>3, <1>4, <1>5, <1>6, <1>7 DEF IInv

(* The inductive invariant holds in every reachable state.                 *)
THEOREM Invariant == Spec => []IInv
<1>1. Init => IInv
  BY InitInvariant
<1>2. IInv /\ [Next]_vars /\ (Engine!TypeOK /\ Engine!DependenciesHold)'
          => IInv'
  BY NextInvariant
<1>. QED  BY <1>1, <1>2, EngineInvariants, PTL DEF Spec

(* The variables of the migration stay well typed.                         *)
THEOREM TypeCorrect == Spec => []TypeOK
<1>1. IInv => TypeOK
  BY DEF IInv
<1>. QED  BY <1>1, Invariant, PTL

(* Whatever fails in whatever run, tasks begin after what they need and    *)
(* are undone before it.                                                   *)
THEOREM OrderIsKept == Spec => []DependenciesHold
<1>1. Engine!DependenciesHold => DependenciesHold
  BY DEF DependenciesHold
<1>. QED  BY <1>1, EngineInvariants, PTL

(* No server is deleted before a copy of it runs with its floating ips.    *)
THEOREM NoServerIsLost == Spec => []NoServerLost
<1>1. IInv => NoServerLost
  BY DEF IInv
<1>. QED  BY <1>1, Invariant, PTL

(* The original sleeps as long as it is copied.                            *)
THEOREM SleepsWhileCopied == Spec => []SuspendedWhileCopied
<1>1. ASSUME IInv, NEW s \in Server, NEW k \in {"snapshot", "upload", "boot"},
             state[<<k, s>>] = "RUNNING"
      PROVE  src[s] = "SUSPENDED"
  <2>1. state[<<"suspend", s>>] = "SUCCESS"
    BY <1>1, ChainStands DEF IInv, Stands
  <2>2. <<k, s>> \in MigrationTask /\ k \in ServerKind
    BY TaskTypes DEF ServerKind
  <2>3. <<k, s>> \in nodes
    BY <1>1, <2>2 DEF IInv, FlowShape
  <2>4. <<"terminate", s>> \in nodes
    BY <1>1, <2>2, <2>3 DEF IInv, FlowShape
  <2>5. <<<<k, s>>, <<"terminate", s>>>> \in Order
    <3>1. "terminate" \in ServerKind /\ Rank[k] < Rank["terminate"]
      BY DEF ServerKind, Rank
    <3>. QED  BY <2>2, <3>1, ChainOrder
  <2>6. state[<<"terminate", s>>] = "PENDING"
    BY <1>1, <2>3, <2>4, <2>5
       DEF IInv, Engine!DependenciesHold, Engine!Successors
  <2>. QED  BY <1>1, <2>1, <2>6 DEF IInv, Suspension
<1>2. IInv => SuspendedWhileCopied
  BY <1>1 DEF SuspendedWhileCopied
<1>. QED  BY <1>2, Invariant, PTL

(* Before anything fails, original and copy are never active together.     *)
THEOREM OneActiveAtATime == Spec => []NeverBothActive
<1>1. ASSUME IInv, run > 0, ~Engine!Failed, NEW s \in Server,
             src[s] = "ACTIVE", dst[s][run] = "ACTIVE"
      PROVE  FALSE
  <2>1. /\ <<"boot", s>> \in MigrationTask
        /\ state[<<"boot", s>>] # "PENDING"
    BY <1>1, TaskTypes DEF IInv, Copy, ServerKind
  <2>2. <<"boot", s>> \in nodes
    BY <1>1, <2>1 DEF IInv, FlowShape
  <2>3. state[<<"boot", s>>] # "REVERTED"
    BY <1>1, <2>2 DEF Engine!Failed
  <2>4. state[<<"suspend", s>>] = "SUCCESS"
    BY <1>1, <2>1, <2>3, ChainStands DEF IInv, Stands
  <2>. QED  BY <1>1, <2>4 DEF IInv, Suspension
<1>2. IInv => NeverBothActive
  BY <1>1 DEF NeverBothActive
<1>. QED  BY <1>2, Invariant, PTL

(* A first run that ends reverted leaves every server as it was.           *)
THEOREM RevertRestores == Spec => []RevertedMeansRestored
<1>1. ASSUME IInv, run = 1, Engine!Reverted, NEW s \in Server
      PROVE  src[s] = "ACTIVE" /\ s \notin banner
  <2>1. /\ <<"suspend", s>> \in MigrationTask
        /\ <<"start", s>> \in MigrationTask
    BY TaskTypes DEF ServerKind
  <2>2. \A t \in MigrationTask : state[t] \in {"PENDING", "REVERTED"}
    BY <1>1 DEF Engine!Reverted, IInv, FlowShape
  <2>. QED  BY <1>1, <2>1, <2>2 DEF IInv, Suspension, FirstRun
<1>2. IInv => RevertedMeansRestored
  <2>1. IInv => banner \subseteq Server
    BY DEF IInv, TypeOK
  <2>. QED  BY <1>1, <2>1 DEF RevertedMeansRestored
<1>. QED  BY <1>2, Invariant, PTL

(* In the first run no server is unavailable without the UI showing it.    *)
THEOREM UnavailableShown == Spec => []UnavailableIsShown
<1>1. ASSUME IInv, run <= 1, NEW s \in Server, src[s] \in Unavailable
      PROVE  s \in banner
  <2>1. run = 1
    <3>1. run # 0
      BY <1>1 DEF IInv, FirstRun, Unavailable
    <3>2. run \in Nat
      BY <1>1, MigrationAssumption DEF IInv, TypeOK
    <3>. QED  BY <1>1, <3>1, <3>2
  <2>2. Stands(<<"suspend", s>>)
    BY <1>1, <2>1 DEF IInv, FirstRun, Suspension, Stands, Unavailable
  <2>3. state[<<"start", s>>] = "SUCCESS"
    BY <1>1, <2>2, ChainStands DEF IInv
  <2>. QED  BY <1>1, <2>3 DEF IInv, Announced, Unavailable
<1>2. IInv => UnavailableIsShown
  BY <1>1 DEF UnavailableIsShown
<1>. QED  BY <1>2, Invariant, PTL

-----------------------------------------------------------------------------
(* The migration keeps its contract.  The contract is that of one attempt: *)
(* the run that is checked and the theorem are of the first.               *)

(* A server is only resumed by a revert, so once the run has failed.       *)
WokenAfterFailure == \A s \in Server : src[s] = "RESUMING" => Engine!Failed

(* What has failed stays so, as no other run begins.                       *)
LEMMA FailureStays ==
    ASSUME Engine!TypeOK, [Next]_vars, ~MigrateTenant, Engine!Failed
    PROVE  Engine!Failed'
<1>1. CASE UNCHANGED <<nodes, state>>
  BY <1>1 DEF Engine!Failed
<1>2. ASSUME NEW t \in nodes, NEW st \in Engine!TaskState, nodes' = nodes,
             state' = [state EXCEPT ![t] = st],
             \/ state[t] \in {"PENDING", "RUNNING", "SUCCESS"}
             \/ st \in {"FAILURE", "REVERTING", "REVERTED"}
      PROVE  Engine!Failed'
  <2>1. PICK u \in nodes : state[u] \in {"FAILURE", "REVERTING", "REVERTED"}
    BY DEF Engine!Failed
  <2>2. u \in MigrationTask /\ t \in MigrationTask
    BY <2>1 DEF Engine!TypeOK
  <2>3. state'[u] \in {"FAILURE", "REVERTING", "REVERTED"}
    BY <1>2, <2>1, <2>2 DEF Engine!TypeOK
  <2>. QED  BY <1>2, <2>1, <2>3 DEF Engine!Failed
<1>3. ASSUME NEW t \in MigrationTask,
             \/ Engine!Execute(t) \/ Engine!Succeed(t) \/ Engine!Fail(t)
             \/ Engine!Revert(t) \/ Engine!RevertSucceeds(t)
             \/ Engine!RevertRaises(t) \/ Engine!Undo(t)
      PROVE  Engine!Failed'
  <2>1. /\ t \in nodes /\ nodes' = nodes
        /\ \E st \in Engine!TaskState :
              /\ state' = [state EXCEPT ![t] = st]
              /\ \/ state[t] \in {"PENDING", "RUNNING", "SUCCESS"}
                 \/ st \in {"FAILURE", "REVERTING", "REVERTED"}
    BY <1>3, EngineMoves DEF Engine!TaskState
  <2>. QED  BY <1>2, <2>1
<1>4. ASSUME EngineProofs!TaskStep PROVE Engine!Failed'
  BY <1>3, <1>4, SameActions DEF EngineProofs!TaskStep
<1>5. ASSUME NEW flow, EngineProofs!Run(flow) PROVE Engine!Failed'
  <2>1. state' = [t \in MigrationTask |-> "PENDING"]
    BY <1>5 DEF EngineProofs!Run
  <2>2. \/ UNCHANGED <<nodes, state>>
        \/ \E t \in nodes : \E st : /\ state' = [state EXCEPT ![t] = st]
                                    /\ st # "PENDING"
    BY OneTaskMoves
  <2>3. nodes \subseteq MigrationTask /\ DOMAIN state = MigrationTask
    BY DEF Engine!TypeOK
  <2>. QED  BY <1>1, <2>1, <2>2, <2>3
<1>. QED
  BY <1>1, <1>4, <1>5, EngineStep DEF EngineProofs!Next, EngineProofs!flowVars

(* The task a server is suspended by is being reverted when it is resumed. *)
LEMMA WokenStep ==
    ASSUME MaxRuns = 1, IInv, WokenAfterFailure, [Next]_vars
    PROVE  WokenAfterFailure'
<1> SUFFICES ASSUME NEW s \in Server, src'[s] = "RESUMING"
             PROVE  Engine!Failed'
  BY DEF WokenAfterFailure
<1>1. src \in [Server -> SrcStatus] /\ Engine!TypeOK
  BY DEF IInv, TypeOK
<1>2. CASE MigrateTenant
  <2>1. src' = src /\ run = 0
    BY <1>2 DEF MigrateTenant, cloudVars, IInv, TypeOK
  <2>. QED  BY <2>1 DEF IInv, FirstRun
<1>3. CASE ~MigrateTenant /\ src[s] = "RESUMING"
  BY <1>1, <1>3, FailureStays DEF WokenAfterFailure
<1>4. ASSUME ~MigrateTenant, src[s] # "RESUMING"
      PROVE  Engine!Failed
  <2>1. ASSUME UNCHANGED src PROVE FALSE
    BY <1>4, <2>1
  <2>2. ASSUME NEW x \in Server, ServerStep(x) PROVE Engine!Failed
    <3>1. CASE ResumeRequest(x)
      <4>1. /\ <<"suspend", x>> \in MigrationTask
            /\ state[<<"suspend", x>>] = "REVERTING"
        BY <3>1, TaskTypes DEF ResumeRequest, ServerKind
      <4>2. <<"suspend", x>> \in nodes
        BY <4>1 DEF IInv, FlowShape
      <4>. QED  BY <4>1, <4>2 DEF Engine!Failed
    <3>2. CASE SuspendRequest(x)
      BY <1>1, <1>4, <2>1, <3>2 DEF SuspendRequest, Suspending
    <3>3. CASE TerminateRequest(x)
      BY <1>1, <1>4, <2>1, <3>3 DEF TerminateRequest, Deleting
    <3>. QED
      BY <2>1, <2>2, <3>1, <3>2, <3>3
         DEF ServerStep, StartEvent, StartEventRevert, SuspendObserved,
             ResumeObserved, BootRequest, BootObserved, cloudVars
  <2>3. ASSUME NEW x \in Server, SourceNova(x) PROVE FALSE
    BY <1>1, <1>4, <2>3 DEF SourceNova, SrcMove
  <2>4. ASSUME NEW t \in MigrationTask,
               \/ StartTask(t) \/ PassiveTaskEnds(t) \/ DefaultRevert(t)
               \/ WaitGivesUp(t)
        PROVE  FALSE
    BY <2>1, <2>4
       DEF StartTask, PassiveTaskEnds, DefaultRevert, WaitGivesUp, cloudVars
  <2>5. ASSUME NEW f \in Fip, RestoreFloatingIp(f) PROVE FALSE
    BY <2>1, <2>5 DEF RestoreFloatingIp
  <2>6. ASSUME NEW x \in Server, NEW r \in Run, DestinationNova(x, r)
        PROVE  FALSE
    BY <2>1, <2>6 DEF DestinationNova
  <2>7. ASSUME UNCHANGED vars PROVE FALSE
    BY <2>1, <2>7 DEF vars
  <2>. QED
    BY <1>4, <2>2, <2>3, <2>4, <2>5, <2>6, <2>7
       DEF Next, FlowStep, NovaStep
<1>. QED  BY <1>1, <1>2, <1>3, <1>4, FailureStays

-----------------------------------------------------------------------------
Original == [s \in Server |-> OriginalOf(s)]

(* The change of the status of one server, as the contract sees it.        *)
LEMMA OriginalChanges ==
    ASSUME NEW x \in Server, NEW v \in SrcStatus,
           src \in [Server -> SrcStatus], src' = [src EXCEPT ![x] = v]
    PROVE  /\ Original[x] = OriginalOf(x)
           /\ Original' = [Original EXCEPT ![x] =
                  IF v \in {"ACTIVE", "SUSPENDING"} THEN "running"
                  ELSE IF v \in {"DELETING", "GONE"} THEN "removed"
                  ELSE "stopped"]
<1>1. \A s \in Server : OriginalOf(s)' =
          IF s = x
          THEN IF v \in {"ACTIVE", "SUSPENDING"} THEN "running"
               ELSE IF v \in {"DELETING", "GONE"} THEN "removed"
               ELSE "stopped"
          ELSE OriginalOf(s)
  BY DEF OriginalOf, SrcStatus
<1>. QED  BY <1>1 DEF Original

(* A copy that comes up is that of a server which was suspended for it, or *)
(* it comes late, after the run has failed.                                *)
LEMMA BuiltFromSuspended ==
    ASSUME MaxRuns = 1, IInv, NEW s \in Server, NEW r \in Run,
           dst[s][r] = "BUILD"
    PROVE  Original[s] = "stopped" \/ Engine!Failed
<1> DEFINE boot == <<"boot", s>>
           ter == <<"terminate", s>>
<1>1. /\ boot \in MigrationTask /\ ter \in MigrationTask
      /\ state \in [MigrationTask -> Engine!TaskState]
      /\ src \in [Server -> SrcStatus]
  BY TaskTypes DEF IInv, TypeOK, Engine!TypeOK, ServerKind
<1>2. run = 1 /\ state[boot] \notin {"PENDING", "SUCCESS"}
  <2>1. r = 1 /\ run \in {0, 1}
    BY DEF IInv, TypeOK, Run
  <2>2. ~(r > run)
    BY DEF IInv, Copy
  <2>. QED  BY <2>1, <2>2 DEF IInv, Copy
<1>3. boot \in nodes /\ ter \in nodes
  <2>1. boot \in nodes
    BY <1>1, <1>2 DEF IInv, FlowShape
  <2>. QED  BY <2>1 DEF IInv, FlowShape, ServerKind
<1>4. CASE state[boot] \in {"FAILURE", "REVERTING", "REVERTED"}
  BY <1>3, <1>4 DEF Engine!Failed
<1>5. CASE state[ter] \in {"FAILURE", "REVERTING", "REVERTED"}
  BY <1>3, <1>5 DEF Engine!Failed
<1>6. CASE state[boot] = "RUNNING" /\ state[ter] \in {"PENDING", "RUNNING"}
  <2>1. state[<<"suspend", s>>] = "SUCCESS"
    BY <1>6, ChainStands DEF IInv, Stands
  <2>2. src[s] = "SUSPENDED"
    BY <1>6, <2>1 DEF IInv, Suspension
  <2>. QED  BY <2>2 DEF Original, OriginalOf
<1>7. state[ter] # "SUCCESS" \/ state[boot] = "SUCCESS"
  BY ChainStands DEF IInv, Stands
<1>. QED  BY <1>1, <1>2, <1>4, <1>5, <1>6, <1>7 DEF Engine!TaskState

(* A server that is terminated was suspended, and a copy of it runs.       *)
LEMMA TerminatedWasCopied ==
    ASSUME IInv, NEW s \in Server, state[<<"terminate", s>>] = "RUNNING"
    PROVE  Original[s] = "stopped" /\ s \in Copied
<1>1. /\ state[<<"suspend", s>>] = "SUCCESS"
      /\ state[<<"boot", s>>] = "SUCCESS"
  BY ChainStands DEF IInv, Stands
<1>2. src[s] = "SUSPENDED"
  BY <1>1 DEF IInv, Suspension
<1>3. <<"terminate", s>> \in nodes
  BY TaskTypes DEF IInv, FlowShape, ServerKind
<1>4. run \in Run
  BY <1>3, MigrationAssumption DEF IInv, TypeOK, FlowShape, Run
<1>5. dst[s][run] = "ACTIVE"
  BY <1>1 DEF IInv, Copy
<1>. QED  BY <1>2, <1>4, <1>5 DEF Original, OriginalOf, Copied

-----------------------------------------------------------------------------
(* What a step shows of itself to the contract, whose steps it is made of. *)

(* A step that only fails the run aborts the attempt.                      *)
LEMMA FailingAborts ==
    ASSUME Original' = Original, Copied' = Copied,
           Engine!Failed => Engine!Failed'
    PROVE  [Contract!Next]_(Contract!contractVars)
<1>1. CASE Engine!Failed'
  <2>1. Engine!Failed' = TRUE
    BY <1>1 DEF Engine!Failed
  <2>. QED  BY <2>1 DEF Contract!Next, Contract!Abort, Original
<1>2. CASE ~Engine!Failed'
  <2>1. Engine!Failed' = Engine!Failed
    BY <1>2 DEF Engine!Failed
  <2>. QED  BY <2>1 DEF Contract!contractVars, Original
<1>. QED  BY <1>1, <1>2

(* A step that changes no status at most fails the run.                    *)
LEMMA UnseenKeepsContract ==
    ASSUME MaxRuns = 1, IInv, [Next]_vars, UNCHANGED <<src, dst>>
    PROVE  [Contract!Next]_(Contract!contractVars)
<1>1. Original' = Original /\ Copied' = Copied
  BY DEF Original, OriginalOf, Copied
<1>2. CASE MigrateTenant
  <2>1. /\ run = 0 /\ state' = [t \in MigrationTask |-> "PENDING"]
        /\ nodes' \subseteq MigrationTask
    <3>1. run = 0
      BY <1>2 DEF MigrateTenant, IInv, TypeOK
    <3>. QED  BY <1>2, <3>1, TaskTypes DEF MigrateTenant, Engine!Run
  <2>2. nodes = {}
    BY <2>1 DEF IInv, FlowShape
  <2>3. ~Engine!Failed
    BY <2>2 DEF Engine!Failed
  <2>. QED  BY <1>1, <2>3, FailingAborts
<1>3. CASE ~MigrateTenant
  <2>1. Engine!Failed => Engine!Failed'
    BY <1>3, FailureStays DEF IInv, TypeOK
  <2>. QED  BY <1>1, <2>1, FailingAborts
<1>. QED  BY <1>2, <1>3

(* A server is stopped, or its state is told from "running" no more.       *)
LEMMA SuspendKeepsContract ==
    ASSUME MaxRuns = 1, IInv, WokenAfterFailure, [Next]_vars,
           NEW x \in Server, SuspendRequest(x) \/ ResumeRequest(x)
    PROVE  [Contract!Next]_(Contract!contractVars)
<1>1. src \in [Server -> SrcStatus] /\ UNCHANGED dst
  BY DEF SuspendRequest, ResumeRequest, IInv, TypeOK
<1>2. CASE UNCHANGED src
  BY <1>1, <1>2, UnseenKeepsContract
<1>3. CASE ~UNCHANGED src
  <2>1. \/ src[x] = "ACTIVE" /\ src' = [src EXCEPT ![x] = "SUSPENDING"]
        \/ src[x] = "SUSPENDED" /\ src' = [src EXCEPT ![x] = "RESUMING"]
    BY <1>3 DEF SuspendRequest, ResumeRequest, Suspending, Resuming
  <2>2. Original' = Original
    <3>1. \A s \in Server : OriginalOf(s)' = OriginalOf(s)
      BY <1>1, <2>1 DEF OriginalOf, SrcStatus
    <3>. QED  BY <3>1 DEF Original
  <2>3. Copied' = Copied
    BY <1>1 DEF Copied
  <2>4. Engine!Failed => Engine!Failed'
    <3>1. ~MigrateTenant
      BY <1>3 DEF MigrateTenant, cloudVars
    <3>. QED  BY <3>1, FailureStays DEF IInv, TypeOK
  <2>. QED  BY <2>2, <2>3, <2>4, FailingAborts
<1>. QED  BY <1>2, <1>3

(* An original is removed once it was stopped and copied.                  *)
LEMMA TerminateKeepsContract ==
    ASSUME MaxRuns = 1, IInv, [Next]_vars,
           NEW x \in Server, TerminateRequest(x)
    PROVE  [Contract!Next]_(Contract!contractVars)
<1>1. src \in [Server -> SrcStatus] /\ UNCHANGED dst
  BY DEF TerminateRequest, IInv, TypeOK
<1>2. CASE UNCHANGED src
  BY <1>1, <1>2, UnseenKeepsContract
<1>3. CASE ~UNCHANGED src
  <2>1. /\ src' = [src EXCEPT ![x] = "DELETING"]
        /\ state[<<"terminate", x>>] = "RUNNING"
    BY <1>3, EngineMoves DEF TerminateRequest, Deleting
  <2>2. Original' = [Original EXCEPT ![x] = "removed"]
    <3>1. "DELETING" \in SrcStatus
      BY DEF SrcStatus
    <3>. QED  BY <1>1, <2>1, <3>1, OriginalChanges
  <2>3. Original[x] = "stopped" /\ x \in Copied
    BY <2>1, TerminatedWasCopied
  <2>4. Copied' = Copied
    BY <1>1 DEF Copied
  <2>5. Engine!Failed => Engine!Failed'
    <3>1. ~MigrateTenant
      BY <1>3 DEF MigrateTenant, cloudVars
    <3>. QED  BY <3>1, FailureStays DEF IInv, TypeOK
  <2>6. CASE Engine!Failed \/ ~Engine!Failed'
    <3>1. Engine!Failed' = Engine!Failed
      BY <2>5, <2>6 DEF Engine!Failed
    <3>2. Contract!Remove(x)
      BY <2>2, <2>3, <2>4, <3>1
         DEF Contract!Remove, Contract!Change, Original
    <3>. QED  BY <3>2 DEF Contract!Next
  <2>7. CASE ~Engine!Failed /\ Engine!Failed'
    <3>1. Engine!Failed' = TRUE
      BY <2>7 DEF Engine!Failed
    <3>2. Contract!RemoveAndAbort(x)
      BY <2>2, <2>3, <2>4, <3>1 DEF Contract!RemoveAndAbort, Original
    <3>. QED  BY <3>2 DEF Contract!Next
  <2>. QED  BY <2>5, <2>6, <2>7
<1>. QED  BY <1>2, <1>3

(* Nova stops a server that was asked to, and wakes it after a failure.    *)
LEMMA NovaKeepsContract ==
    ASSUME IInv, WokenAfterFailure, NEW x \in Server, SourceNova(x)
    PROVE  [Contract!Next]_(Contract!contractVars)
<1>1. /\ src \in [Server -> SrcStatus]
      /\ Copied' = Copied /\ Engine!Failed' = Engine!Failed
  BY DEF SourceNova, IInv, TypeOK, Copied, Engine!Failed
<1>2. PICK m \in SrcMove : src[x] = m[1] /\ src' = [src EXCEPT ![x] = m[2]]
  BY DEF SourceNova
<1>3. m[2] \in SrcStatus
  BY DEF SrcMove, SrcStatus
<1>4. CASE m[1] = "SUSPENDING"
  <2>1. Original[x] = "running" /\ Original' = [Original EXCEPT ![x] = "stopped"]
    <3>1. src[x] = "SUSPENDING" /\ m[2] \in {"SUSPENDED", "ERROR"}
      BY <1>2, <1>4 DEF SrcMove
    <3>2. OriginalOf(x) = "running"
      BY <3>1 DEF OriginalOf
    <3>. QED  BY <1>1, <1>2, <1>3, <3>1, <3>2, OriginalChanges
  <2>2. Contract!Stop(x)
    BY <1>1, <2>1 DEF Contract!Stop, Contract!Change, Original
  <2>. QED  BY <2>2 DEF Contract!Next
<1>5. CASE m = <<"RESUMING", "ACTIVE">>
  <2>1. Original[x] = "stopped" /\ Original' = [Original EXCEPT ![x] = "running"]
    BY <1>1, <1>2, <1>3, <1>5, OriginalChanges DEF OriginalOf
  <2>2. Engine!Failed
    BY <1>2, <1>5 DEF WokenAfterFailure
  <2>3. Contract!Wake(x)
    BY <1>1, <2>1, <2>2 DEF Contract!Wake, Contract!Change, Original
  <2>. QED  BY <2>3 DEF Contract!Next
<1>6. CASE m \in {<<"RESUMING", "ERROR">>, <<"DELETING", "GONE">>}
  <2>1. \A s \in Server : OriginalOf(s)' = OriginalOf(s)
    BY <1>1, <1>2, <1>6 DEF OriginalOf, SrcStatus
  <2>. QED
    BY <1>1, <2>1 DEF Contract!contractVars
<1>. QED  BY <1>4, <1>5, <1>6 DEF SrcMove

(* A copy comes up.                                                        *)
LEMMA LaunchKeepsContract ==
    ASSUME MaxRuns = 1, IInv, NEW x \in Server, NEW r \in Run,
           DestinationNova(x, r)
    PROVE  [Contract!Next]_(Contract!contractVars)
<1>1. /\ dst \in [Server -> [Run -> DstStatus]] /\ dst[x][r] = "BUILD"
      /\ UNCHANGED <<src, state, nodes>>
  BY DEF DestinationNova, IInv, TypeOK
<1>2. Original' = Original /\ Engine!Failed' = Engine!Failed
  BY <1>1 DEF Original, OriginalOf, Engine!Failed
<1>3. PICK v \in {"ACTIVE", "ERROR"} : dst' = [dst EXCEPT ![x][r] = v]
  BY DEF DestinationNova
<1>4. ASSUME NEW s \in Server, NEW q \in Run
      PROVE  dst'[s][q] = IF s = x /\ q = r THEN v ELSE dst[s][q]
  BY <1>1, <1>3
<1>5. CASE v = "ACTIVE"
  <2>1. Copied' = Copied \cup {x}
    BY <1>1, <1>4, <1>5 DEF Copied
  <2>2. Original[x] = "stopped" \/ Engine!Failed
    BY <1>1, BuiltFromSuspended
  <2>3. Contract!Launch(x)
    BY <1>2, <2>1, <2>2 DEF Contract!Launch, Original
  <2>. QED  BY <2>3 DEF Contract!Next
<1>6. CASE v = "ERROR"
  <2>1. Copied' = Copied
    BY <1>1, <1>4, <1>6 DEF Copied
  <2>. QED  BY <1>2, <2>1 DEF Contract!contractVars, Original
<1>. QED  BY <1>5, <1>6

(* A copy is built where there was none: nothing runs yet.                 *)
LEMMA BuildingKeepsContract ==
    ASSUME MaxRuns = 1, IInv, [Next]_vars, NEW x \in Server,
           BootRequest(x), Building(x)
    PROVE  [Contract!Next]_(Contract!contractVars)
<1>1. /\ dst \in [Server -> [Run -> DstStatus]] /\ dst[x][run] = "NONE"
      /\ dst' = [dst EXCEPT ![x][run] = "BUILD"] /\ UNCHANGED src
  BY DEF BootRequest, Building, IInv, TypeOK
<1>2. Original' = Original
  BY <1>1 DEF Original, OriginalOf
<1>3. Copied' = Copied
  <2>1. ASSUME NEW s \in Server, NEW q \in Run
        PROVE  dst'[s][q] = "ACTIVE" <=> dst[s][q] = "ACTIVE"
    <3>1. CASE s = x /\ q = run
      BY <1>1, <3>1
    <3>2. CASE s # x \/ q # run
      BY <1>1, <3>2
    <3>. QED  BY <3>1, <3>2
  <2>. QED  BY <2>1 DEF Copied
<1>4. Engine!Failed => Engine!Failed'
  <2>1. ~MigrateTenant
    BY <1>1, TaskTypes DEF MigrateTenant, BootRequest, IInv, TypeOK
  <2>. QED  BY <2>1, FailureStays DEF IInv, TypeOK
<1>. QED  BY <1>2, <1>3, <1>4, FailingAborts

(* Every step of the migration is one of the contract, or a stutter.       *)
LEMMA StepKeepsContract ==
    ASSUME MaxRuns = 1, IInv, WokenAfterFailure, [Next]_vars
    PROVE  [Contract!Next]_(Contract!contractVars)
<1>1. CASE UNCHANGED <<src, dst>>
  BY <1>1, UnseenKeepsContract
<1>2. ASSUME NEW x \in Server, ServerStep(x)
      PROVE  [Contract!Next]_(Contract!contractVars)
  <2>1. CASE SuspendRequest(x) \/ ResumeRequest(x)
    BY <2>1, SuspendKeepsContract
  <2>2. CASE TerminateRequest(x)
    BY <2>2, TerminateKeepsContract
  <2>3. CASE BootRequest(x)
    <3>1. UNCHANGED src /\ (UNCHANGED dst \/ Building(x))
      BY <2>3 DEF BootRequest
    <3>. QED  BY <1>1, <3>1, <2>3, BuildingKeepsContract
  <2>. QED
    BY <1>1, <1>2, <2>1, <2>2, <2>3
       DEF ServerStep, StartEvent, StartEventRevert, SuspendObserved,
           ResumeObserved, BootObserved, cloudVars
<1>3. CASE NovaStep
  BY <1>3, NovaKeepsContract, LaunchKeepsContract DEF NovaStep
<1>4. ASSUME NEW t \in MigrationTask,
             \/ StartTask(t) \/ PassiveTaskEnds(t) \/ DefaultRevert(t)
             \/ WaitGivesUp(t)
      PROVE  UNCHANGED <<src, dst>>
  BY <1>4
     DEF StartTask, PassiveTaskEnds, DefaultRevert, WaitGivesUp, cloudVars
<1>5. ASSUME NEW f \in Fip, RestoreFloatingIp(f)
      PROVE  UNCHANGED <<src, dst>>
  BY <1>5 DEF RestoreFloatingIp
<1>6. ASSUME MigrateTenant \/ UNCHANGED vars PROVE UNCHANGED <<src, dst>>
  BY <1>6 DEF MigrateTenant, cloudVars, vars
<1>. QED
  BY <1>1, <1>2, <1>3, <1>4, <1>5, <1>6 DEF Next, FlowStep

(* The first run of a migration keeps the contract of Handover: whatever   *)
(* fails, comes late or is refused, no copy is launched beside a running   *)
(* original and no original woken before the run has failed, and none is   *)
(* removed before it was stopped and a copy of it runs.                    *)
THEOREM ContractKept ==
    ASSUME MaxRuns = 1
    PROVE  Spec => HandoverHolds
<1>1. Init => WokenAfterFailure /\ Contract!Init
  <2>1. Init => Original = [s \in Server |-> "running"] /\ Copied = {}
    BY DEF Init, Original, OriginalOf, Copied
  <2>2. Init => Engine!Failed = FALSE
    BY DEF Init, Engine!Init, Engine!Failed
  <2>3. Init => WokenAfterFailure
    BY DEF Init, WokenAfterFailure
  <2>. QED  BY <2>1, <2>2, <2>3 DEF Contract!Init, Original
<1>2. IInv /\ WokenAfterFailure /\ [Next]_vars => WokenAfterFailure'
  BY WokenStep
<1>3. IInv /\ WokenAfterFailure /\ [Next]_vars
          => [Contract!Next]_(Contract!contractVars)
  BY StepKeepsContract
<1>. QED
  BY <1>1, <1>2, <1>3, Invariant, PTL DEF Spec, HandoverHolds, Contract!Spec
=============================================================================
