--------------------------- MODULE TaskFlowProofs ---------------------------
(* Proofs about the engine, for every set of tasks and every dependency    *)
(* relation, also one with cycles.                                         *)
EXTENDS TaskFlow, TLAPS

(* Every step of the engine keeps its variables well typed.                *)
LEMMA FlowTypeStep ==
    ASSUME TypeOK, [Next]_flowVars
    PROVE  TypeOK'
<1> USE DEF TypeOK, TaskState
<1>1. ASSUME NEW flow \in SUBSET Task, Run(flow)
      PROVE  TypeOK'
  BY <1>1 DEF Run
<1>2. ASSUME NEW t \in Task, NEW from, NEW to \in TaskState, Move(t, from, to)
      PROVE  nodes' \subseteq Task /\ state' \in [Task -> TaskState]
  BY <1>2 DEF Move
<1>3. ASSUME NEW t \in Task,
             \/ Execute(t) \/ Succeed(t) \/ Fail(t)
             \/ Revert(t) \/ RevertSucceeds(t) \/ RevertRaises(t) \/ Undo(t)
      PROVE  TypeOK'
  BY <1>2, <1>3
     DEF Execute, Succeed, Fail, Revert, RevertSucceeds, RevertRaises, Undo
<1>4. CASE UNCHANGED flowVars
  BY <1>4 DEF flowVars
<1>. QED
  BY <1>1, <1>3, <1>4 DEF Next, TaskStep

(* Every step of the engine preserves the order of the dependencies.       *)
LEMMA DependenciesStep ==
    ASSUME TypeOK, DependenciesHold, [Next]_flowVars
    PROVE  DependenciesHold'
<1> USE DEF DependenciesHold, Predecessors, Successors
<1>1. ASSUME NEW flow \in SUBSET Task, Run(flow)
      PROVE  DependenciesHold'
  <2>1. \A t \in nodes' : state'[t] = "PENDING"
    BY <1>1 DEF Run
  <2>. QED  BY <2>1
<1>2. ASSUME NEW t \in Task, Execute(t)
      PROVE  DependenciesHold'
  <2>1. /\ nodes' = nodes /\ state[t] = "PENDING"
        /\ state' = [state EXCEPT ![t] = "RUNNING"]
        /\ \A u \in Predecessors(t) : state[u] = "SUCCESS"
    BY <1>2 DEF Execute, ReadyToExecute, Move
  <2>. QED  BY <2>1 DEF TypeOK
<1>3. ASSUME NEW t \in Task, Succeed(t) \/ Fail(t)
      PROVE  DependenciesHold'
  <2>1. /\ nodes' = nodes /\ state[t] = "RUNNING"
        /\ \/ state' = [state EXCEPT ![t] = "SUCCESS"]
           \/ state' = [state EXCEPT ![t] = "FAILURE"]
    BY <1>3 DEF Succeed, Fail, Move
  <2>. QED  BY <2>1 DEF TypeOK
<1>4. ASSUME NEW t \in Task, Revert(t) \/ Undo(t)
      PROVE  DependenciesHold'
  <2>1. /\ nodes' = nodes /\ state[t] \in {"SUCCESS", "FAILURE"}
        /\ \/ state' = [state EXCEPT ![t] = "REVERTING"]
           \/ state' = [state EXCEPT ![t] = "REVERTED"]
        /\ \A u \in nodes :
              <<t, u>> \in Before => state[u] \in {"PENDING", "REVERTED"}
    BY <1>4 DEF Revert, Undo, ReadyToRevert, Move
  <2>. QED  BY <2>1 DEF TypeOK
<1>5. ASSUME NEW t \in Task, RevertSucceeds(t) \/ RevertRaises(t)
      PROVE  DependenciesHold'
  <2>1. /\ nodes' = nodes /\ state[t] = "REVERTING"
        /\ \/ state' = [state EXCEPT ![t] = "REVERTED"]
           \/ state' = [state EXCEPT ![t] = "FAILURE"]
    BY <1>5 DEF RevertSucceeds, RevertRaises, Move
  <2>. QED  BY <2>1 DEF TypeOK
<1>6. CASE UNCHANGED flowVars
  BY <1>6 DEF flowVars
<1>. QED
  BY <1>1, <1>2, <1>3, <1>4, <1>5, <1>6 DEF Next, TaskStep

(* The variables of the engine stay well typed.                            *)
THEOREM FlowTypeCorrect == Spec => []TypeOK
<1>1. Init => TypeOK
  BY DEF Init, TypeOK, TaskState
<1>. QED  BY <1>1, FlowTypeStep, PTL DEF Spec

(* Nothing is executed before what it depends on has succeeded, and        *)
(* nothing is undone while something that depends on it stands.            *)
THEOREM DependenciesCorrect == Spec => []DependenciesHold
<1>1. Init => DependenciesHold
  BY DEF Init, DependenciesHold
<1>. QED  BY <1>1, FlowTypeCorrect, DependenciesStep, PTL DEF Spec

=============================================================================
