------------------------------ MODULE TaskFlow ------------------------------
(***************************************************************************)
(* The parallel engine of the taskflow library, as pumphouse uses it:      *)
(* flows.run_flow hands a flow to taskflow.engines.run(engine_conf =       *)
(* 'parallel') and waits for it.  A flow is a set of tasks with a          *)
(* dependency relation (the order of a linear flow, or a requirement one   *)
(* task provides and another consumes).                                    *)
(*                                                                         *)
(* The engine runs every task whose predecessors have succeeded, several   *)
(* at a time.  Once a task has failed nothing new is executed: what runs   *)
(* is awaited, and what was executed is reverted, successors before        *)
(* predecessors.  A revert that raises makes the engine stop scheduling,   *)
(* wait for what still runs and raise.                                     *)
(***************************************************************************)

CONSTANTS
    Task,       \* every task a flow may be built from
    Before      \* pairs <<u, t>>: u has to succeed before t is executed

VARIABLES
    nodes,      \* the tasks of the flow that was last handed to the engine
    state,      \* the state the engine keeps for each task
    failures    \* TRUE once a revert has raised

flowVars == <<nodes, state, failures>>

TaskState ==
    {"PENDING", "RUNNING", "SUCCESS", "FAILURE", "REVERTING", "REVERTED"}

TypeOK ==
    /\ nodes \subseteq Task
    /\ state \in [Task -> TaskState]
    /\ failures \in BOOLEAN

Init ==
    /\ nodes = {}
    /\ state = [t \in Task |-> "PENDING"]
    /\ failures = FALSE

-----------------------------------------------------------------------------
(* What the engine derives from the states of the tasks.                   *)

Predecessors(t) == {u \in nodes : <<u, t>> \in Before}
Successors(t) == {u \in nodes : <<t, u>> \in Before}

(* After the first failure every task is meant to be reverted.             *)
Failed == \E t \in nodes : state[t] \in {"FAILURE", "REVERTING", "REVERTED"}

Busy == \E t \in nodes : state[t] \in {"RUNNING", "REVERTING"}

Succeeded == \A t \in nodes : state[t] = "SUCCESS"

Reverted == Failed /\ \A t \in nodes : state[t] \in {"PENDING", "REVERTED"}

(* run_flow has returned, or raised, or was not called yet.                *)
Over == Succeeded \/ Reverted \/ (failures /\ ~Busy)

-----------------------------------------------------------------------------
(* taskflow.engines.run: a flow without tasks is refused.                  *)
Run(flow) ==
    /\ Over
    /\ flow # {}
    /\ nodes' = flow
    /\ state' = [t \in Task |-> "PENDING"]
    /\ failures' = FALSE

ReadyToExecute(t) ==
    /\ t \in nodes
    /\ state[t] = "PENDING"
    /\ ~Failed
    /\ \A u \in Predecessors(t) : state[u] = "SUCCESS"

(* Mutant: successors are not waited for.                                  *)
ReadyToRevertAtOnce(t) ==
    /\ t \in nodes
    /\ state[t] \in {"SUCCESS", "FAILURE"}
    /\ Failed
    /\ ~failures

ReadyToRevert(t) ==
    /\ t \in nodes
    /\ state[t] \in {"SUCCESS", "FAILURE"}
    /\ Failed
    /\ ~failures
    /\ \A u \in Successors(t) : state[u] \in {"PENDING", "REVERTED"}

Move(t, from, to) ==
    /\ t \in nodes
    /\ state[t] = from
    /\ state' = [state EXCEPT ![t] = to]
    /\ UNCHANGED nodes

Execute(t) ==
    /\ ReadyToExecute(t)
    /\ Move(t, "PENDING", "RUNNING")
    /\ UNCHANGED failures

Succeed(t) == Move(t, "RUNNING", "SUCCESS") /\ UNCHANGED failures
Fail(t) == Move(t, "RUNNING", "FAILURE") /\ UNCHANGED failures

Revert(t) ==
    /\ ReadyToRevert(t)
    /\ Move(t, state[t], "REVERTING")
    /\ UNCHANGED failures

RevertSucceeds(t) ==
    Move(t, "REVERTING", "REVERTED") /\ UNCHANGED failures

RevertRaises(t) == Move(t, "REVERTING", "FAILURE") /\ failures' = TRUE

(* A revert that does nothing begins and succeeds in one step.             *)
Undo(t) ==
    /\ ReadyToRevert(t)
    /\ Move(t, state[t], "REVERTED")
    /\ UNCHANGED failures

TaskStep ==
    \E t \in Task :
        \/ Execute(t) \/ Succeed(t) \/ Fail(t)
        \/ Revert(t) \/ RevertSucceeds(t) \/ RevertRaises(t) \/ Undo(t)

Next == TaskStep \/ \E flow \in SUBSET Task : Run(flow)

Spec == Init /\ [][Next]_flowVars

-----------------------------------------------------------------------------
(* Properties.                                                             *)

(* A task that was executed and not undone rests on predecessors that all  *)
(* succeeded and still stand, and a task that has not ended has successors *)
(* that never began: nothing is executed before what it needs, and nothing *)
(* is undone under a task that still counts on it.                         *)
DependenciesHold ==
    \A t \in nodes :
        /\ state[t] \notin {"PENDING", "REVERTED"} =>
              \A u \in Predecessors(t) : state[u] = "SUCCESS"
        /\ state[t] \in {"PENDING", "RUNNING"} =>
              \A u \in Successors(t) : state[u] = "PENDING"

=============================================================================
