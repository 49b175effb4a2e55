--------------------------- MODULE ServerMigration ---------------------------
(***************************************************************************)
(* Migration of the servers of a tenant from the source to the destination *)
(* cloud: tasks/resources.py and tasks/server_resources.py build the flow, *)
(* tasks/server.py holds the tasks of one server, and taskflow runs it.    *)
(*                                                                         *)
(* Every server has a chain of tasks: wait for the resources it is         *)
(* provisioned from, announce the migration, retrieve the server, suspend  *)
(* it, (snapshot it and upload the snapshot,) boot its copy, restore its   *)
(* floating ips, terminate the original.  Tasks "ensure" copy the shared   *)
(* meta-resources: flavors, images, users, tenants, networks.              *)
(*                                                                         *)
(* Nova answers a request at once and carries it out later; the tasks poll *)
(* with utils.wait_for, which gives up after a timeout.  A request may be  *)
(* refused, or be carried out although its answer is an error.             *)
(***************************************************************************)
EXTENDS Naturals

CONSTANTS
    Server,         \* servers of the tenant
    Meta,           \* meta-resources the servers depend on
    Fip,            \* floating ips
    Owner,          \* Owner[f]: the server floating ip f belongs to
    Snapshotted,    \* servers rebuilt from a snapshot, the others from image
    SyncNeeds,      \* SyncNeeds[s]: what the synchronization point waits for
    UploadNeeds,    \* UploadNeeds[s]: what the upload of a snapshot needs
    BootNeeds,      \* BootNeeds[s]: what booting the copy needs
    FipNeeds,       \* FipNeeds[f]: what restoring a floating ip needs
    MaxRuns         \* bound: how often the operator starts the migration

ASSUME MigrationAssumption ==
    /\ Owner \in [Fip -> Server]
    /\ Snapshotted \subseteq Server
    /\ SyncNeeds \in [Server -> SUBSET Meta]
    /\ UploadNeeds \in [Server -> SUBSET Meta]
    /\ BootNeeds \in [Server -> SUBSET Meta]
    /\ FipNeeds \in [Fip -> SUBSET Meta]
    /\ MaxRuns \in Nat \ {0}

VARIABLES
    nodes, state, failures,   \* the engine, see TaskFlow
    waiting,    \* tasks that sent their request and poll for its result
    run,        \* the number of the current run, 0 before the first
    src,        \* status of each server in the source cloud
    dst,        \* dst[s][r]: status of the copy of s that run r booted
    holder,     \* holder[f]: the run whose copy holds floating ip f, or 0
    banner      \* servers the UI shows with the action "migration"

cloudVars == <<src, dst, holder, banner>>
vars == <<nodes, state, failures, waiting, run, src, dst, holder, banner>>

-----------------------------------------------------------------------------
(* The tasks and the order in which the flow puts them.                    *)

ServerKind == {"sync", "start", "retrieve", "suspend", "snapshot", "upload",
               "boot", "terminate"}

(* Mutants of Rank: the copy is booted first; the start of the migration is *)
(* announced last; the original is terminated beside the boot, or beside   *)
(* the floating ips.                                                       *)
RankBootFirst == [sync |-> 1, start |-> 2, retrieve |-> 3, suspend |-> 8,
    snapshot |-> 5, upload |-> 6, boot |-> 7, fip |-> 9, terminate |-> 10]
RankAnnounceLate == [sync |-> 1, start |-> 5, retrieve |-> 3, suspend |-> 4,
    snapshot |-> 5, upload |-> 6, boot |-> 7, fip |-> 8, terminate |-> 9]
RankTerminateEarly == [sync |-> 1, start |-> 2, retrieve |-> 3, suspend |-> 4,
    snapshot |-> 5, upload |-> 6, boot |-> 7, fip |-> 8, terminate |-> 7]
RankFipsLate == [sync |-> 1, start |-> 2, retrieve |-> 3, suspend |-> 4,
    snapshot |-> 5, upload |-> 6, boot |-> 7, fip |-> 9, terminate |-> 9]

Rank == [sync |-> 1, start |-> 2, retrieve |-> 3, suspend |-> 4,
         snapshot |-> 5, upload |-> 6, boot |-> 7, fip |-> 8,
         terminate |-> 9]

MigrationTask ==
    (ServerKind \X Server) \cup ({"fip"} \X Fip) \cup ({"ensure"} \X Meta)

(* The server whose linear flow a task belongs to.                         *)
ServerOf(t) == IF t[1] = "fip" THEN Owner[t[2]] ELSE t[2]

(* The names a task requires from the ensure tasks.                        *)
Needs(t) ==
    CASE t[1] = "sync" -> SyncNeeds[t[2]]
      [] t[1] = "upload" -> UploadNeeds[t[2]]
      [] t[1] = "boot" -> BootNeeds[t[2]]
      [] t[1] = "fip" -> FipNeeds[t[2]]
      [] OTHER -> {}

(* In the linear flow of a server a task precedes all that follow it; the  *)
(* floating ips of the server are restored in no order.                    *)
Precedes(u, t) ==
    \/ u[1] = "ensure" /\ u[2] \in Needs(t)
    \/ /\ u[1] # "ensure" /\ t[1] # "ensure"
       /\ ServerOf(u) = ServerOf(t)
       /\ Rank[u[1]] < Rank[t[1]]

Order ==
    {e \in {<<u, t>> : u \in MigrationTask, t \in MigrationTask} :
        Precedes(e[1], e[2])}

(* The flow that migrates a set of servers, with the resources they need.  *)
FlowOf(servers) ==
    LET chain(s) == {t \in MigrationTask :
                        /\ t[1] # "ensure" /\ ServerOf(t) = s
                        /\ t[1] \in {"snapshot", "upload"} => s \in Snapshotted}
        chains == UNION {chain(s) : s \in servers}
    IN  chains \cup {<<"ensure", m>> : m \in UNION {Needs(t) : t \in chains}}

Engine == INSTANCE TaskFlow WITH Task <- MigrationTask, Before <- Order

-----------------------------------------------------------------------------
Run == 1..MaxRuns

SrcStatus == {"ACTIVE", "SUSPENDING", "SUSPENDED", "RESUMING", "ERROR",
              "DELETING", "GONE"}

DstStatus == {"NONE", "BUILD", "ACTIVE", "ERROR"}

TypeOK ==
    /\ Engine!TypeOK
    /\ waiting \subseteq MigrationTask
    /\ run \in 0..MaxRuns
    /\ src \in [Server -> SrcStatus]
    /\ dst \in [Server -> [Run -> DstStatus]]
    /\ holder \in [Fip -> 0..MaxRuns]
    /\ banner \subseteq Server

Init ==
    /\ Engine!Init
    /\ waiting = {}
    /\ run = 0
    /\ src = [s \in Server |-> "ACTIVE"]
    /\ dst = [s \in Server |-> [r \in Run |-> "NONE"]]
    /\ holder = [f \in Fip |-> 0]
    /\ banner = {}

-----------------------------------------------------------------------------
(* The operator asks for the migration of the tenant: a flow is built from *)
(* the servers the source cloud lists, and run.                            *)
MigrateTenant ==
    /\ run < MaxRuns
    /\ Engine!Run(FlowOf({s \in Server : src[s] # "GONE"}))
    /\ run' = run + 1
    /\ waiting' = {}
    /\ UNCHANGED cloudVars

(* The engine submits a task, to execute it or to revert it.               *)
StartTask(t) ==
    /\ Engine!Execute(t) \/ Engine!Revert(t)
    /\ UNCHANGED <<waiting, run, cloudVars>>

(* Tasks that leave alone the servers: they are done, or raise.            *)
PassiveKind == {"ensure", "retrieve", "snapshot", "upload"}

PassiveTaskEnds(t) ==
    /\ \/ t[1] \in PassiveKind /\ (Engine!Succeed(t) \/ Engine!Fail(t))
       \/ t[1] = "sync" /\ Engine!Succeed(t)
    /\ UNCHANGED <<waiting, run, cloudVars>>

(* The default revert of taskflow does nothing.                            *)
HasRevertNoResume == {"start"}   \* mutant: the resume was forgotten
HasRevert == {"start", "suspend"}

DefaultRevert(t) ==
    /\ t[1] \notin HasRevert
    /\ Engine!RevertSucceeds(t)
    /\ UNCHANGED <<waiting, run, cloudVars>>

(* ServerStartMigrationEvent.execute and .revert.                          *)
StartEvent(s) ==
    /\ Engine!Succeed(<<"start", s>>)
    /\ banner' = banner \cup {s}
    /\ UNCHANGED <<waiting, run, src, dst, holder>>

StartEventRevert(s) ==
    /\ Engine!RevertSucceeds(<<"start", s>>)
    /\ banner' = banner \ {s}
    /\ UNCHANGED <<waiting, run, src, dst, holder>>

-----------------------------------------------------------------------------
(* A request to nova that is taken: the task goes on to poll.              *)
Await(t) ==
    /\ t \notin waiting
    /\ waiting' = waiting \cup {t}
    /\ UNCHANGED <<nodes, state, failures>>

(* SuspendServer.execute: the request, and its outcomes.                   *)
Suspending(s) ==
    /\ src[s] = "ACTIVE"
    /\ src' = [src EXCEPT ![s] = "SUSPENDING"]

SuspendRequest(s) ==
    LET t == <<"suspend", s>> IN
    /\ state[t] = "RUNNING"
    /\ t \notin waiting
    /\ \/ Suspending(s) /\ Await(t)
       \/ Suspending(s) /\ Engine!Fail(t) /\ UNCHANGED waiting
       \/ UNCHANGED src /\ Engine!Fail(t) /\ UNCHANGED waiting
    /\ UNCHANGED <<run, dst, holder, banner>>

(* SuspendServer.execute: wait_for(..., value="SUSPENDED").                *)
SuspendObserved(s) ==
    LET t == <<"suspend", s>> IN
    /\ t \in waiting
    /\ src[s] = "SUSPENDED"
    /\ Engine!Succeed(t)
    /\ waiting' = waiting \ {t}
    /\ UNCHANGED <<run, cloudVars>>

(* SuspendServer.revert: nova resumes only a server that is suspended.     *)
Resuming(s) ==
    /\ src[s] = "SUSPENDED"
    /\ src' = [src EXCEPT ![s] = "RESUMING"]

(* Mutant: an error of the request to resume is swallowed.                 *)
ResumeRequestSilent(s) ==
    LET t == <<"suspend", s>> IN
    /\ state[t] = "REVERTING"
    /\ t \notin waiting
    /\ \/ Resuming(s) /\ Await(t)
       \/ UNCHANGED src /\ Engine!RevertSucceeds(t) /\ UNCHANGED waiting
    /\ UNCHANGED <<run, dst, holder, banner>>

ResumeRequest(s) ==
    LET t == <<"suspend", s>> IN
    /\ state[t] = "REVERTING"
    /\ t \notin waiting
    /\ \/ Resuming(s) /\ Await(t)
       \/ Resuming(s) /\ Engine!RevertRaises(t) /\ UNCHANGED waiting
       \/ UNCHANGED src /\ Engine!RevertRaises(t) /\ UNCHANGED waiting
    /\ UNCHANGED <<run, dst, holder, banner>>

ResumeObserved(s) ==
    LET t == <<"suspend", s>> IN
    /\ t \in waiting
    /\ src[s] = "ACTIVE"
    /\ Engine!RevertSucceeds(t)
    /\ waiting' = waiting \ {t}
    /\ UNCHANGED <<run, cloudVars>>

(* BootServerFromImage.execute.                                            *)
Building(s) ==
    /\ dst[s][run] = "NONE"
    /\ dst' = [dst EXCEPT ![s][run] = "BUILD"]

BootRequest(s) ==
    LET t == <<"boot", s>> IN
    /\ state[t] = "RUNNING"
    /\ t \notin waiting
    /\ \/ Building(s) /\ Await(t)
       \/ Building(s) /\ Engine!Fail(t) /\ UNCHANGED waiting
       \/ UNCHANGED dst /\ Engine!Fail(t) /\ UNCHANGED waiting
    /\ UNCHANGED <<run, src, holder, banner>>

BootObserved(s) ==
    LET t == <<"boot", s>> IN
    /\ t \in waiting
    /\ dst[s][run] = "ACTIVE"
    /\ Engine!Succeed(t)
    /\ waiting' = waiting \ {t}
    /\ UNCHANGED <<run, cloudVars>>

(* wait_for gives up: the timeout is over, a poll raised, or the server    *)
(* fell into the error state.  It may do so just before the last change.   *)
WaitGivesUp(t) ==
    /\ t \in waiting
    /\ Engine!Fail(t) \/ Engine!RevertRaises(t)
    /\ waiting' = waiting \ {t}
    /\ UNCHANGED <<run, cloudVars>>

(* EnsureFloatingIP.execute: a floating ip that another server holds is a  *)
(* conflict; otherwise it is associated with the new copy, within a        *)
(* bounded number of tries.                                                *)
RestoreFloatingIp(f) ==
    LET t == <<"fip", f>>
        associated ==
            /\ holder[f] \in {0, run}
            /\ holder' = [holder EXCEPT ![f] = run]
    IN
    /\ \/ associated /\ (Engine!Succeed(t) \/ Engine!Fail(t))
       \/ UNCHANGED holder /\ Engine!Fail(t)
    /\ UNCHANGED <<waiting, run, src, dst, banner>>

(* TerminateServer.execute: does not wait for the server to disappear.     *)
Deleting(s) ==
    /\ src[s] \notin {"DELETING", "GONE"}
    /\ src' = [src EXCEPT ![s] = "DELETING"]

TerminateRequest(s) ==
    LET t == <<"terminate", s>> IN
    /\ \/ Deleting(s) /\ Engine!Succeed(t) /\ banner' = banner \ {s}
       \/ Deleting(s) /\ Engine!Fail(t) /\ UNCHANGED banner
       \/ UNCHANGED <<src, banner>> /\ Engine!Fail(t)
    /\ UNCHANGED <<waiting, run, dst, holder>>

-----------------------------------------------------------------------------
(* Nova carries out what it was asked for, or fails to.                    *)

SrcMove == {<<"SUSPENDING", "SUSPENDED">>, <<"SUSPENDING", "ERROR">>,
            <<"RESUMING", "ACTIVE">>, <<"RESUMING", "ERROR">>,
            <<"DELETING", "GONE">>}

SourceNova(s) ==
    /\ \E m \in SrcMove :
          src[s] = m[1] /\ src' = [src EXCEPT ![s] = m[2]]
    /\ UNCHANGED <<nodes, state, failures, waiting, run, dst, holder, banner>>

DestinationNova(s, r) ==
    /\ dst[s][r] = "BUILD"
    /\ \E status \in {"ACTIVE", "ERROR"} :
          dst' = [dst EXCEPT ![s][r] = status]
    /\ UNCHANGED <<nodes, state, failures, waiting, run, src, holder, banner>>

-----------------------------------------------------------------------------
ServerStep(s) ==
    \/ StartEvent(s) \/ StartEventRevert(s)
    \/ SuspendRequest(s) \/ SuspendObserved(s)
    \/ ResumeRequest(s) \/ ResumeObserved(s)
    \/ BootRequest(s) \/ BootObserved(s)
    \/ TerminateRequest(s)

FlowStep ==
    \/ \E t \in MigrationTask :
          \/ StartTask(t) \/ PassiveTaskEnds(t) \/ DefaultRevert(t)
          \/ WaitGivesUp(t)
    \/ \E s \in Server : ServerStep(s)
    \/ \E f \in Fip : RestoreFloatingIp(f)

NovaStep ==
    \/ \E s \in Server : SourceNova(s)
    \/ \E s \in Server, r \in Run : DestinationNova(s, r)

Next == MigrateTenant \/ FlowStep \/ NovaStep

(* The engine's threads and the polls with a timeout always go on; when    *)
(* and whether nova is done, or the operator tries again, is left open.    *)
Spec == Init /\ [][Next]_vars /\ WF_vars(FlowStep)

-----------------------------------------------------------------------------
(* Properties.                                                             *)

Unavailable == {"SUSPENDING", "SUSPENDED", "RESUMING", "ERROR"}

(* The tasks of several servers, and the resources they share, are begun   *)
(* and undone in opposite orders: nothing is executed before what it needs *)
(* is there, and nothing is undone under a task that still counts on it,   *)
(* also when reverts raise while other tasks are still running.            *)
DependenciesHold == Engine!DependenciesHold

(* TerminateServer is never ahead of what it relies on: whatever failed,   *)
(* was retried or came late, the original is only ever deleted when a copy *)
(* of it runs in the destination cloud and holds all its floating ips.     *)
NoServerLost ==
    \A s \in Server : src[s] \in {"DELETING", "GONE"} =>
        \E r \in Run :
            /\ dst[s][r] = "ACTIVE"
            /\ \A f \in Fip : Owner[f] = s => holder[f] = r

(* As long as nothing failed, a server and the copy that this run booted   *)
(* are never active together.                                              *)
NeverBothActive ==
    (run > 0 /\ ~Engine!Failed) =>
        \A s \in Server : ~(src[s] = "ACTIVE" /\ dst[s][run] = "ACTIVE")

(* The original stays suspended, neither resumed by a revert nor deleted,  *)
(* as long as it is snapshotted, the snapshot uploaded or the copy booted: *)
(* the failure of some other task must not wake it under them.             *)
SuspendedWhileCopied ==
    \A s \in Server : \A k \in {"snapshot", "upload", "boot"} :
        state[<<k, s>>] = "RUNNING" => src[s] = "SUSPENDED"

(* When the engine reports the flow of the first run as reverted, every    *)
(* server of the tenant runs in the source cloud as before, and none is    *)
(* shown as being migrated.                                                *)
RevertedMeansRestored ==
    (run = 1 /\ Engine!Reverted) =>
        banner = {} /\ \A s \in Server : src[s] = "ACTIVE"

(* In the first run the UI shows every server that is made unavailable as  *)
(* being migrated, also when the rollback broke off half-way.              *)
UnavailableIsShown ==
    run <= 1 =>
        \A s \in Server : src[s] \in Unavailable => s \in banner

(* A server that was suspended gets out of it: it is handed over, it runs  *)
(* again, or a revert raised and the operator was told so.                 *)
NotParkedForever ==
    \A s \in Server :
        state[<<"suspend", s>>] = "SUCCESS" ~>
            (src[s] \in {"ACTIVE", "DELETING", "GONE"} \/ failures)

-----------------------------------------------------------------------------
(* The promise of the migration, see Handover: how its state is read off   *)
(* the clouds and the engine.                                              *)
OriginalOf(s) ==
    CASE src[s] \in {"ACTIVE", "SUSPENDING"} -> "running"
      [] src[s] \in {"SUSPENDED", "RESUMING", "ERROR"} -> "stopped"
      [] src[s] \in {"DELETING", "GONE"} -> "removed"

Copied == {s \in Server : \E r \in Run : dst[s][r] = "ACTIVE"}

Contract == INSTANCE Handover WITH
    original <- [s \in Server |-> OriginalOf(s)],
    copied <- Copied,
    aborted <- Engine!Failed

(* The tasks of a run, in whatever order they go and fail, do nothing the  *)
(* contract does not allow: no copy is launched beside a running original  *)
(* before the run has failed, no original is woken before that, and none   *)
(* is removed before a copy runs.                                          *)
HandoverHolds == Contract!Spec

=============================================================================
