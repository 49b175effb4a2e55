------------------------- MODULE ConcurrentRequests -------------------------
(***************************************************************************)
(* Several requests POST /tenants/<id> for one tenant, made while others   *)
(* are under way or after they failed.  Each one runs a flow of its own    *)
(* over the same server (ServerMigration has the tasks of one flow in      *)
(* detail) in a greenlet of its own; nothing keeps the flows apart but     *)
(* what nova refuses: to suspend a server that is not active, to resume    *)
(* one that is not suspended, to associate an address twice.               *)
(*                                                                         *)
(* The program may stop at any point: the flows live in memory and are     *)
(* gone, the clouds stay as they are, and the operator asks again.         *)
(***************************************************************************)
EXTENDS Naturals, FiniteSets

CONSTANTS
    Request,     \* requests for the tenant of the server
    MaxFaults    \* bound: refused or failing requests to nova, and crashes

ASSUME RequestAssumption == IsFiniteSet(Request) /\ "nobody" \notin Request
ASSUME FaultAssumption == MaxFaults \in Nat

VARIABLES
    mode,        \* what the greenlet of each request does
    at,          \* the task it is at
    src,         \* status of the server in the source cloud
    dst,         \* status of the copy that each request boots
    holder,      \* the request whose copy has the floating ip
    woke,        \* requests whose rollback resumed the server
    trouble,     \* requests that met a fault or gave up to wait
    faults

vars == <<mode, at, src, dst, holder, woke, trouble, faults>>

(* The linear flow of reprovision_server.                                  *)
Task == {"announce", "retrieve", "suspend", "boot", "fip", "terminate"}

(* Mutants: the copy is booted before the server is suspended; the original*)
(* is terminated before the floating ip is restored; the flow ends with the*)
(* event that it has a name for, and no task.                              *)
AfterBootsEarly ==
    [announce |-> "retrieve", retrieve |-> "boot", boot |-> "suspend",
     suspend |-> "fip", fip |-> "terminate", terminate |-> "terminate"]
AfterTerminatesEarly ==
    [announce |-> "retrieve", retrieve |-> "suspend", suspend |-> "boot",
     boot |-> "terminate", terminate |-> "fip", fip |-> "fip"]
After ==
    [announce |-> "retrieve", retrieve |-> "suspend", suspend |-> "boot",
     boot |-> "fip", fip |-> "terminate", terminate |-> "terminate"]

Nobody == "nobody"
Over == {"idle", "done", "failed", "lost"}

TypeOK ==
    /\ mode \in [Request -> Over \cup {"run", "await", "revert", "await_active"}]
    /\ at \in [Request -> Task]
    /\ src \in {"ACTIVE", "SUSPENDING", "SUSPENDED", "RESUMING", "ERROR", "DELETING",
                "GONE"}
    /\ dst \in [Request -> {"NONE", "BUILD", "ACTIVE", "ERROR"}]
    /\ holder \in Request \cup {Nobody}
    /\ woke \subseteq Request
    /\ trouble \subseteq Request
    /\ faults \in 0..MaxFaults

Init ==
    /\ mode = [q \in Request |-> "idle"]
    /\ at = [q \in Request |-> "announce"]
    /\ src = "ACTIVE"
    /\ dst = [q \in Request |-> "NONE"]
    /\ holder = Nobody
    /\ woke = {}
    /\ trouble = {}
    /\ faults = 0

-----------------------------------------------------------------------------
Runs(q, task) == mode[q] = "run" /\ at[q] = task

Becomes(q, m) == mode' = [mode EXCEPT ![q] = m] /\ UNCHANGED at

Proceed(q) ==
    /\ mode' = [mode EXCEPT ![q] = "run"]
    /\ at' = [at EXCEPT ![q] = After[at[q]]]

(* taskflow reverts the tasks that were done and the one that failed.      *)
Fail(q) ==
    Becomes(q, IF at[q] \in {"announce", "retrieve"} THEN "failed" ELSE "revert")

(* A flow is built from the servers that are listed; none, and it is empty.*)
Post(q) ==
    /\ mode[q] = "idle"
    /\ Becomes(q, IF src = "GONE" THEN "done" ELSE "run")
    /\ UNCHANGED <<src, dst, holder, woke, trouble, faults>>

(* ServerStartMigrationEvent, RetrieveServer.                              *)
Announce(q) ==
    /\ Runs(q, "announce")
    /\ Proceed(q)
    /\ UNCHANGED <<src, dst, holder, woke, trouble, faults>>

Retrieve(q) ==
    /\ Runs(q, "retrieve")
    /\ IF src = "GONE" THEN Fail(q) ELSE Proceed(q)
    /\ UNCHANGED <<src, dst, holder, woke, trouble, faults>>

(* Mutant: a server that is suspended already is as good as any.           *)
SuspendRequestTolerant(q) ==
    /\ Runs(q, "suspend")
    /\ IF src \in {"ACTIVE", "SUSPENDED"}
       THEN Becomes(q, "await") /\ src' = (IF src = "ACTIVE" THEN "SUSPENDING" ELSE src)
       ELSE Fail(q) /\ UNCHANGED src
    /\ UNCHANGED <<dst, holder, woke, trouble, faults>>

(* SuspendServer.execute: nova suspends only an active server.             *)
SuspendRequest(q) ==
    /\ Runs(q, "suspend")
    /\ IF src = "ACTIVE" THEN Becomes(q, "await") /\ src' = "SUSPENDING"
       ELSE Fail(q) /\ UNCHANGED src
    /\ UNCHANGED <<dst, holder, woke, trouble, faults>>

(* The poll takes any suspension for its own.                              *)
SuspendObserved(q) ==
    /\ mode[q] = "await" /\ at[q] = "suspend" /\ src = "SUSPENDED"
    /\ Proceed(q)
    /\ UNCHANGED <<src, dst, holder, woke, trouble, faults>>

BootRequest(q) ==
    /\ Runs(q, "boot")
    /\ Becomes(q, "await")
    /\ dst' = [dst EXCEPT ![q] = "BUILD"]
    /\ UNCHANGED <<src, holder, woke, trouble, faults>>

BootObserved(q) ==
    /\ mode[q] = "await" /\ at[q] = "boot" /\ dst[q] = "ACTIVE"
    /\ Proceed(q)
    /\ UNCHANGED <<src, dst, holder, woke, trouble, faults>>

(* EnsureFloatingIP.execute: an address of another server is a conflict.   *)
RestoreFloatingIp(q) ==
    /\ Runs(q, "fip")
    /\ IF holder = Nobody THEN Proceed(q) /\ holder' = q
       ELSE Fail(q) /\ UNCHANGED holder
    /\ UNCHANGED <<src, dst, woke, trouble, faults>>

TerminateRequest(q) ==
    /\ Runs(q, "terminate")
    /\ IF src \in {"DELETING", "GONE"} THEN Fail(q) /\ UNCHANGED src
       ELSE Becomes(q, "done") /\ src' = "DELETING"
    /\ UNCHANGED <<dst, holder, woke, trouble, faults>>

-----------------------------------------------------------------------------
(* Mutant: only a suspension that was successful is undone.                *)
ResumeOwnSuspension(q) ==
    /\ mode[q] = "revert"
    /\ IF src = "SUSPENDED" /\ at[q] # "suspend"
       THEN src' = "RESUMING" /\ woke' = woke \cup {q} /\ Becomes(q, "await_active")
       ELSE Becomes(q, "failed") /\ UNCHANGED <<src, woke>>
    /\ UNCHANGED <<dst, holder, trouble, faults>>

(* SuspendServer.revert, whoever has suspended the server: nova resumes    *)
(* only one that is suspended, what else it says ends the rollback.        *)
ResumeRequest(q) ==
    /\ mode[q] = "revert"
    /\ IF src = "SUSPENDED"
       THEN src' = "RESUMING" /\ woke' = woke \cup {q} /\ Becomes(q, "await_active")
       ELSE Becomes(q, "failed") /\ UNCHANGED <<src, woke>>
    /\ UNCHANGED <<dst, holder, trouble, faults>>

ResumeObserved(q) ==
    /\ mode[q] = "await_active" /\ src = "ACTIVE"
    /\ Becomes(q, "failed")
    /\ UNCHANGED <<src, dst, holder, woke, trouble, faults>>

(* wait_for: the timeout, an error of the server, or a poll that fails.    *)
WaitGivesUp(q) ==
    /\ \/ mode[q] = "await" /\ Fail(q)
       \/ mode[q] = "await_active" /\ Becomes(q, "failed")
    /\ trouble' = trouble \cup {q}
    /\ UNCHANGED <<src, dst, holder, woke, faults>>

(* A request fails, whether or not what it asked for is carried out.       *)
Fault(q) ==
    /\ faults < MaxFaults
    /\ faults' = faults + 1
    /\ trouble' = trouble \cup {q}
    /\ \/ mode[q] = "run" /\ at[q] # "announce" /\ Fail(q)
       \/ mode[q] = "revert" /\ Becomes(q, "failed")
    /\ \/ UNCHANGED <<src, dst, holder, woke>>
       \/ /\ Runs(q, "suspend") /\ src = "ACTIVE" /\ src' = "SUSPENDING"
          /\ UNCHANGED <<dst, holder, woke>>
       \/ /\ Runs(q, "boot") /\ dst' = [dst EXCEPT ![q] = "BUILD"]
          /\ UNCHANGED <<src, holder, woke>>
       \/ /\ Runs(q, "fip") /\ holder = Nobody /\ holder' = q
          /\ UNCHANGED <<src, dst, woke>>
       \/ /\ Runs(q, "terminate") /\ src \notin {"DELETING", "GONE"}
          /\ src' = "DELETING"
          /\ UNCHANGED <<dst, holder, woke>>
       \/ /\ mode[q] = "revert" /\ src = "SUSPENDED"
          /\ src' = "RESUMING" /\ woke' = woke \cup {q}
          /\ UNCHANGED <<dst, holder>>

(* The program stops; no request outlives it.                              *)
Crash ==
    /\ faults < MaxFaults
    /\ faults' = faults + 1
    /\ mode' = [q \in Request |-> IF mode[q] \in Over THEN mode[q] ELSE "lost"]
    /\ UNCHANGED <<at, src, dst, holder, woke, trouble>>

-----------------------------------------------------------------------------
SrcMove ==
    {<<"SUSPENDING", "SUSPENDED">>, <<"SUSPENDING", "ERROR">>, <<"RESUMING", "ACTIVE">>,
     <<"RESUMING", "ERROR">>, <<"DELETING", "GONE">>}

SourceNova ==
    /\ \E m \in SrcMove : src = m[1] /\ src' = m[2]
    /\ UNCHANGED <<mode, at, dst, holder, woke, trouble, faults>>

DestinationNova(q) ==
    /\ dst[q] = "BUILD"
    /\ \E status \in {"ACTIVE", "ERROR"} : dst' = [dst EXCEPT ![q] = status]
    /\ UNCHANGED <<mode, at, src, holder, woke, trouble, faults>>

Progress(q) ==
    \/ Announce(q) \/ Retrieve(q)
    \/ SuspendRequest(q) \/ SuspendObserved(q)
    \/ BootRequest(q) \/ BootObserved(q)
    \/ RestoreFloatingIp(q) \/ TerminateRequest(q)
    \/ ResumeRequest(q) \/ ResumeObserved(q)
    \/ WaitGivesUp(q)

Next ==
    \/ \E q \in Request : Post(q) \/ Progress(q) \/ Fault(q) \/ DestinationNova(q)
    \/ SourceNova
    \/ Crash

(* A greenlet goes on as long as the program runs; nova promises nothing.  *)
Spec == Init /\ [][Next]_vars /\ \A q \in Request : WF_vars(Progress(q))
-----------------------------------------------------------------------------
(* However many requests there are, and wherever they fail or the program  *)
(* stops, the original is deleted only when a copy runs that has its       *)
(* floating ip (server.py:230-265).                                        *)
NoServerLost ==
    src \in {"DELETING", "GONE"} => holder # Nobody /\ dst[holder] = "ACTIVE"

(* Nothing prevents a second copy, but it takes a rollback that wakes the  *)
(* original for each of them (server.py:144): the requests that boot one   *)
(* had their suspension accepted one after another.                        *)
CopiesCounted ==
    Cardinality({q \in Request : dst[q] # "NONE"}) <= 1 + Cardinality(woke)

(* The original runs beside a copy that a request is still handing over to *)
(* only because the rollback of another request has woken it               *)
(* (server.py:145): a migration that meets no other one never has both.    *)
WokenByAnother ==
    \A q \in Request :
        (mode[q] = "run" /\ dst[q] = "ACTIVE" /\ src = "ACTIVE") => woke \ {q} # {}

(* A server that is suspended when a request comes to suspend it, left so  *)
(* by a crash, say, is woken by the rollback of that request, unless this  *)
(* fails as well: asking twice gets the tenant out of it (server.py:144).  *)
WokenByRepetition ==
    \A q \in Request :
        (Runs(q, "suspend") /\ src = "SUSPENDED") ~>
            (src # "SUSPENDED" \/ q \in trouble \/ mode[q] = "lost")

=============================================================================
