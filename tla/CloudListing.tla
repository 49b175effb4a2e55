---------------------------- MODULE CloudListing ----------------------------
(***************************************************************************)
(* GET /resources, the view that the web interface starts from.  The       *)
(* handler lists the source cloud and then the destination, in each one    *)
(* kind of resource after the other, every list a request of its own.      *)
(* Meanwhile a migration moves servers from one cloud to the other, and a  *)
(* host is blocked or leaves the source.  What they change they tell in    *)
(* events, a moment later.                                                 *)
(*                                                                         *)
(* The view is not a state that the clouds were ever in.  It is only of    *)
(* use if the events tell what it lacks.  A request of the migration may   *)
(* be carried out and answered with an error all the same: then the task   *)
(* ends before its event.                                                  *)
(***************************************************************************)
EXTENDS Naturals, Sequences

CONSTANTS
    Servers,      \* servers of the tenant that is migrated, each with a floating ip
    MaxListings,  \* bound: how often the view is asked for
    MaxFaults     \* bound: how many requests to a cloud fail

ASSUME ListingAssumption ==
    /\ "host" \notin Servers
    /\ MaxListings \in Nat
    /\ MaxFaults \in Nat

VARIABLES
    incomplete,  \* servers of the source that have no image, or no hypervisor
    hostless,    \* servers whose copies nova reports without a hypervisor
    source,      \* nova of the source: where each server is in its life there
    destination, \* nova of the destination: its copy
    tenant,      \* keystone of the destination: the tenant's copy
    bound,       \* the destination's floating ips that are associated
    host,        \* nova of the source: the host's compute service
    tenantTask, task, hostTask,   \* how far the tasks of the flows are
    untold,      \* what no event tells of, of all since the view was asked for
    told,        \* what events have told of since the view was asked for
    at,          \* the list that is fetched next, 0 when none is
    hypervisors, \* those that were listed, and whose service is not yet
    view,        \* what was listed
    answer,      \* the answer to the last request
    ghosts,      \* servers listed while being deleted, with no event to come
    listings, faults

cloudVars == <<incomplete, hostless, source, destination, tenant, bound, host>>
taskVars == <<tenantTask, task, hostTask, untold>>
listVars == <<at, hypervisors, view, answer, listings, ghosts>>
vars == <<cloudVars, taskVars, listVars, told, faults>>

(* What is listed, or told of.  For a host the kind is its status in the   *)
(* view, and "host" in an event.                                           *)
Entry(cloud, kind, id) == [cloud |-> cloud, kind |-> kind, id |-> id]

(* Mutant: the destination is listed first.                                *)
ListsDestinationFirst ==
    <<<<"destination", "tenant">>, <<"destination", "server">>, <<"destination", "other">>,
      <<"destination", "floating_ip">>, <<"destination", "hypervisor">>,
      <<"source", "tenant">>, <<"source", "server">>, <<"source", "other">>,
      <<"source", "floating_ip">>, <<"source", "hypervisor">>, <<"source", "service">>>>

(* The lists in the order of cloud_resources and of the arguments of       *)
(* jsonify.  The volumes and the images are one list, "other", in which    *)
(* nothing changes here; the destination's hosts do not change either.     *)
Lists ==
    <<<<"source", "tenant">>, <<"source", "server">>, <<"source", "other">>,
      <<"source", "floating_ip">>, <<"source", "hypervisor">>, <<"source", "service">>,
      <<"destination", "tenant">>, <<"destination", "server">>, <<"destination", "other">>,
      <<"destination", "floating_ip">>, <<"destination", "hypervisor">>>>

TypeOK ==
    /\ incomplete \subseteq Servers /\ hostless \subseteq Servers
    /\ source \in [Servers -> {"there", "deleting", "gone"}]
    /\ destination \in [Servers -> {"none", "building", "there"}]
    /\ tenant \in BOOLEAN
    /\ bound \subseteq Servers
    /\ host \in {"available", "blocked", "removed"}
    /\ tenantTask \in {"create", "tell", "done", "failed"}
    /\ task \in [Servers -> {"boot", "await", "associate", "tell_associated",
                             "terminate", "tell_deleted", "done", "failed"}]
    /\ hostTask \in {"idle", "tell"}
    /\ \A e \in told \cup untold \cup view : e.cloud \in {"source", "destination"}
    /\ at \in 0..Len(Lists)
    /\ hypervisors \in BOOLEAN
    /\ answer \in {"none", "view", "error"}
    /\ ghosts \subseteq Servers
    /\ listings \in 0..MaxListings
    /\ faults \in 0..MaxFaults

Init ==
    /\ incomplete \in SUBSET Servers
    /\ hostless \in SUBSET Servers
    /\ source = [s \in Servers |-> "there"]
    /\ destination = [s \in Servers |-> "none"]
    /\ tenant = FALSE
    /\ bound = {}
    /\ host = "available"
    /\ tenantTask = "create"
    /\ task = [s \in Servers |-> "boot"]
    /\ hostTask = "idle"
    /\ untold = {}
    /\ told = {}
    /\ at = 0
    /\ hypervisors = FALSE
    /\ view = {}
    /\ answer = "none"
    /\ ghosts = {}
    /\ listings = 0
    /\ faults = 0

-----------------------------------------------------------------------------
(* The migration, as far as the lists and the events show it.  That a flow *)
(* stops is that its next task is not begun.                               *)

Tell(entry) == told' = told \cup {entry}

Loses(entry) == untold' = untold \cup {entry}

Goto(s, step) == task' = [task EXCEPT ![s] = step]

Tenant == Entry("destination", "tenant", "tenant")
Host == Entry("source", "host", "host")
Original(s) == Entry("source", "server", s)
Copy(s) == Entry("destination", "server", s)
Address(s) == Entry("destination", "floating_ip", s)

(* What was asked for is done, but the answer, or that of the request that *)
(* follows, is an error: the task ends and its event is not sent.          *)
AnswerLost(entry) ==
    /\ faults < MaxFaults
    /\ faults' = faults + 1
    /\ Loses(entry)

Answer == UNCHANGED <<untold, faults>>

EnsureTenant ==
    /\ tenantTask = "create"
    /\ tenant' = TRUE
    /\ \/ tenantTask' = "tell" /\ Answer
       \/ tenantTask' = "failed" /\ AnswerLost(Tenant)
    /\ UNCHANGED <<incomplete, hostless, source, destination, bound, host, task, hostTask,
                   listVars, told>>

TellOfTenant ==
    /\ tenantTask = "tell"
    /\ tenantTask' = "done"
    /\ Tell(Tenant)
    /\ UNCHANGED <<cloudVars, task, hostTask, untold, listVars, faults>>

BootRequest(s) ==
    /\ tenantTask = "done" /\ task[s] = "boot"
    /\ destination' = [destination EXCEPT ![s] = "building"]
    /\ \/ Goto(s, "await") /\ Answer
       \/ Goto(s, "failed") /\ AnswerLost(Copy(s))
    /\ UNCHANGED <<incomplete, hostless, source, tenant, bound, host, tenantTask, hostTask,
                   told, listVars>>

(* Mutant: nothing is told of the copy.                                    *)
BootObservedSilently(s) ==
    /\ task[s] = "await" /\ destination[s] = "there"
    /\ Goto(s, "associate")
    /\ UNCHANGED <<told, untold, cloudVars, tenantTask, hostTask, listVars, faults>>

(* nova reports the copy as active.  When it does not say on which         *)
(* hypervisor, nothing is told.                                            *)
BootObserved(s) ==
    /\ task[s] = "await" /\ destination[s] = "there"
    /\ Goto(s, "associate")
    /\ IF s \in hostless THEN Loses(Copy(s)) /\ UNCHANGED told
                         ELSE Tell(Copy(s)) /\ UNCHANGED untold
    /\ UNCHANGED <<cloudVars, tenantTask, hostTask, listVars, faults>>

(* wait_for gives up, or sees the copy fail: the flow leaves it behind.    *)
BootFails(s) ==
    /\ task[s] = "await"
    /\ Goto(s, "failed")
    /\ Loses(Copy(s))
    /\ UNCHANGED <<cloudVars, tenantTask, hostTask, told, listVars, faults>>

(* EnsureFloatingIP; add_floating_ip, or the find that comes after it, may *)
(* raise.                                                                  *)
Associate(s) ==
    /\ task[s] = "associate"
    /\ bound' = bound \cup {s}
    /\ \/ Goto(s, "tell_associated") /\ Answer
       \/ Goto(s, "failed") /\ AnswerLost(Address(s))
    /\ UNCHANGED <<incomplete, hostless, source, destination, tenant, host, tenantTask,
                   hostTask, told, listVars>>

TellOfAddress(s) ==
    /\ task[s] = "tell_associated"
    /\ Goto(s, "terminate")
    /\ Tell(Address(s))
    /\ UNCHANGED <<cloudVars, tenantTask, hostTask, untold, listVars, faults>>

(* Mutant: TerminateServer sends no event.                                 *)
TerminateSilently(s) ==
    /\ task[s] = "terminate"
    /\ source' = [source EXCEPT ![s] = "deleting"]
    /\ Goto(s, "done")
    /\ UNCHANGED <<incomplete, hostless, destination, tenant, bound, host, tenantTask,
                   hostTask, untold, told, listVars, faults>>

(* The event follows the answer at once, whatever nova does afterwards.    *)
Terminate(s) ==
    /\ task[s] = "terminate"
    /\ source' = [source EXCEPT ![s] = "deleting"]
    /\ \/ Goto(s, "tell_deleted") /\ Answer
       \/ Goto(s, "failed") /\ AnswerLost(Original(s))
    /\ UNCHANGED <<incomplete, hostless, destination, tenant, bound, host, tenantTask,
                   hostTask, told, listVars>>

TellOfDeletion(s) ==
    /\ task[s] = "tell_deleted"
    /\ Goto(s, "done")
    /\ Tell(Original(s))
    /\ UNCHANGED <<cloudVars, tenantTask, hostTask, untold, listVars, faults>>

NovaBuilds(s) ==
    /\ destination[s] = "building"
    /\ destination' = [destination EXCEPT ![s] = "there"]
    /\ UNCHANGED <<incomplete, hostless, source, tenant, bound, host, taskVars, told,
                   listVars, faults>>

NovaDeletes(s) ==
    /\ source[s] = "deleting"
    /\ source' = [source EXCEPT ![s] = "gone"]
    /\ UNCHANGED <<incomplete, hostless, destination, tenant, bound, host, taskVars, told,
                   listVars, faults>>

(* The evacuation blocks the host, and its rollback unblocks it; the       *)
(* reassignment deletes its services, which takes the hypervisor with it.  *)
(* An event of the host tells all there is to know of it, until it changes.*)
ChangeHost ==
    /\ hostTask = "idle"
    /\ \/ host = "available" /\ host' = "blocked"
       \/ host = "blocked" /\ host' \in {"available", "removed"}
    /\ told' = told \ {Host}
    /\ \/ hostTask' = "tell" /\ untold' = untold \ {Host} /\ UNCHANGED faults
       \/ AnswerLost(Host) /\ UNCHANGED hostTask
    /\ UNCHANGED <<incomplete, hostless, source, destination, tenant, bound, tenantTask, task,
                   listVars>>

TellOfHost ==
    /\ hostTask = "tell"
    /\ hostTask' = "idle"
    /\ Tell(Host)
    /\ UNCHANGED <<cloudVars, tenantTask, task, untold, listVars, faults>>

-----------------------------------------------------------------------------
(* The handler.                                                            *)

Ask ==
    /\ at = 0 /\ listings < MaxListings
    /\ at' = 1
    /\ listings' = listings + 1
    /\ view' = {}
    /\ answer' = "none"
    /\ told' = {}
    /\ untold' = {}
    /\ ghosts' = {}
    /\ hypervisors' = FALSE
    /\ UNCHANGED <<cloudVars, tenantTask, task, hostTask, faults>>

Fetches(cloud, kind) == at # 0 /\ Lists[at] = <<cloud, kind>>

Listed(entries) ==
    /\ view' = view \cup entries
    /\ IF at = Len(Lists) THEN at' = 0 /\ answer' = "view"
                          ELSE at' = at + 1 /\ UNCHANGED answer

NotListed == at' = 0 /\ answer' = "error" /\ UNCHANGED view

ListTenants ==
    \/ /\ Fetches("source", "tenant")
       /\ Listed({Entry("source", "tenant", "tenant")})
    \/ /\ Fetches("destination", "tenant")
       /\ Listed({e \in {Tenant} : tenant})

(* server.image["id"] raises for a server without an image, and getattr for*)
(* one without a hypervisor.  Copies always have an image.                 *)
ListSourceServers ==
    /\ Fetches("source", "server")
    /\ LET found == {s \in Servers : source[s] # "gone"}
       IN  /\ IF found \cap incomplete # {} THEN NotListed
              ELSE Listed({Original(s) : s \in found})
           /\ ghosts' = {s \in found : source[s] = "deleting" /\ task[s] # "tell_deleted"}

ListCopies ==
    /\ Fetches("destination", "server")
    /\ LET found == {s \in Servers : destination[s] # "none"}
       IN  IF found \cap hostless # {} THEN NotListed ELSE Listed({Copy(s) : s \in found})

ListOthers == at # 0 /\ Lists[at][2] = "other" /\ Listed({})

(* A floating ip is shown with the server that it is associated with.      *)
ListFloatingIps ==
    \/ /\ Fetches("source", "floating_ip")
       /\ Listed({Entry("source", "floating_ip", s) : s \in {t \in Servers : source[t] # "gone"}})
    \/ /\ Fetches("destination", "floating_ip")
       /\ Listed({Address(s) : s \in bound})

ListHypervisors ==
    \/ /\ Fetches("source", "hypervisor")
       /\ hypervisors' = (host # "removed")
       /\ Listed({})
    \/ /\ Fetches("destination", "hypervisor")
       /\ Listed({})
       /\ UNCHANGED hypervisors

(* services[0] raises when the service is gone since the hypervisors were  *)
(* listed.                                                                 *)
ListHost ==
    /\ Fetches("source", "service")
    /\ IF ~hypervisors THEN Listed({})
       ELSE IF host = "removed" THEN NotListed
       ELSE Listed({Entry("source", host, "host")})

(* A cloud refuses the request or does not answer it.                      *)
Fault ==
    /\ at # 0 /\ faults < MaxFaults
    /\ NotListed
    /\ faults' = faults + 1
    /\ UNCHANGED <<cloudVars, taskVars, told, hypervisors, listings, ghosts>>

List ==
    /\ \/ ListSourceServers /\ UNCHANGED hypervisors
       \/ ListHypervisors /\ UNCHANGED ghosts
       \/ /\ ListTenants \/ ListCopies \/ ListOthers \/ ListFloatingIps \/ ListHost
          /\ UNCHANGED <<hypervisors, ghosts>>
    /\ UNCHANGED <<cloudVars, taskVars, told, listings, faults>>

Next ==
    \/ Ask \/ List \/ Fault
    \/ EnsureTenant \/ TellOfTenant \/ ChangeHost \/ TellOfHost
    \/ \E s \in Servers :
        \/ BootRequest(s) \/ BootObserved(s) \/ BootFails(s) \/ Associate(s)
        \/ TellOfAddress(s) \/ Terminate(s) \/ TellOfDeletion(s)
        \/ NovaBuilds(s) \/ NovaDeletes(s)

(* A task that was begun goes on to its event, and wait_for gives up in    *)
(* the end.                                                                *)
Fairness ==
    /\ WF_vars(TellOfTenant) /\ WF_vars(TellOfHost)
    /\ \A s \in Servers :
        /\ WF_vars(BootObserved(s) \/ BootFails(s))
        /\ WF_vars(TellOfAddress(s)) /\ WF_vars(TellOfDeletion(s))

Spec == Init /\ [][Next]_vars /\ Fairness

-----------------------------------------------------------------------------
(* Properties.                                                             *)

Shows(cloud, kind, id) == Entry(cloud, kind, id) \in view

Answered == answer = "view"

(* A server that is moved while the clouds are listed is shown in one of   *)
(* them at least: it is found in the source, or it has left the source and *)
(* its copy is found in the destination, which is listed later.            *)
NoServerUnlisted ==
    Answered => \A s \in Servers : Original(s) \in view \/ Copy(s) \in view

(* Where the view differs from the clouds as they are now.                 *)
Differences ==
    {Original(s) : s \in {t \in Servers : ~(Original(t) \in view <=> source[t] # "gone")}}
    \cup {Copy(s) : s \in {t \in Servers : ~(Copy(t) \in view <=> destination[t] # "none")}}
    \cup {Address(s) : s \in {t \in Servers : ~(Address(t) \in view <=> t \in bound)}}
    \cup {e \in {Tenant} : ~(e \in view <=> tenant)}
    \cup {e \in {Host} : /\ ~Shows("source", host, "host")
                         /\ ~(host = "removed" /\ \A d \in view : d.id # "host")}

(* What a task that is still going will tell.                              *)
Coming ==
    {Original(s) : s \in {t \in Servers : task[t] = "tell_deleted"}}
    \cup {Copy(s) : s \in {t \in Servers : task[t] = "await"}}
    \cup {Address(s) : s \in {t \in Servers : task[t] = "tell_associated"}}
    \cup {e \in {Tenant} : tenantTask = "tell"}
    \cup {e \in {Host} : hostTask = "tell"}

(* What nothing tells: what a request did that was answered with an error, *)
(* a copy that was left behind or that nova did not place, and a server    *)
(* that was listed when it was still being deleted after its event.        *)
Missed == untold \cup {Original(s) : s \in ghosts}

(* Where the view differs from the clouds as they are now, an event since  *)
(* the view was asked for has told the difference, or a task that is going *)
(* will tell it, or it is one of those that are missed (handlers.py:81,    *)
(* server.py:201, floating_ip.py:107).                                     *)
ViewCatchesUp == Answered => Differences \subseteq told \cup Coming \cup Missed

(* And what is to come does come: there is always a time again when the    *)
(* view and the events have all that is not missed.                        *)
ViewSettles == Answered ~> (~Answered \/ Differences \subseteq told \cup Missed)

=============================================================================
