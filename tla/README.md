# pumphouse in TLA+

Pumphouse moves the workloads of an OpenStack cloud (the *source*) into another
one (the *destination*): the servers of a tenant with everything they depend on,
and in the end the compute hosts themselves. It is a Python 2 program around the
`taskflow` library: every operation builds a graph of small tasks and hands it to
taskflow's *parallel engine*, which runs independent tasks in threads and, when
one fails, calls the tasks' `revert` methods. A Flask and gevent application
starts the operations and shows their progress through a stream of events.

This directory holds TLA+ modules for the parts where order, failure and delay
matter, configurations that check them with TLC, and proofs checked by TLAPS.
All paths below are relative to the root of the repository; `server.py` without
a directory is `pumphouse/tasks/server.py`.

## The system and what makes it correct

| Component | State it keeps | Operations | What has to hold |
|---|---|---|---|
| Engine (`flows.py`, taskflow) | a state for each task of the flow | run a flow, execute, revert | dependencies hold forwards and backwards |
| Server migration (`server.py`, `server_resources.py`, `resources.py`) | servers in both clouds, floating ips, the UI's view | announce, retrieve, suspend, snapshot, upload, boot, restore floating ips, terminate; revert of announce and suspend | no server lost; at most one of original and copy active until something fails; a rollback restores what was there |
| Host evacuation (`evacuation.py`, `service.py`) | compute service, placement of servers | disable, enable, live-migrate | the host is closed while it is emptied; the outcome shown is the real one; the host is empty at the end |
| Host reassignment (`node.py`) | nodes and environments of Fuel, services of nova | unassign, deploy, wait, assign, copy settings, deploy, wait | a node is in one environment at a time; events in an order the UI can use |
| Identity (`identity.py`, `tenant.py`, `user.py`, `role.py`) | tenants, users, roles, memberships | find or create | one resource per name; a failure is explained by what another flow did, and repeating helps |
| Flavors, security groups, networks of nova, floating ips | one record each, the rules of a group | find or create, add the missing rules, associate | the same |
| Images, snapshots, volumes (`image.py`, `snapshot.py`, `volume.py`) | images, volumes and uploads | snapshot, find by checksum, or create and upload; make a volume | what is handed on is complete; data is copied once |
| Upload progress (`tasks/utils.py`) | bytes, last step | update | at most a tenth behind, at most ten reports |
| Construction of flows (all builders, `context.py`) | the store of names | add tasks once per resource | each required name is provided exactly once |
| Polling (`utils.wait_for`) | a clock | poll, give up | ends; never reports what it has not seen |
| Web API (`api/handlers.py`, `api/hooks.py`, `base.py`) | clients of the clouds, a lock, running flows | migrate, evacuate, reassign, reset, list the clouds | one identity per cloud; resets come to an end; requests do not lose each other's servers; the view and the events together tell everything |
| Setup and cleanup (`management.py`) | a whole cloud | cleanup, setup | nothing of an earlier reset is left; failures are explained |
| Command line (`cmds/pump.py`, `plugin.py`) | the parsed command | migrate, cleanup, setup, evacuate, reassign, dump | what was asked for is done, or the exit code says that it was not |

The components meet in three ways. Builders call each other and share the
`context.store`, a dictionary of names. Tasks pass results along names
(`provides`, `rebind`, `requires`), which is also what orders them. And all act
on the clouds, which answer a request at once and carry it out later, so that a
task polls with `wait_for` until it sees the effect or gives up. What is hard is
there: parallel tasks of different servers share one fate, timeouts race late
effects, requests fail although they were carried out, reverts fail too, and the
operator repeats what went wrong, or asks twice. The web API runs all of it in
one process: greenlets that share the clients of the clouds, and flows that share
nothing but the clouds themselves.

## Modules

| Module | Models | Run by | Proofs |
|---|---|---|---|
| `TaskFlow` | the parallel engine as pumphouse sees it | every flow, first `ServerMigration` | `TaskFlowProofs` |
| `ServerMigration` | the migration of a tenant's servers, on `TaskFlow` | `MCServerMigration` | `ServerMigrationProofs` |
| `Handover` | what a migration promises, without tasks and requests | refined by `ServerMigration` | `ServerMigrationProofs` |
| `Evacuation` | the evacuation of a host, on `TaskFlow` | itself | `EvacuationProofs` |
| `Reassignment` | the reassignment of a host, on `TaskFlow` | itself | `ReassignmentProofs` |
| `MigrationPlan` | how the builders assemble the flow of a migration | `CommandLine` | `MigrationPlanProofs` |
| `CommandLine` | the command `pump` from its words to its exit code, on `MigrationPlan` | `MCCommandLine` | `MigrationPlanProofs` |
| `EnsureResource` | find-or-create tasks of flows side by side, with faults and restarts | `MCEnsureResource` | `ResourceProofs` |
| `ImageTransfer` | snapshots, images, volumes and their upload | `MCImageTransfer` | `ResourceProofs` |
| `ConcurrentRequests` | several requests for one tenant, with crashes | itself | `WebApiProofs` |
| `Management` | cleanup and setup of a cloud | `MCManagement`, `CloudClients` | `WebApiProofs` |
| `CloudClients` | the client of a cloud in the web API, shared by greenlets, on `Management` | `MCCloudClients` | `WebApiProofs` |
| `CloudListing` | the view of both clouds while a migration is under way | itself | `CloudListingProofs` |

`ServerMigration` is the tenant's migration in detail, seen from one flow. Three
modules look closer at what it takes as one step or leaves out:
`EnsureResource` and `ImageTransfer` at the tasks it calls `ensure`, and
`ConcurrentRequests` at several of its flows at a time, for one server and
without the engine's parallelism, which a linear flow does not use.

### TaskFlow

`run_flow` calls `taskflow.engines.run(engine_conf='parallel')` and waits.
taskflow is a library, so the module states what it does for its caller:
`Task` and `Before` are the tasks and the dependency relation, `nodes` the tasks
of the flow being run, `state` what the engine keeps for each. `Execute(t)` needs
every predecessor `SUCCESS` and nothing failed so far; `Revert(t)` needs a failure
and every successor `PENDING` or `REVERTED`; a failed task is itself reverted, as
taskflow does. `Undo` is a revert that does nothing, which begins and is over in
one step. `RevertRaises` sets `failures`, after which nothing new is
reverted. `Over` is when `run_flow` has returned or raised; only then does
`Run(flow)` start another flow.

### ServerMigration

A task is a pair of a kind and the object it works on: `<<"suspend", s>>` is the
task `server-s-suspend`, `<<"fip", f>>` restores a floating ip, `<<"ensure", m>>`
stands for the chain of tasks that copies a meta-resource (flavor, image, user,
tenant, nics). `Rank` is the place of a kind in the linear flow of a server
(`reprovision_server`, `rebuild_by_image`, `rebuild_by_snapshot`,
`restore_floating_ips`), and `Needs` the names a task requires from the ensure
tasks; both together are `Order`, the dependency relation of the engine, which is
brought in with `Engine == INSTANCE TaskFlow`.

| State | In the code |
|---|---|
| `src[s]`, `dst[s][r]` | status of the server in the source cloud, and of the copy that the `r`-th run booted in the destination |
| `holder[f]` | `instance_uuid` of the floating ip in the destination: the run whose copy has it |
| `banner` | servers to which the events gave the action "migration" |
| `waiting` | tasks inside `utils.wait_for` |
| `run` | how often the operator has started the migration |

A request to nova has three outcomes: taken (the task goes on to poll), refused,
or an error answered to a request that is carried out all the same. Polling ends
when the awaited status is seen, or gives up at any moment (`WaitGivesUp`): the
timeout, an error of a poll and the error state are one choice, since the task
fails the same way. Nova's own steps (`SourceNova`, `DestinationNova`) go on
after the task has given up, and into the next run.

`Handover` is the abstract promise: an original is stopped, a copy is launched
while it is stopped (or after the attempt was aborted), the original is woken only
after an abort and removed only when there is a copy. `HandoverHolds` states that
`ServerMigration` implements it, with the status of the two clouds mapped to
running, stopped and removed.

### Evacuation

`EvacuateHost` is the API's operation: `evacuate_servers` lists the servers of the
host and builds a flow of one task that disables `nova-compute`, and for each
server one that retrieves it and one that live-migrates it, which requires the
other two (`Order`). `service` is nova's service, `shown` the host in the UI,
`place` and `status` the servers. Nova answers the request to live-migrate at once:
`asked` are the servers whose migration it has taken and not begun. `NovaBegins`
begins it or drops it, and until then the server is `ACTIVE`, which is all that
the task waits for. `NovaMigrates` ends a live migration elsewhere, in a rollback,
or in the error state. `NovaBoots` is the scheduler, which may put a server on the
host while the service is enabled.

### Reassignment

`ReassignHost` is the API's operation; `Order` is read off the names of
`reassign_node` and its four builders: what is provided under a name and rebound
or required elsewhere. Small tasks that only read are joined to their neighbours
(`environments` stands for the three that read environments, `choose` for reading
the destination's nodes and choosing one with its roles, `update` includes the
node's hostname).

| State | In the code |
|---|---|
| `cluster`, `pending`, `node` | the node in Fuel: its environment, what the next deployment does with it, its status |
| `deploy[c]` | the last deployment of each environment |
| `copied` | disk and network settings uploaded for the node |
| `compute[c]`, `shown[c]` | the record of nova's service, and the host in the UI, in each cloud |
| `listed`, `deleted` | results that tasks hand on: is the host among the nodes read, was a `nova-compute` deleted |
| `watched[c]` | the deployment that is polled also waits for the node: it was among the unfinished nodes of the environment (`DeployTask.nodes`) |

`DeployRequest`, `DeployObserved` and `DeployGivesUp` are `DeployChanges`. The
iteration over a deployment raises for an error only if the error appears between
finding the deployment unfinished and reading its data
(`_vendor/fuelclient/objects/task.py:82-92`); otherwise a failed deployment ends
the iteration like a success, and `DeployObserved` allows both. The iteration is
over when the deployment is and every node of the environment that was unfinished
when the client read it has become ready or in error (`NodeFinished`); of these
nodes only the one that is reassigned is modelled, the others count as finished.
`FuelDeploys` wipes or installs the node, leaves it in error (`Botched`), or does
not come to it. A service whose deletion raises is skipped, and does not count as
deleted, even if nova has deleted it (`DeleteServices`). `WaitUnassignedNode`
and `WaitComputesServices` give up like any task that fails. Reverts do nothing
(`node.py:90` only logs) and are one step each (`Undo`), so a failed reassignment leaves the node where it is:
shown as in reassignment, and, once it has left the source, not found by the next
attempt (`RetrieveNode`).

### MigrationPlan

The other modules take the flow as given; this one is about how it comes to be.
Builders (`migrate_server`, `migrate_identity`, `migrate_image` and those they
call) add chains of tasks to a flow and share `context.store`, where a key tells
them that a resource is planned already. A resource is `<<kind, id>>`, which
stands for its key and for the names its chain provides; `TenantChain`,
`UserChain` and so on are what each builder adds and what it requires, and `Add`
is the common pattern: look up, add, remember. `plan` and `needs` are the names
provided and required by the flow of each id, `twice` what was provided again.

What the source cloud holds is an `Inventory`, chosen at the start; `asked` is
what the operator asks for (`pump migrate resources|identity|images|volumes --ids ...`),
with either plugin for disks. Images and volumes are planned in the order in which
the source lists them, and ids it does not list are passed over (`Listed`);
tenants are planned as they are given, and may be unknown (`Strays`). A kernel
stands for a ramdisk as well, since `migrate_image` treats both alike. An
inventory has no server that is made from a kernel: `image.py:168` looks for
kernels of images in the format `ami`, and a kernel is not what one boots from.
Were there such a server, the flaws of a plan would depend on the order of the
ids. Nor has it a fixed address in two networks: of the second one the builder of
nics would not add the network (`network.py:104`). `Circle` is a set of flows each of which waits for another of them.

### CommandLine

`main` and what it calls. `cmd` is what the operator typed (`Commands`), `phase`
how far `main` has come: `Parse` (argparse refuses a class that is no choice),
`Connect` (with `--setup`, which raises), `Select` (the filter becomes ids),
`Plan` (the steps of `MigrationPlan`), then `Refuse`, `Dump` or `Run`. A filter is
ids, known to the source or not, a tenant or a host. taskflow refuses a flow
that contradicts itself, and to run one that lacks a name or has no task
(`Empty`; `TaskFlow.Run` has the same guard). An unknown tenant makes keystone
raise while identity is planned (`NoSuchTenant`). `Maintain` stands for cleanup
and setup; those, evacuations and reassignments have modules of their own. Every
exception ends the program. A dump names ids by letters, which run out
(`utils.py:79`); `Letters` is that limit.

### EnsureResource

A resource is `<<kind, name>>`; `step[f][r]` is how far the task of flow `f` for
`r` has come: it looks the resource up (`FindTenant`, `FindSecGroup` and so on,
or `listed` for networks, whose list is read once per flow), creates it if it was
missing, adds the rules of a group one by one, and gives it to the tasks that
require it (`Requires`). Creating what another flow has created meanwhile is
refused (`taken`). A group is handled as its restricted user, which is denied
until the user has its role. A rule of a group is `plain`, `refused` by the
destination, which `secgroup.py:72` takes for a duplicate, or `sourced`: one whose
source is another group has no range of addresses, and reading it raises
`KeyError` (`secgroup.py:71`), in every run. `Fault` is a request that fails, whether or not it
was carried out, `Crash` a stop of the program, after which flows are begun
again by the operator. `why` keeps the cause of a failure, and `alone` whether
another flow has run meanwhile, for the properties. A `World` is what the flows
copy and what the destination has at first.

### ImageTransfer

A transfer copies an image, a snapshot made of a server, or a volume by way of
an image. `base` is that image in the source, `copy[x][n]` the image that the
`n`-th run of the transfer makes in the destination, `given` the copy that is
handed on, found or new, and `volume` what is made of it. An image is found by
checksum among the *active* ones, so a copy whose upload was cut off
(`"saving"`) is left behind and made again. Uploads are modelled chunk by chunk
with the reporter (`meter`); sizes that a tenth does not divide leave a choice to
the rounding of floating point.

### ConcurrentRequests

`mode[q]` and `at[q]` are where the flow of request `q` is: running a task,
waiting for nova, reverting. `src`, `dst` and `holder` are as in
`ServerMigration`, except that there is one server, whose copy by `q` is
`dst[q]`. What keeps flows apart is only nova: it suspends an active server and
resumes a suspended one, whoever asks. `Crash` stops all requests that are under
way.

### Management

`stage` walks through the stages of cleanup and setup, `todo` is what the loop of
a stage still has to remove, `waiting` the server whose removal is polled. A
resource has a kind, a name and the reset that made it; `Doomed` says what
cleanup takes, mostly by prefix, but all floating ips, and all of neutron.
Servers are waited for; volumes are not: `deleting` are those that cinder was asked
to delete (`RemoveVolume`) and that it deletes later, or never (`CinderRemoves`).
Asked again meanwhile it may refuse, which ends a cleanup.
`ref` is the reset from which the servers come that are listed in the
configuration: `management.py:432` puts them there, where the next setup finds
them. `why` is the reason that a reset has failed for.

### CloudClients

`stored` is the client in the application's table, `own[g]` the one greenlet `g`
works with, both known by their identities, since it is the identity that keeps
password hashes. A greenlet looks the client up, makes one if there is none,
pings it, and replaces it when it does not answer, handing the identity on;
between any two of these steps other greenlets run. Resets hold `lock` from
before they connect to their end, and run the actions of `Management`.

### CloudListing

The handler of `GET /resources` fetches `Lists` one by one (`at`), the source
first; `view` is what it has collected, `told` what events have told of since the
view was asked for. Beside it run a migration (`task`), nova (`source`,
`destination`) and the tasks that block and remove a host. Each task acts first
and tells afterwards, in a step of its own (`TellOfTenant`, `TellOfAddress`,
`TellOfDeletion`, `TellOfHost`), and the view may be made of states before and
after. A request may be carried out and answered with an error (`AnswerLost`):
the task has failed and its event never comes. `untold` keeps what was lost in
this way, since the view was asked for. A listing fails for servers without an
image or a hypervisor (`incomplete`, `hostless`).

## Runs

| Run | What it shows | States |
|---|---|---|
| `server_migration` | one migration of two servers: dependencies in both directions, the safety properties of a run, and the refinement of `Handover` | 131 351 |
| `server_migration_repeated` | one server, up to three runs: the original is never lost, and a suspended server is not forgotten, whatever nova does | 51 001 |
| `evacuation` | two evacuations with servers appearing, migrations begun late or dropped, rolled back | 42 603 |
| `reassignment` | two attempts to reassign a host: a free node, settings first, a success that is one; attempts end | 160 197 |
| `command_line` | all commands and plans for two ids, known or not, over a family of source clouds: flaws of plans, roles, circles, and what a success means | 3 868 116 |
| `resources` | two flows that share resources, two faults or restarts: what is reported as done is there, failures are explained, repeating succeeds | 119 146 |
| `images` | five sets of transfers, each begun twice: copies are complete and made once, uploads are reported, transfers end | 113 312 |
| `requests` | three requests for one tenant, one fault or crash | 211 589 |
| `reset` | two resets and a connection of one cloud in seven configurations, one fault, restarts | 450 450 |
| `listing` | two views of the clouds while a server is moved and a host changes, up to two faults or lost answers: nothing is missed but what is named, and the events that are to come do come | 369 976 |
| `cleanup_cleans`, `host_is_cleared` | violated: see below | |

**Bounds.** The servers of a tenant interact only through the shared ensure tasks
and through the engine (one failing, all being reverted), and each property is
about a server or a server and its copy; two servers, with one shared resource
that is needed before the suspension and one that is needed only later, give
every such interaction. One server is rebuilt from an image and has a floating
ip, the other is rebuilt from a snapshot. `MaxRuns = 3` in the repeated run lets
an effect of the first run come late during the second and be met by the third.
Its flow has tasks with several successors and several predecessors, and two
chains, which is what `DependenciesHold` is about there. Two
evacuations let the second meet a live migration and a service state the first
left behind. Two reassignments let the second meet a deployment that the first has
lost, a node that did not leave, and one that did; a third would start from the
same states. `HiddenOnlyIfGone` is for one attempt: a host that the first attempt
failed to move is later shown again only by reading the cloud anew. How two
servers share the fate of a flow is checked by `server_migration`; liveness over
repeated runs needs one server only.

The inventories of `command_line` are two families. One varies the tenants of the
second server, its users, the users' default tenants and every set of grants; the
other which images the servers and the operator use, which are private, and which
share a kernel. Both servers are on one network and share a flavor, one has a
floating ip; a hidden role and pumphouse's own user are always there. There is one
volume, since volumes share nothing, and one id that nobody knows. Two ids are
enough for the flows of two ids to meet in every order, to be the same id, and
for a user to come with the other one. `Letters = 6` instead of 25 lets a dump run
out of letters with plans of this size.

`resources` has a world for each way in which two flows can meet: the same
identity, users at home, away and without a home, a user or a group that is there
before, a group with a rule that is refused or has another group for its source,
networks whose fields nova keeps or not, a flavor and an address. Two
faults let a repetition fail as well. In `images`, the sizes are 0, 1 and 70
bytes with chunks of 1, 6 and 23, so that chunks are smaller, larger and no
divisor of a tenth. `requests` has a third request for what the first two leave
behind; the fault is one, of any kind, since giving up a wait is free and refused
requests need none. The configurations of `reset` differ in each respect that
`management.py` branches on, and its worlds in what somebody else has left in the
cloud, a volume that cinder may be deleting among it; two resets are needed for the second to meet the servers of the first.
`listing` has one server: what a view lacks is about one server, one address or the
host, the tasks of several servers do not wait for each other, and
`CloudListingProofs` proves the safety properties for any number. The second view
is asked for after events of the first, and forgets them; the second fault can
meet what the first has left.

`MaxRuns`, `MaxIds`, `MaxFaults`, `MaxErrors`, `MaxResets`, `MaxListings` and
`Letters` are the only bounds in a guard. `CHECK_DEADLOCK FALSE` appears where the operator stops
after `MaxRuns` runs, or all requests are answered, and nothing is left to do.

**Fairness.** `WF_vars(FlowStep)`: the engine's threads and the tasks go on. It is
justified because every task either makes blocking calls with an answer or an
error, or polls with a timeout (`utils.py:76`), and the engine runs whatever is
ready. Nothing is assumed of nova, nor of the operator. In the same way each flow
or greenlet goes on in `ConcurrentRequests`, `CloudClients` and `ImageTransfer`.
Two modules have one assumption more. `Reassignment` has `WF_vars(FuelStep)`: the
iteration over a deployment has no timeout, so that a reassignment ends can only
be said if Fuel ends every deployment, well or badly. Discovery of the node and
the registration of its service are not assumed. In `EnsureResource` the operator
repeats what failed, which is what the property `Repeatable` is about. In
`CloudListing` only a task that was begun goes on: it sends its event, and polling
a copy ends (`wait_for`). That a flow begins its next task is not assumed.

**What the code does not promise.** Some properties name the exact limit of what a
document or a test expects:
- `doc/RESOURCES.md:221` begins the path of a server with suspending it "once all
  meta-resources for server are copied". The synchronization point at
  `server.py:234` waits for the flavor and the image only; user, tenant and nics
  are requirements of the boot. A server can be down while they are copied, and
  is then resumed if copying them fails (`Needs` in `ServerMigration`).
- `doc/RESOURCES.md:54` wants migration to be repeatable. `BootServerFromImage`
  has no revert and looks for no earlier copy: `CopiesCounted` says how many
  copies there can be, one more than rollbacks that woke the server. For what
  servers depend on, `Repeatable` says that it holds, and `Hopeless` when not: for
  one, a security group with a rule that has another group for its source can
  never be copied (`secgroup.py:71`). And a rule that the destination refuses is
  left out in silence (`secgroup.py:72`); `DoneMeansCopied` promises the others.
- `tests/functional/case_reassign.js:58` and `:72` listen for the deletion of the
  host in the source and then for its creation in the destination. No task of the
  destination waits for the one that tells of the deletion (`node.py:357`);
  `HiddenOnlyIfGone` says what the UI can rely on: one direction only, since a
  service that was deleted with an error for an answer leaves its host shown.
- A reassignment can succeed with the node in error: a deployment that ends in
  error between two polls ends the iteration like a success, and nova-compute may
  report all the same (`ServingWhenDone`).
- The wait for the source's deployment has no timeout and also waits for its
  unfinished nodes. If the client first reads the node when it is on its way out,
  the wiped node is never ready again, and the wait does not end
  (`WaitsForever`, which `ReassignmentEnds` excepts).
- `README.md:156` has `images` replicate images. For a private one the flow
  requires a user under the id of the tenant that owns it (`image.py:163`), and
  nobody plans that: `OnlyKnownFlaws`, which also names the default tenant of a
  user from elsewhere (`identity.py:61`), and the servers and kernels that are
  planned twice. `CircleOnlyByDefaultTenant` says that the flows of two ids wait
  for each other in one case only.
- `README.md:157-158` has `identity` replicate users and roles "with assignment". A
  user that came with one tenant is skipped for the next (`identity.py:100`), and
  so are its roles there: of two ids, `AssignmentsKept` promises the assignments
  of users that did not come with an earlier one, and of nobody else.
- The help of `--tenant` speaks of a tenant that is "moved to destination cloud
  with all it's resources" (`pump.py:107-109`). For the class `resources` the filter
  finds no ids (`pump.py:218`), nothing is planned, and the empty flow is refused;
  `AskedForIsDone` says that such a command never reports success.
- Of several ids those that the source does not know are passed over
  (`pump.py:160`, `:169`), but for the class `identity`, where keystone raises;
  `AskedForIsDone` is about the others. That a filter which means nothing to a
  class, or ids that all are unknown, do not end in a success is owed to taskflow.
- `migrate --setup` raises in any case, because `setup` is called without its
  first argument (`pump.py:311`), and the class that stands when none is given is
  not among those that can be (`pump.py:94`).
- The view of the clouds can show a server as being there for good, although the
  event of its deletion is over, when it is listed while nova is deleting it
  (`ghosts` in `ViewCatchesUp`). It lacks a copy that nova has not placed or that
  the flow has left behind, and whatever a request changed that was answered with
  an error, since the task then stops before its event (`untold`).
- A reset that reports no failure may leave a volume that cinder was asked to
  delete and has not deleted (`deleting` in `NoLeftovers`), and the next reset may
  fail for it (`ResetFailuresExplained`).
- Two greenlets that meet no client at the same time make two
  (`raced` in `OneIdentity`).

**Disagreements that runs show.** Two runs are violated, each by what the code
does against what the repository says of it:
- `CleanupCleans`: `README.md:166` says to run `cleanup` in order to clean a cloud
  up. The events of the command line format a text with three placeholders with
  two arguments (`pump.py:281`), so `pump cleanup` ends with an exception at the
  first resource that it has removed. The web API has other events and is not
  affected.
- `HostIsCleared`: `tests/functional/case_evaculate.js:77` assures, after an
  evacuation, that the host "is clean and all servers live migrated from it".
  `EvacuateServer` waits for `ACTIVE` alone (`server.py:55`), which a server also is
  before nova begins to migrate it, and after nova has given that up.

## Proofs

Theorems hold for every value of the constants: any set of servers, resources and
floating ips, any needs, any inventory, any number of ids, and, but for
`ContractKept`, any number of runs. Every invariant that a passing
run checks is a theorem, and so are the action property and the refinement; only
liveness is left to TLC.

- `TaskFlowProofs`: `FlowTypeCorrect` and `DependenciesCorrect`, by one lemma each
  about a step (`FlowTypeStep`, `DependenciesStep`). `DependenciesHold` is its own
  inductive invariant, given types: its first conjunct covers execution, the
  second reversion, and each needs the other when a task fails.
- `ServerMigrationProofs`: a step of the migration is a step of the engine or
  leaves it alone (`EngineStep`), so the engine's invariants carry over
  (`EngineInvariants`), which is `OrderIsKept`. With `DependenciesHold`, a task of a server that stands
  implies what has succeeded before it in its chain (`ChainStands`). None of the
  properties is inductive by itself, since none mentions what a *finished* task
  guarantees. `IInv` adds that: `Suspension` (after the suspend task the server is
  suspended until the terminate task begins), `Copy` and `FloatingIp` (the same
  for boot and floating ips, in the current run), `FirstRun` and `Announced` (the
  UI), and `FlowShape` (a flow has the whole chain of a server or none of it).
  The theorems `TypeCorrect`, `NoServerIsLost`, `SleepsWhileCopied`,
  `OneActiveAtATime`, `RevertRestores` and `UnavailableShown` follow from
  `Invariant`. `ContractKept` is the refinement of `Handover`: each kind of step is
  a step of the contract or a stutter. It needs one fact more,
  `WokenAfterFailure`: a server is resumed only after the run has failed, which is
  when the contract counts the attempt as aborted. A new run clears `aborted`,
  while an original that the last one resumed may still be on its way up, so the
  theorem assumes `MaxRuns = 1`, as the run that checks the refinement does.
- `EvacuationProofs`: same plan, with the smaller invariant `ServiceFollowsTask`.
  `StaysBlocked` is where it meets the order of the dependencies; `OutcomeCorrect`
  is the other theorem. Where the servers are is promised by no theorem: the run
  `host_is_cleared` shows that it cannot be.
- `ReassignmentProofs`: the invariant follows the node. `Location` says how Fuel,
  nova and the deployments agree on where it is, `Finished` what each finished task
  guarantees: those before the assignment until it is carried out, those after it
  for the rest of the run. `WhenDiscovered`, `WhenAssigned` and `WhenDeployed` are
  the points where the order of the tasks is used; without it neither part is
  inductive, because a wait that has succeeded says nothing about the node unless
  nothing has moved it since. `OnlyFreeNodesAssigned` (an action property),
  `SettingsComeFirst` and `ServesWhenDone` follow. `OnlyGoneIsHidden` is about the
  first attempt and rests on `FirstRun`, which relates the record of the service,
  what was deleted and what is shown to the three tasks that change them
  (`Deleting`).
- `MigrationPlanProofs`: the properties are about complete plans, and only their
  parts for the ids *taken so far* can be inductive. `PlanInv` says them:
  `PlannedServers`, `PlannedUsers`, `PlannedImages` (what is in the plan, in terms
  of the ids), `Stored` (a key in the store stands for something planned, which is
  why a builder may skip it), `Supplied` (all that is required is in the plan, but
  for `Gap`), `TwiceAre` (exactly `Duplicates` are there twice) and `Identities`.
  There is a lemma for what each builder adds, and one step of the planning is one
  builder. When no id is left, this is `OnlyKnownFlaws` (`PlansAreComplete`) and
  `AssignmentsKept` (`AssignmentsAreKept`); `RolesKept` is a part of it.
  `CirclesAreKnown` needs to know *whose* flow brings a name: `CircleInv` says
  that a required name comes from the same flow, from one whose id was given
  before (`Before`), or is the default tenant of a user of the flow (`Comes`), and
  that what was settled for a server stays when its tenant is given again
  (`Settled`). In a circle, the flow whose id was given first waits for one that
  was given later, and only the default tenant is left as the reason.
  `PromisesAreKept` is about the whole command: `Main` is what `main` knows in
  each phase, and `CommandInv` joins it with `PlanInv`, which the phases that do
  not plan leave alone. It covers all four classes and ids the source does not
  know, and needs that a flow without tasks is not run.
- `ResourceProofs`, find-or-create: `EnsureInv` says for each task that what it has
  found or made is there (`Found`), that what a flow that runs alone did not find
  is not there (`Sought`), that a group has all accepted rules anybody has gone
  through, none of them with a group for its source (`AllRules`), and that whoever was created is a member at home (`Members`), which
  is what a group's restricted user needs. `DoneMeansCopied` is a consequence
  (`CopiesAreThere`); `FailuresExplained` is a part (`Explained`), each cause
  being settled by the part for the step that fails (`FailuresHaveReasons`). Steps
  are sorted into those that only work on one resource and the few others
  (`KindsOfEnsureSteps`).
- `ResourceProofs`, transfers: `TransferInv` has the reporter (`Metered`, from
  `TenthsBounds` about tenths of a size, for every size and chunk), what is handed
  on (`Handed`), what was done before (`NeedsDone`), and why data is not copied a
  second time: while a transfer copies, nobody else has the same data or copies it,
  unless it was raced (`Exclusive`). `TransfersAreComplete`, `CopiesAreOnce` and
  `ReporterKeepsUp` follow.
- `WebApiProofs`, requests: `Local` is what a request knows of its own flow and
  copy. About the others it knows only what the status of the server tells:
  `Deleted`, `Woken` and `Counted` relate that status to the address, to the
  rollbacks and to the number of copies. `Counted` counts, besides the copies,
  the requests whose suspension was accepted and that may still boot one
  (`Sleepers`), since the rule that holds for copies alone is not inductive;
  `StepKinds` sorts the steps into those that put the server to sleep, wake it,
  or do neither. `NoServerIsLost`, `CopiesAreCounted`, `OnlyOthersWake`.
- `WebApiProofs`, clients: `OneMaker` is `OneIdentity` with what it rests on: while
  a greenlet makes the first client, nobody else does and none is stored
  (`IdentityIsKept`).
- `WebApiProofs`, resets: for `Management` inside `CloudClients`, whose greenlets
  connect, restart and count errors beside it. `Leftovers` follows the stages: what
  cleanup has passed is gone, or is a volume in the hands of cinder, and setup makes one kind after the other, so that
  `NoLeftovers` is what it says at the end (`ResetsLeaveNothing`). For the causes
  of failures, `Planned` is what a server refers to and `FirstReset` what cannot be
  there yet; both with `Places` make `ResetFailuresExplained` inductive
  (`FailuresHaveCauses`).
- `CloudListingProofs`: each list is right from the moment it is fetched
  (`Passed`), in the sense of `SourceShown`, `CopiesShown`, `FipsShown`,
  `TenantShown` and `HostShown`; before, the view has nothing of it (`Fresh`).
  `Life` says that a server leaves the source after its copy was made, which with
  the order of the lists gives `SomewhereShown`. A task that fails after its
  request moves what it would have told from `Coming` to `untold`, so each part has
  to be kept by the failures as well. `AllServersListed` and `ViewIsComplete`
  follow.

**Assumptions.** Most type the constants and say that a bound is a number
(`MigrationAssumption`, `EvacuationAssumption`, `ReassignmentAssumption`,
`TransferAssumption`, `ManagementAssumption`, `FaultAssumption`). What the others
say of the clouds or the library:
- `PlanAssumption`: ids of users and tenants are distinct, `"public"` and `"none"`
  are none of them, and an id the source does not know is nothing's, since keystone makes ids at random, and a source cloud is an `Inventory` (see
  there about kernels; the proof of `OnlyKnownFlaws` is what asked for it).
- `CommandAssumption`: images and volumes are finitely many, as clouds list them,
  and `None` is no exit code.
- `EnsureAssumption`: the flow that copies a security group copies the user it is
  handled as. `secgroup.py:101-105` requires that user, and taskflow runs no flow
  in which nothing provides it.
- `ManagementAssumption`: only the command line skips cleanup, and it logs.
- `RequestAssumption`: the requests are finitely many, for counting, and `Nobody`
  is none of them. `GreenletAssumption`: a request resets or only connects.
- `ListingAssumption`: no server has the id `"host"` that stands for the host.

Nothing is assumed of `Task` and `Before`: the theorems about the engine hold also
for a relation with cycles.

`TypeOK` is a theorem for `TaskFlow`, `ServerMigration`, `Evacuation`,
`Reassignment`, `ConcurrentRequests`, `EnsureResource` and `ImageTransfer`, and a
part of `ResetInv` for `Management`; the other modules state it for the reader, and
the runs spend their properties on what is less obvious.

**Only model-checked.** The liveness properties (`NotParkedForever`,
`EvacuationEnds`, `ReassignmentEnds`, `Repeatable`, `TransferEnds`,
`WokenByRepetition`, `ResetsEnd`, `ViewSettles`), which are outside what the prover handles, and
the type correctness of `MigrationPlan`, `CommandLine`, `CloudClients` and
`CloudListing` beyond what the invariants need. That the contract of `Handover`
survives a repeated run is neither checked nor proved, because the contract as it
stands does not say what an earlier run leaves behind.

## Plan

What is left, in this order:

1. A contract like `Handover` for any number of runs, with what a run that was
   given up still does in it, checked by `server_migration_repeated` and proved
   without `MaxRuns = 1`.
2. Type correctness of the four modules named above, as theorems.
3. The relation between `ConcurrentRequests` and `ServerMigration`, which so far is
   only described: one request alone should be a run of a server's chain.

## Not modelled

- `network/neutron`: the tasks are not registered as a plugin, so nothing adds
  them to a flow, and they could not run: they read attributes of lists of
  dictionaries and call each other with arguments that do not fit.
- `fake.py`: a test double; the driver cannot be built as it is.
- `checks.py` and `tasks/check.py` compare listings and are not run.
- `exceptions.py` only declares.
- `_vendor/fuelclient` is third-party code, of which only the iteration over a
  deployment is modelled, because a task runs in it.
- `migrate_passwords`, `DeleteImage` and `get_all_resource_ids`, which nobody
  calls.
- HTTP headers, static files, the transport of events, logging, `--fake`.
- Two evacuations of one host at the same time, which the web API does not exclude
  (`handlers.py:299`): the rollback of one enables the service under the other.
- The other nodes of an environment of Fuel, which a deployment waits for as well.
- A server that is booted on a host after its servers were listed for an
  evacuation and before its service is disabled (`evacuation.py:29`): `Evacuation`
  takes it as a server that is not in the flow, and promises nothing of it.

That taskflow refuses a flow with a name nobody provides, a name provided twice or
sub-flows in a circle is taken from the library (`Inconsistent`, `Waits`, `Circle`). Texts of
messages, names made by `format` and the fields of the records are abstracted: a
name is the pair of its kind and its object.
