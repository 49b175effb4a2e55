--------------------------- MODULE EnsureResource ---------------------------
(***************************************************************************)
(* The tasks that copy what servers depend on: tenants, users, roles and   *)
(* their assignments, security groups, flavors, networks of nova and       *)
(* floating ips.  Each looks its resource up in the destination by name    *)
(* and creates it when it is not there, in two requests.                   *)
(*                                                                         *)
(* Several flows run side by side and share resources, e.g. migrations of  *)
(* two tenants, or the same migration asked for twice.  Requests fail,     *)
(* also after they were carried out, and the program may be restarted in   *)
(* the middle, which forgets its flows.  The operator repeats a migration  *)
(* that did not succeed; doc/RESOURCES.md:54 requires that this works.     *)
(*                                                                         *)
(* A resource is a pair of its kind and its name in the source.            *)
(***************************************************************************)
EXTENDS Naturals

CONSTANTS
    Flow,        \* migrations
    Tenant, User, Role, Group,
    Thing,       \* flavors, networks and floating ips, as resources
    World,       \* situations to explore, see WorldType
    Rules,       \* number of rules of a security group in the source
    MaxFaults    \* bound: requests that fail, and restarts

Member == "_member_"    \* the role keystone gives a user in its own tenant
NoTenant == "no tenant"

Resource ==
    ({"tenant"} \X Tenant) \cup ({"user"} \X User) \cup ({"role"} \X Role)
    \cup ({"grant"} \X (User \X (Role \cup {Member}) \X Tenant))
    \cup ({"secgroup"} \X Group) \cup Thing

(* home: the default tenant of each user.  owner: user and tenant of the   *)
(* server a security group is copied for.  plan: what each flow copies.    *)
(* there: what the destination has already; a user among it has a password *)
(* and memberships of its own.  kept: does nova take over every field of a *)
(* network?  rule: the rules of each group; one whose source is a group    *)
(* has no range of addresses, and one may be refused by the destination.   *)
WorldType ==
    [home: [User -> Tenant \cup {NoTenant}], owner: [Group -> User \X Tenant],
     plan: [Flow -> SUBSET Resource], there: SUBSET Resource, kept: BOOLEAN,
     rule: [Group -> [1..Rules -> {"plain", "sourced", "refused"}]]]

ASSUME EnsureAssumption ==
    /\ World \subseteq WorldType
    /\ Rules \in Nat
    /\ MaxFaults \in Nat
    /\ Member \notin Role
    /\ NoTenant \notin Tenant
    \* The engine refuses a flow in which nothing provides what a task needs.
    /\ \A w \in World, f \in Flow, g \in Group :
           <<"secgroup", g>> \in w.plan[f] => <<"user", w.owner[g][1]>> \in w.plan[f]
    /\ Thing \subseteq {"flavor", "network", "fip"} \X STRING

VARIABLES
    world,      \* the situation, which does not change
    phase,      \* each flow: "off", "on", "failed" or "done"
    step,       \* how far each task of each flow is
    why,        \* why a flow fails, "none" as long as it does not
    alone,      \* no other flow has run since this one was started
    cloud,      \* the resources of the destination
    rules,      \* which of the source's rules each of its groups has
    added,      \* how many rules of a group a flow has gone through
    shown,      \* what "create" events were emitted for
    faults

vars == <<world, phase, step, why, alone, cloud, rules, added, shown, faults>>

Plan(f) == world.plan[f]

Step == {"idle", "listed", "missing", "rules", "check", "done", "failed"}
Cause == {"none", "fault", "taken", "denied", "orphan", "sourced", "differs"}

TypeOK ==
    /\ world \in World
    /\ phase \in [Flow -> {"off", "on", "failed", "done"}]
    /\ step \in [Flow -> [Resource -> Step]]
    /\ why \in [Flow -> Cause]
    /\ alone \in [Flow -> BOOLEAN]
    /\ cloud \subseteq Resource
    /\ rules \in [Group -> SUBSET (1..Rules)]
    /\ added \in [Flow -> [Group -> 0..Rules]]
    /\ shown \subseteq Resource
    /\ faults \in 0..MaxFaults

Idle == [r \in Resource |-> "idle"]

Init ==
    /\ world \in World
    /\ phase = [f \in Flow |-> "off"]
    /\ step = [f \in Flow |-> Idle]
    /\ why = [f \in Flow |-> "none"]
    /\ alone = [f \in Flow |-> TRUE]
    /\ cloud = world.there
    /\ rules = [g \in Group |-> {}]
    /\ added = [f \in Flow |-> [g \in Group |-> 0]]
    /\ shown = {}
    /\ faults = 0

-----------------------------------------------------------------------------
(* Mutant: a security group does not wait for its user.                    *)
RequiresNoUser(r) ==
    {q \in Resource :
        \/ r[1] = "user" /\ q = <<"tenant", world.home[r[2]]>>
        \/ r[1] = "secgroup" /\ q = <<"tenant", world.owner[r[2]][2]>>
        \/ r[1] = "network" /\ q[1] = "tenant"}

(* What the tasks of a flow have to do with each other: the names a task   *)
(* rebinds.  The assignment of a role needs the copies of its user, role   *)
(* and tenant; a security group needs its tenant and user, not the user's  *)
(* assignment.                                                             *)
Requires(r) ==
    {q \in Resource :
        \/ /\ r[1] = "user"
           /\ q = <<"tenant", world.home[r[2]]>>
        \/ /\ r[1] = "grant"
           /\ q \in {<<"user", r[2][1]>>, <<"role", r[2][2]>>,
                     <<"tenant", r[2][3]>>}
        \/ /\ r[1] = "secgroup"
           /\ q \in {<<"user", world.owner[r[2]][1]>>,
                     <<"tenant", world.owner[r[2]][2]>>}
        \/ /\ r[1] = "network"
           /\ q[1] = "tenant"}

Wanted(f, r) ==
    /\ phase[f] = "on"
    /\ r \in Plan(f)
    /\ \A q \in Requires(r) \cap Plan(f) : step[f][q] = "done"

(* A task that is to be executed now.                                      *)
Ready(f, r) ==
    /\ Wanted(f, r)
    /\ why[f] = "none"
    /\ step[f][r] = "idle"

(* A task inside its execute; it goes on when another task has failed.     *)
Underway(f, r) ==
    \/ step[f][r] \in {"rules", "check"}
    \/ step[f][r] = "missing" /\ r[1] # "network"

Go(f, r, s) ==
    /\ step' = [step EXCEPT ![f] = [@ EXCEPT ![r] = s]]
    /\ UNCHANGED <<world, phase, why, alone, faults>>

Fails(f, r, cause) ==
    /\ step' = [step EXCEPT ![f] = [@ EXCEPT ![r] = "failed"]]
    /\ why' = [why EXCEPT ![f] = IF @ = "none" THEN cause ELSE @]
    /\ UNCHANGED <<world, phase, alone, faults>>

(* keystone: a user that is created in a tenant is a member of it.         *)
Made(r) ==
    {r} \cup {q \in Resource :
                 r[1] = "user" /\ q = <<"grant", <<r[2], Member, world.home[r[2]]>>>>}

(* EnsureOrphanUser does not return what EnsureUser does, so that the      *)
(* tasks that work with the user get None.                                 *)
Orphaned(r) ==
    LET u == IF r[1] = "grant" THEN r[2][1] ELSE world.owner[r[2]][1] IN
    world.home[u] = NoTenant

(* self.cloud.restrict(username, password="default", tenant_name).         *)
Admitted(u, t) ==
    /\ <<"user", u>> \notin world.there
    /\ \E ro \in Role \cup {Member} : <<"grant", <<u, ro, t>>>> \in cloud

-----------------------------------------------------------------------------
(* The first request of a task.                                            *)
Look(f, r) ==
    /\ Ready(f, r)
    /\ Go(f, r, IF r \in cloud THEN "done" ELSE "missing")
    /\ UNCHANGED <<cloud, rules, added, shown>>

(* The second request.  The clouds refuse a name that is taken, and none   *)
(* of the tasks expects that.                                              *)
Create(f, r, next) ==
    /\ step[f][r] = "missing"
    /\ \/ /\ r \in cloud
          /\ Fails(f, r, "taken")
          /\ UNCHANGED <<cloud, shown>>
       \/ /\ r \notin cloud
          /\ Go(f, r, next)
          /\ cloud' = cloud \cup Made(r)
          /\ shown' = IF r[1] \in {"network", "fip"} THEN shown ELSE shown \cup {r}
    /\ UNCHANGED <<rules, added>>

FindOrCreate(f, r) == Look(f, r) \/ Create(f, r, "done")

EnsureTenant(f) == \E t \in Tenant : FindOrCreate(f, <<"tenant", t>>)

EnsureUser(f) == \E u \in User : FindOrCreate(f, <<"user", u>>)

EnsureRole(f) == \E ro \in Role : FindOrCreate(f, <<"role", ro>>)

EnsureFlavor(f) ==
    \E r \in Thing : r[1] = "flavor" /\ FindOrCreate(f, r)

(* EnsureFloatingIPBulk looks again for what it has created, before it     *)
(* tells of it.                                                            *)
EnsureFloatingIPBulk(f) ==
    \E r \in Thing :
        /\ r[1] = "fip"
        /\ \/ Look(f, r)
           \/ Create(f, r, "check")
           \/ /\ step[f][r] = "check"
              /\ Go(f, r, "done")
              /\ shown' = shown \cup {r}
              /\ UNCHANGED <<cloud, rules, added>>

(* A user that has the role already is as good.                            *)
EnsureUserRole(f) ==
    \E g \in User \X Role \X Tenant :
        LET r == <<"grant", <<g[1], g[2], g[3]>>>> IN
        /\ Ready(f, r)
        /\ \/ Orphaned(r) /\ Fails(f, r, "orphan") /\ UNCHANGED cloud
           \/ ~Orphaned(r) /\ Go(f, r, "done") /\ cloud' = cloud \cup {r}
        /\ UNCHANGED <<rules, added, shown>>

(* Mutant: no rules are added to a group that was there.                   *)
FindSecGroupOnly(f, r) ==
    /\ Ready(f, r)
    /\ \/ Orphaned(r) /\ Fails(f, r, "orphan")
       \/ /\ ~Orphaned(r)
          /\ Go(f, r, IF r \in cloud THEN "done" ELSE "missing")
    /\ UNCHANGED <<cloud, rules, added, shown>>

(* EnsureSecGroup looks for the group and creates it with the rights of    *)
(* the user in the tenant, ...                                             *)
FindSecGroup(f, r) ==
    LET u == world.owner[r[2]][1]
        t == world.owner[r[2]][2]
    IN
    /\ Ready(f, r)
    /\ \/ Orphaned(r) /\ Fails(f, r, "orphan")
       \/ ~Orphaned(r) /\ ~Admitted(u, t) /\ Fails(f, r, "denied")
       \/ /\ ~Orphaned(r) /\ Admitted(u, t)
          /\ Go(f, r, IF r \in cloud THEN "rules" ELSE "missing")
    /\ UNCHANGED <<cloud, rules, added, shown>>

(* The rules of a group that the destination takes, and the one of them    *)
(* that is asked for next.                                                 *)
Accepted(g) == {n \in 1..Rules : world.rule[g][n] = "plain"}

NextRule(f, g) == {added[f][g] + 1} \cap Accepted(g)

(* A rule whose source is a group has an empty ip_range.                   *)
Sourced(g) == \E n \in 1..Rules : world.rule[g][n] = "sourced"

(* Mutant: the task gives up at a rule that is refused.                    *)
AddRuleOnce(f, r) ==
    LET g == r[2] IN
    /\ step[f][r] = "rules"
    /\ \/ /\ added[f][g] < Rules
          /\ NextRule(f, g) # {} /\ NextRule(f, g) \cap rules[g] = {}
          /\ added' = [added EXCEPT ![f][g] = @ + 1]
          /\ rules' = [rules EXCEPT ![g] = @ \cup NextRule(f, g)]
          /\ UNCHANGED <<world, phase, step, why, alone, faults>>
       \/ /\ added[f][g] < Rules
          /\ NextRule(f, g) \subseteq rules[g]
          /\ Fails(f, r, "fault")
          /\ UNCHANGED <<added, rules>>
       \/ /\ added[f][g] = Rules
          /\ Go(f, r, "done")
          /\ UNCHANGED <<added, rules>>
    /\ UNCHANGED <<cloud, shown>>

(* ... and adds the rules one by one with its own.  A rule that is refused *)
(* is passed over, as it may be there already; reading one whose source is *)
(* a group raises KeyError.                                                *)
AddRule(f, r) ==
    LET g == r[2] IN
    /\ step[f][r] = "rules"
    /\ \/ /\ added[f][g] < Rules /\ world.rule[g][added[f][g] + 1] # "sourced"
          /\ added' = [added EXCEPT ![f][g] = @ + 1]
          /\ rules' = [rules EXCEPT ![g] = @ \cup NextRule(f, g)]
          /\ UNCHANGED <<world, phase, step, why, alone, faults>>
       \/ /\ added[f][g] < Rules /\ world.rule[g][added[f][g] + 1] = "sourced"
          /\ Fails(f, r, "sourced")
          /\ UNCHANGED <<added, rules>>
       \/ /\ added[f][g] = Rules
          /\ Go(f, r, "done")
          /\ UNCHANGED <<added, rules>>
    /\ UNCHANGED <<cloud, shown>>

EnsureSecGroup(f) ==
    \E g \in Group :
        LET r == <<"secgroup", g>> IN
        FindSecGroup(f, r) \/ Create(f, r, "rules") \/ AddRule(f, r)

Networks(f) == {r \in Plan(f) : r[1] = "network"}

(* RetrieveAllNetworks: the networks are listed once for the whole flow.   *)
RetrieveAllNetworks(f) ==
    /\ phase[f] = "on"
    /\ why[f] = "none"
    /\ Networks(f) # {}
    /\ \A r \in Networks(f) : step[f][r] = "idle"
    /\ step' = [step EXCEPT ![f] = [r \in Resource |->
                   IF r \notin Networks(f) THEN @[r]
                   ELSE IF r \in cloud THEN "listed" ELSE "missing"]]
    /\ UNCHANGED <<world, phase, why, alone, cloud, rules, added, shown, faults>>

(* One that was listed is compared with the original field by field.       *)
EnsureNetwork(f) ==
    \E r \in Networks(f) :
        /\ Wanted(f, r)
        /\ why[f] = "none"
        /\ \/ /\ step[f][r] = "listed"
              /\ IF world.kept THEN Go(f, r, "done") ELSE Fails(f, r, "differs")
              /\ UNCHANGED <<cloud, rules, added, shown>>
           \/ Create(f, r, "done")

-----------------------------------------------------------------------------
(* What the request changes that a task has to make now.                   *)
Effect(f, r) ==
    IF step[f][r] = "missing" \/ (r[1] = "grant" /\ ~Orphaned(r))
    THEN Made(r) ELSE {}

(* The group whose rules are being added gets one more.                    *)
WithNextRule(f, r) ==
    [g \in Group |-> IF step[f][r] = "rules" /\ r[2] = g
                     THEN rules[g] \cup NextRule(f, g) ELSE rules[g]]

(* A request is answered with an error, although it may be carried out.    *)
(* Any other exception in a task is as good.                               *)
Fault(f, r) ==
    /\ faults < MaxFaults
    /\ \/ Ready(f, r) /\ r[1] # "network"
       \/ Underway(f, r)
       \/ Wanted(f, r) /\ why[f] = "none" /\ step[f][r] \in {"listed", "missing"}
    /\ cloud' \in {cloud, cloud \cup Effect(f, r)}
    /\ rules' \in {rules, WithNextRule(f, r)}
    /\ step' = [step EXCEPT ![f] = [@ EXCEPT ![r] = "failed"]]
    /\ why' = [why EXCEPT ![f] = IF @ = "none" THEN "fault" ELSE @]
    /\ faults' = faults + 1
    /\ UNCHANGED <<world, phase, alone, added, shown>>

(* The program is restarted and forgets its flows.                         *)
Crash ==
    /\ faults < MaxFaults
    /\ \E f \in Flow : phase[f] = "on"
    /\ phase' = [f \in Flow |-> IF phase[f] = "on" THEN "off" ELSE phase[f]]
    /\ step' = [f \in Flow |-> IF phase[f] = "on" THEN Idle ELSE step[f]]
    /\ why' = [f \in Flow |-> IF phase[f] = "on" THEN "none" ELSE why[f]]
    /\ faults' = faults + 1
    /\ UNCHANGED <<world, alone, cloud, rules, added, shown>>

(* The operator asks for a migration, or repeats one that did not succeed. *)
Start(f) ==
    LET others == {g \in Flow \ {f} : phase[g] = "on"} IN
    /\ phase[f] \in {"off", "failed"}
    /\ phase' = [phase EXCEPT ![f] = "on"]
    /\ step' = [step EXCEPT ![f] = Idle]
    /\ why' = [why EXCEPT ![f] = "none"]
    /\ added' = [added EXCEPT ![f] = [g \in Group |-> 0]]
    /\ alone' = [g \in Flow |-> IF g = f THEN others = {}
                                ELSE alone[g] /\ g \notin others]
    /\ UNCHANGED <<world, cloud, rules, shown, faults>>

(* run_flow returns, or raises once no task is being executed; what the    *)
(* tasks have provided is gone then.                                       *)
Finish(f) ==
    /\ phase[f] = "on"
    /\ \/ /\ \A r \in Plan(f) : step[f][r] = "done"
          /\ phase' = [phase EXCEPT ![f] = "done"]
          /\ UNCHANGED step
       \/ /\ why[f] # "none"
          /\ \A r \in Plan(f) : ~Underway(f, r)
          /\ phase' = [phase EXCEPT ![f] = "failed"]
          /\ step' = [step EXCEPT ![f] = Idle]
    /\ UNCHANGED <<world, why, alone, cloud, rules, added, shown, faults>>

Progress(f) ==
    \/ EnsureTenant(f)
    \/ EnsureUser(f)
    \/ EnsureRole(f)
    \/ EnsureUserRole(f)
    \/ EnsureSecGroup(f)
    \/ EnsureFlavor(f)
    \/ EnsureFloatingIPBulk(f)
    \/ RetrieveAllNetworks(f)
    \/ EnsureNetwork(f)
    \/ Start(f)
    \/ Finish(f)

Next ==
    \/ \E f \in Flow : Progress(f)
    \/ \E f \in Flow : \E r \in Plan(f) : Fault(f, r)
    \/ Crash

(* Every request is answered, with an error if with nothing else, so that  *)
(* flows go on; and the operator does not give up.                         *)
Spec == Init /\ [][Next]_vars /\ \A f \in Flow : WF_vars(Progress(f))

-----------------------------------------------------------------------------
(* Only what is copied is reported as done, with all the rules of a group  *)
(* that the destination takes, whoever has created it and however often    *)
(* the flow was begun.  The next tasks, and in the end the server, are     *)
(* given it.  (A rule that is refused is left out in silence.)             *)
DoneMeansCopied ==
    \A f \in Flow, r \in Resource :
        (phase[f] \in {"on", "done"} /\ step[f][r] = "done") =>
            /\ r \in cloud
            /\ r[1] = "secgroup" => rules[r[2]] = Accepted(r[2]) /\ ~Sourced(r[2])

(* A flow fails for few reasons besides requests that fail.  A name is     *)
(* taken only if another flow ran beside it (flavor.py:38); a security     *)
(* group is denied only to a user that was there before, or away from the  *)
(* tenant it is at home in (secgroup.py:37); a user without a default      *)
(* tenant stops whatever depends on it (user.py:72); a rule stops it that  *)
(* has another group for its source (secgroup.py:71); and a network        *)
(* differs only if nova does not keep its fields (network.py:57).          *)
FailuresExplained ==
    \A f \in Flow :
        /\ why[f] = "taken" => ~alone[f]
        /\ why[f] = "denied" =>
               \E g \in Group : /\ <<"secgroup", g>> \in Plan(f)
                                /\ \/ <<"user", world.owner[g][1]>> \in world.there
                                   \/ world.home[world.owner[g][1]] # world.owner[g][2]
        /\ why[f] = "orphan" => \E r \in Plan(f) : r[1] \in {"grant", "secgroup"} /\ Orphaned(r)
        /\ why[f] = "sourced" => \E g \in Group : <<"secgroup", g>> \in Plan(f) /\ Sourced(g)
        /\ why[f] = "differs" => ~world.kept
        /\ why[f] = "fault" => faults > 0

(* What keeps a flow from ever succeeding.                                 *)
Hopeless(f) ==
    \/ \E r \in Plan(f) : r[1] \in {"grant", "secgroup"} /\ Orphaned(r)
    \/ ~world.kept /\ Networks(f) # {}
    \/ \E g \in Group :
           /\ <<"secgroup", g>> \in Plan(f)
           /\ \/ <<"user", world.owner[g][1]>> \in world.there
              \/ world.home[world.owner[g][1]] # world.owner[g][2]
              \/ Sourced(g)

(* doc/RESOURCES.md:54: a migration can be repeated until it succeeds,     *)
(* whatever failed, wherever it was cut off and what else was being        *)
(* migrated, unless what it copies keeps it from that for good.            *)
Repeatable == \A f \in Flow : Hopeless(f) \/ <>(phase[f] = "done")
=============================================================================
