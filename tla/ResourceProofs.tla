--------------------------- MODULE ResourceProofs ---------------------------
(***************************************************************************)
(* Theorems about what servers depend on: the resources that are looked up *)
(* and created by name, EnsureResource, and the data of images, snapshots  *)
(* and volumes, ImageTransfer.  Both are proved for any number of flows    *)
(* and transfers that run side by side, with any number of repetitions and *)
(* failures.                                                               *)
(***************************************************************************)
EXTENDS EnsureResource, ImageTransfer, TLAPS

-----------------------------------------------------------------------------
(* The inductive invariant.                                                *)

(* Only what a flow plans is begun, and nothing is under way in a flow     *)
(* that has ended.                                                         *)
Begun(f, r) ==
    /\ step[f][r] # "idle" => r \in Plan(f) /\ phase[f] \in {"on", "done"}
    /\ phase[f] = "done" => step[f][r] \in {"idle", "done"}

(* A resource that was found or made is in the destination.                *)
Found(f, r) == step[f][r] \in {"listed", "check", "rules", "done"} => r \in cloud

(* What a flow that runs alone has not found is not there.                 *)
Sought(f, r) ==
    step[f][r] = "missing" => r[1] # "grant" /\ (alone[f] => r \notin cloud)

(* A group has those of the rules any flow has gone through that the       *)
(* destination takes, all of them when the flow is done with it; and no    *)
(* flow gets past a rule whose source is a group.                          *)
AllRules(f, g) ==
    /\ rules[g] \subseteq Accepted(g)
    /\ \A n \in 1..added[f][g] :
           world.rule[g][n] # "sourced" /\ (n \in Accepted(g) => n \in rules[g])
    /\ step[f][<<"secgroup", g>>] = "done" => rules[g] = Accepted(g) /\ ~Sourced(g)

(* alone says what it means.                                               *)
Alone(f) == phase[f] = "on" /\ alone[f] => \A g \in Flow \ {f} : phase[g] # "on"

(* A user that was not there before is a member of the tenant it is at     *)
(* home in.                                                                *)
Members ==
    \A u \in User : <<"user", u>> \in cloud \ world.there /\ world.home[u] # NoTenant
        => <<"grant", <<u, Member, world.home[u]>>>> \in cloud

(* FailuresExplained, for one flow and one cause.                          *)
Explained(f, cause, n) ==
    /\ cause = "taken" => ~alone[f]
    /\ cause = "denied" =>
           \E g \in Group : /\ <<"secgroup", g>> \in Plan(f)
                            /\ \/ <<"user", world.owner[g][1]>> \in world.there
                               \/ world.home[world.owner[g][1]] # world.owner[g][2]
    /\ cause = "orphan" => \E r \in Plan(f) : r[1] \in {"grant", "secgroup"} /\ Orphaned(r)
    /\ cause = "sourced" => \E g \in Group : <<"secgroup", g>> \in Plan(f) /\ Sourced(g)
    /\ cause = "differs" => ~world.kept
    /\ cause = "fault" => n > 0

(* TypeOK, the parts above and FailuresExplained are inductive together.   *)
EnsureInv ==
    /\ TypeOK
    /\ \A f \in Flow, r \in Resource : Begun(f, r) /\ Found(f, r) /\ Sought(f, r)
    /\ \A f \in Flow, g \in Group : AllRules(f, g)
    /\ \A f \in Flow : Alone(f)
    /\ Members
    /\ \A f \in Flow : Explained(f, why[f], faults)

-----------------------------------------------------------------------------
(* What the kinds of resources are.                                        *)
LEMMA Kinds ==
    /\ \A t \in Tenant : <<"tenant", t>> \in Resource
    /\ \A u \in User : <<"user", u>> \in Resource
    /\ \A ro \in Role : <<"role", ro>> \in Resource
    /\ \A u \in User, ro \in Role \cup {Member}, t \in Tenant :
           <<"grant", <<u, ro, t>>>> \in Resource
    /\ \A g \in Group : <<"secgroup", g>> \in Resource
    /\ \A r \in Thing : r \in Resource /\ r[1] \in {"flavor", "network", "fip"}
  BY EnsureAssumption DEF Resource

(* A secgroup is the resource of a group.                                  *)
LEMMA SecGroups ==
    ASSUME NEW r \in Resource, r[1] = "secgroup"
    PROVE  r[2] \in Group /\ r = <<"secgroup", r[2]>>
  BY EnsureAssumption DEF Resource

(* What a request makes is a resource, the one that was asked for and for  *)
(* a user the grant of its membership.                                     *)
LEMMA WhatIsMade ==
    ASSUME NEW r \in Resource
    PROVE  /\ r \in Made(r) /\ Made(r) \subseteq Resource
           /\ \A q \in Made(r) : q = r \/ q[1] = "grant"
           /\ r[1] = "grant" => Made(r) = {r}
  BY DEF Made

(* What the assumption on the situations says of the present one.          *)
LEMMA Worlds ==
    ASSUME TypeOK
    PROVE  /\ world.home \in [User -> Tenant \cup {NoTenant}]
           /\ world.owner \in [Group -> User \X Tenant]
           /\ \A f \in Flow : Plan(f) \subseteq Resource
           /\ \A f \in Flow, g \in Group :
                  <<"secgroup", g>> \in Plan(f) => <<"user", world.owner[g][1]>> \in Plan(f)
  BY EnsureAssumption DEF TypeOK, WorldType, Plan

-----------------------------------------------------------------------------
(* What the steps have in common.                                          *)

(* Groups may have got more of the rules the destination takes.            *)
Grown ==
    /\ rules' \in [Group -> SUBSET (1..Rules)]
    /\ \A g \in Group : rules[g] \subseteq rules'[g] /\ rules'[g] \subseteq rules[g] \cup Accepted(g)

(* A task of f makes a request, or fails.                                  *)
Works(f, r, s) ==
    /\ phase[f] = "on" /\ step[f][r] # "done"
    /\ step' = [step EXCEPT ![f] = [@ EXCEPT ![r] = s]]
    /\ UNCHANGED <<world, phase, alone, added>>
    /\ Grown
    /\ shown' \subseteq Resource
    /\ faults' \in faults..MaxFaults
    /\ \/ cloud' = cloud
       \/ cloud' = cloud \cup Made(r) /\ (step[f][r] = "missing" \/ r[1] = "grant")
    /\ s \in {"listed", "check", "rules", "done"} => r \in cloud'
    /\ s = "missing" => r \notin cloud /\ cloud' = cloud /\ r[1] # "grant"
    /\ s = "done" /\ r[1] = "secgroup" => added[f][r[2]] = Rules
    /\ \/ why' = why
       \/ \E cause \in Cause : /\ why' = [why EXCEPT ![f] = cause]
                               /\ Explained(f, cause, faults')

(* A task adds a rule to a group.                                          *)
AddsRule(f, g) ==
    /\ added[f][g] < Rules
    /\ world.rule[g][added[f][g] + 1] # "sourced"
    /\ added' = [added EXCEPT ![f][g] = @ + 1]
    /\ rules' = [rules EXCEPT ![g] = @ \cup NextRule(f, g)]
    /\ UNCHANGED <<world, phase, step, why, alone, cloud, shown, faults>>

(* Some task of f has done something.                                      *)
Worked(f) == \E r \in Plan(f), s \in Step \ {"idle"} : Works(f, r, s)

(* A task that goes on works.                                              *)
LEMMA GoWorks ==
    ASSUME TypeOK, NEW f \in Flow, NEW r \in Plan(f), NEW s \in Step \ {"idle"},
           phase[f] = "on", step[f][r] # "done", Go(f, r, s),
           UNCHANGED <<rules, added>>, shown' \subseteq Resource,
           \/ cloud' = cloud
           \/ cloud' = cloud \cup Made(r) /\ (step[f][r] = "missing" \/ r[1] = "grant"),
           s \in {"listed", "check", "rules", "done"} => r \in cloud',
           s = "missing" => r \notin cloud /\ cloud' = cloud /\ r[1] # "grant",
           s = "done" /\ r[1] = "secgroup" => added[f][r[2]] = Rules
    PROVE  Worked(f)
<1>1. faults' \in faults..MaxFaults /\ why' = why /\ Grown
  BY EnsureAssumption DEF TypeOK, Go, Grown
<1>2. Works(f, r, s)
  BY <1>1 DEF Works, Go
<1> QED BY <1>2 DEF Worked

(* A task that fails for an explained reason works.                        *)
LEMMA FailsWorks ==
    ASSUME TypeOK, NEW f \in Flow, NEW r \in Plan(f), NEW cause \in Cause,
           phase[f] = "on", step[f][r] # "done", Fails(f, r, cause),
           UNCHANGED <<cloud, rules, added, shown>>,
           Explained(f, cause, faults)
    PROVE  Worked(f)
<1>1. faults' \in faults..MaxFaults /\ faults' = faults /\ shown' \subseteq Resource /\ Grown
  BY EnsureAssumption DEF TypeOK, Fails, Grown
<1>2. why' = why \/ why' = [why EXCEPT ![f] = cause]
  BY DEF Fails, TypeOK
<1>3. Works(f, r, "failed")
  BY <1>1, <1>2 DEF Works, Fails
<1> QED BY <1>3 DEF Worked, Step

(* Looking a resource up is work.                                          *)
LEMMA LookWorks ==
    ASSUME TypeOK, NEW f \in Flow, NEW r \in Resource, r[1] \notin {"grant", "secgroup"},
           Look(f, r)
    PROVE  Worked(f)
<1>1. r \in Plan(f) /\ phase[f] = "on" /\ step[f][r] = "idle"
  BY DEF Look, Ready, Wanted
<1> DEFINE s == IF r \in cloud THEN "done" ELSE "missing"
<1>2. s \in Step \ {"idle"}
  BY DEF Step
<1>3. Go(f, r, s) /\ UNCHANGED <<cloud, rules, added, shown>> /\ shown' \subseteq Resource
  BY DEF Look, TypeOK
<1> QED BY <1>1, <1>2, <1>3, GoWorks

(* Creating one is work: the name of what was missing can be taken only    *)
(* when another flow has run meanwhile.                                    *)
LEMMA CreateWorks ==
    ASSUME EnsureInv, NEW f \in Flow, NEW r \in Resource, NEW next \in {"done", "check", "rules"},
           next = "done" => r[1] # "secgroup", Create(f, r, next)
    PROVE  Worked(f)
<1>1. /\ step[f][r] = "missing" /\ r \in Plan(f) /\ phase[f] = "on"
      /\ alone[f] => r \notin cloud
  BY DEF Create, EnsureInv, Begun, Sought
<1>2. CASE r \in cloud
  <2>1. Fails(f, r, "taken") /\ UNCHANGED <<cloud, rules, added, shown>>
    BY <1>2 DEF Create
  <2>2. Explained(f, "taken", faults) /\ "taken" \in Cause
    BY <1>1, <1>2 DEF Explained, Cause
  <2> QED BY <1>1, <2>1, <2>2, FailsWorks DEF EnsureInv
<1>3. CASE r \notin cloud
  <2>1. /\ Go(f, r, next) /\ cloud' = cloud \cup Made(r) /\ UNCHANGED <<rules, added>>
        /\ shown' \subseteq shown \cup {r}
    BY <1>3 DEF Create
  <2>2. r \in cloud' /\ shown' \subseteq Resource
    BY <2>1, WhatIsMade DEF EnsureInv, TypeOK
  <2>3. next \in Step \ {"idle"}
    BY DEF Step
  <2> QED BY <1>1, <2>1, <2>2, <2>3, GoWorks DEF EnsureInv
<1> QED BY <1>2, <1>3

(* All tasks but those of security groups work.                            *)
LEMMA TasksWork ==
    ASSUME EnsureInv, NEW f \in Flow,
           \/ EnsureTenant(f) \/ EnsureUser(f) \/ EnsureRole(f) \/ EnsureFlavor(f)
           \/ EnsureFloatingIPBulk(f) \/ EnsureUserRole(f) \/ EnsureNetwork(f)
    PROVE  Worked(f)
<1>0. TypeOK
  BY DEF EnsureInv
<1>1. ASSUME NEW r \in Resource, r[1] \notin {"grant", "secgroup"}, FindOrCreate(f, r) PROVE Worked(f)
  BY <1>0, <1>1, LookWorks, CreateWorks DEF FindOrCreate
<1>2. CASE EnsureTenant(f) \/ EnsureUser(f) \/ EnsureRole(f) \/ EnsureFlavor(f)
  BY <1>1, <1>2, Kinds DEF EnsureTenant, EnsureUser, EnsureRole, EnsureFlavor
<1>3. CASE EnsureFloatingIPBulk(f)
  <2>1. PICK r \in Thing :
            /\ r[1] = "fip"
            /\ \/ Look(f, r)
               \/ Create(f, r, "check")
               \/ /\ step[f][r] = "check" /\ Go(f, r, "done")
                  /\ shown' = shown \cup {r}
                  /\ UNCHANGED <<cloud, rules, added>>
    BY <1>3 DEF EnsureFloatingIPBulk
  <2>2. r \in Resource
    BY Kinds
  <2>3. CASE Look(f, r) \/ Create(f, r, "check")
    BY <1>0, <2>1, <2>2, <2>3, LookWorks, CreateWorks
  <2>4. CASE step[f][r] = "check" /\ Go(f, r, "done") /\ shown' = shown \cup {r}
             /\ UNCHANGED <<cloud, rules, added>>
    <3>1. r \in Plan(f) /\ phase[f] = "on" /\ r \in cloud /\ "done" \in Step \ {"idle"}
      BY <2>2, <2>4 DEF EnsureInv, Begun, Found, Step
    <3>2. shown' \subseteq Resource
      BY <1>0, <2>2, <2>4 DEF TypeOK
    <3> QED BY <1>0, <2>1, <2>4, <3>1, <3>2, GoWorks
  <2> QED BY <2>1, <2>3, <2>4
<1>4. CASE EnsureUserRole(f)
  <2>1. PICK u \in User, ro \in Role, t \in Tenant :
            LET r == <<"grant", <<u, ro, t>>>> IN
            /\ Ready(f, r)
            /\ \/ Orphaned(r) /\ Fails(f, r, "orphan") /\ UNCHANGED cloud
               \/ ~Orphaned(r) /\ Go(f, r, "done") /\ cloud' = cloud \cup {r}
            /\ UNCHANGED <<rules, added, shown>>
    BY <1>4 DEF EnsureUserRole
  <2> DEFINE r == <<"grant", <<u, ro, t>>>>
  <2>2. /\ r \in Resource /\ r[1] = "grant" /\ Made(r) = {r}
        /\ r \in Plan(f) /\ phase[f] = "on" /\ step[f][r] = "idle"
    BY <2>1, Kinds, WhatIsMade DEF Ready, Wanted
  <2>3. \/ Orphaned(r) /\ Fails(f, r, "orphan") /\ UNCHANGED cloud
        \/ Go(f, r, "done") /\ cloud' = cloud \cup {r}
    BY <2>1
  <2>4. UNCHANGED <<rules, added, shown>> /\ shown' \subseteq Resource
    BY <1>0, <2>1 DEF TypeOK
  <2> HIDE DEF r
  <2>5. CASE Orphaned(r) /\ Fails(f, r, "orphan") /\ UNCHANGED cloud
    <3>1. Explained(f, "orphan", faults) /\ "orphan" \in Cause
      BY <2>2, <2>5 DEF Explained, Cause
    <3> QED BY <1>0, <2>2, <2>4, <2>5, <3>1, FailsWorks
  <2>6. CASE Go(f, r, "done") /\ cloud' = cloud \cup {r}
    <3>1. "done" \in Step \ {"idle"} /\ r \in cloud'
      BY <2>6 DEF Step
    <3> QED BY <1>0, <2>2, <2>4, <2>6, <3>1, GoWorks
  <2> QED BY <2>3, <2>5, <2>6
<1>5. CASE EnsureNetwork(f)
  <2>1. PICK r \in Networks(f) :
            /\ Wanted(f, r)
            /\ \/ /\ step[f][r] = "listed"
                  /\ IF world.kept THEN Go(f, r, "done") ELSE Fails(f, r, "differs")
                  /\ UNCHANGED <<cloud, rules, added, shown>>
               \/ Create(f, r, "done")
    BY <1>5 DEF EnsureNetwork
  <2>2. r \in Plan(f) /\ r \in Resource /\ r[1] = "network" /\ phase[f] = "on"
    BY <1>0, <2>1, Worlds DEF Networks, Wanted
  <2>3. CASE Create(f, r, "done")
    BY <2>2, <2>3, CreateWorks
  <2>4. CASE /\ step[f][r] = "listed"
             /\ IF world.kept THEN Go(f, r, "done") ELSE Fails(f, r, "differs")
             /\ UNCHANGED <<cloud, rules, added, shown>>
    <3>1. r \in cloud /\ shown' \subseteq Resource /\ "done" \in Step \ {"idle"} /\ "differs" \in Cause
      BY <1>0, <2>2, <2>4 DEF EnsureInv, Found, TypeOK, Step, Cause
    <3>2. CASE world.kept
      BY <1>0, <2>2, <2>4, <3>1, <3>2, GoWorks
    <3>3. CASE ~world.kept
      <4>1. Explained(f, "differs", faults)
        BY <3>3 DEF Explained
      <4> QED BY <1>0, <2>2, <2>4, <3>1, <3>3, <4>1, FailsWorks
    <3> QED BY <3>2, <3>3
  <2> QED BY <2>1, <2>3, <2>4
<1> QED BY <1>2, <1>3, <1>4, <1>5

(* Denied is only a user that was there before or is not at home in the    *)
(* tenant of the group.                                                    *)
LEMMA DeniedExplained ==
    ASSUME EnsureInv, NEW f \in Flow, NEW g \in Group, Wanted(f, <<"secgroup", g>>),
           ~Admitted(world.owner[g][1], world.owner[g][2])
    PROVE  Explained(f, "denied", faults)
<1> DEFINE u == world.owner[g][1]
           t == world.owner[g][2]
           r == <<"secgroup", g>>
<1>1. u \in User /\ t \in Tenant /\ <<"user", u>> \in Resource
  BY Worlds, Kinds DEF EnsureInv
<1>2. r \in Plan(f) /\ <<"user", u>> \in Plan(f)
  BY Worlds DEF EnsureInv, Wanted
<1>3. SUFFICES ASSUME <<"user", u>> \notin world.there, world.home[u] = t
               PROVE  FALSE
  BY <1>2 DEF Explained
<1>4. <<"user", u>> \in Requires(r)
  BY <1>1 DEF Requires
<1>5. step[f][<<"user", u>>] = "done"
  BY <1>2, <1>4 DEF Wanted
<1>6. <<"user", u>> \in cloud
  BY <1>1, <1>5 DEF EnsureInv, Found
<1>7. <<"grant", <<u, Member, t>>>> \in cloud
  BY <1>1, <1>3, <1>6, EnsureAssumption DEF EnsureInv, Members
<1> QED BY <1>3, <1>7 DEF Admitted

(* The task of a security group works, or adds a rule.                     *)
LEMMA GroupsWork ==
    ASSUME EnsureInv, NEW f \in Flow, EnsureSecGroup(f)
    PROVE  Worked(f) \/ \E g \in Group : AddsRule(f, g)
<1>0. TypeOK
  BY DEF EnsureInv
<1>1. PICK g \in Group : LET r == <<"secgroup", g>> IN
          FindSecGroup(f, r) \/ Create(f, r, "rules") \/ AddRule(f, r)
  BY DEF EnsureSecGroup
<1> DEFINE r == <<"secgroup", g>>
<1>2. r \in Resource /\ r[1] = "secgroup" /\ r[2] = g
  BY Kinds
<1>3. CASE FindSecGroup(f, r)
  <2>1. r \in Plan(f) /\ phase[f] = "on" /\ step[f][r] = "idle" /\ Wanted(f, r)
    BY <1>3 DEF FindSecGroup, Ready, Wanted
  <2>2. /\ UNCHANGED <<cloud, rules, added, shown>> /\ shown' \subseteq Resource
        /\ {"orphan", "denied"} \subseteq Cause
    BY <1>0, <1>3 DEF FindSecGroup, TypeOK, Cause
  <2>3. CASE Orphaned(r) /\ Fails(f, r, "orphan")
    <3>1. Explained(f, "orphan", faults)
      BY <1>2, <2>1, <2>3 DEF Explained
    <3> QED BY <1>0, <2>1, <2>2, <2>3, <3>1, FailsWorks
  <2>4. CASE ~Admitted(world.owner[g][1], world.owner[g][2]) /\ Fails(f, r, "denied")
    <3>1. Explained(f, "denied", faults)
      BY <2>1, <2>4, DeniedExplained
    <3> QED BY <1>0, <2>1, <2>2, <2>4, <3>1, FailsWorks
  <2>5. CASE Go(f, r, IF r \in cloud THEN "rules" ELSE "missing")
    <3>1. (IF r \in cloud THEN "rules" ELSE "missing") \in Step \ {"idle"}
      BY DEF Step
    <3> QED BY <1>0, <1>2, <2>1, <2>2, <2>5, <3>1, GoWorks
  <2> QED BY <1>2, <1>3, <2>3, <2>4, <2>5 DEF FindSecGroup
<1>4. CASE Create(f, r, "rules")
  BY <1>2, <1>4, CreateWorks
<1>5. CASE AddRule(f, r)
  <2>1. r \in Plan(f) /\ phase[f] = "on" /\ r \in cloud /\ step[f][r] = "rules"
    BY <1>2, <1>5 DEF EnsureInv, Begun, Found, AddRule
  <2>2. CASE added[f][g] = Rules /\ Go(f, r, "done") /\ UNCHANGED <<added, rules, cloud, shown>>
    <3>1. shown' \subseteq Resource /\ "done" \in Step \ {"idle"}
      BY <1>0, <2>2 DEF TypeOK, Step
    <3> QED BY <1>0, <1>2, <2>1, <2>2, <3>1, GoWorks
  <2>3. CASE AddsRule(f, g)
    BY <2>3
  <2>4. CASE /\ added[f][g] < Rules /\ world.rule[g][added[f][g] + 1] = "sourced"
             /\ Fails(f, r, "sourced") /\ UNCHANGED <<added, rules, cloud, shown>>
    <3>1. added[f][g] + 1 \in 1..Rules
      BY <1>0, <2>4, EnsureAssumption DEF TypeOK
    <3>2. Explained(f, "sourced", faults) /\ "sourced" \in Cause
      BY <2>1, <2>4, <3>1 DEF Explained, Sourced, Cause
    <3>3. shown' \subseteq Resource
      BY <1>0, <2>4 DEF TypeOK
    <3> QED BY <1>0, <2>1, <2>4, <3>2, <3>3, FailsWorks
  <2> QED BY <1>5, <2>2, <2>3, <2>4 DEF AddRule, AddsRule
<1> QED BY <1>1, <1>3, <1>4, <1>5

(* A request that fails is work, too: it may have been carried out.        *)
LEMMA FaultWorks ==
    ASSUME EnsureInv, NEW f \in Flow, NEW r \in Plan(f), Fault(f, r)
    PROVE  Worked(f)
<1>0. TypeOK /\ r \in Resource
  BY Worlds DEF EnsureInv
<1>1. phase[f] = "on" /\ step[f][r] # "done"
  BY <1>0 DEF Fault, Ready, Wanted, Underway, EnsureInv, Begun
<1>2. cloud' = cloud \/ (cloud' = cloud \cup Made(r) /\ (step[f][r] = "missing" \/ r[1] = "grant"))
  BY DEF Fault, Effect
<1>3. /\ faults' \in faults..MaxFaults /\ faults' > 0 /\ shown' \subseteq Resource
      /\ {"fault", "failed"} \subseteq Cause \cup Step /\ "fault" \in Cause /\ "failed" \in Step
  BY <1>0, EnsureAssumption DEF Fault, TypeOK, Cause, Step
<1>4. Explained(f, "fault", faults')
  BY <1>3 DEF Explained
<1>5. why' = why \/ why' = [why EXCEPT ![f] = "fault"]
  BY <1>0 DEF Fault, TypeOK
<1>6. Grown
  <2>1. rules \in [Group -> SUBSET (1..Rules)]
    BY <1>0 DEF TypeOK
  <2>2. \A g \in Group : NextRule(f, g) \subseteq Accepted(g) /\ Accepted(g) \subseteq 1..Rules
    BY DEF NextRule, Accepted
  <2>3. rules' \in {rules, WithNextRule(f, r)}
    BY DEF Fault
  <2> QED BY <2>1, <2>2, <2>3 DEF Grown, WithNextRule
<1>7. Works(f, r, "failed")
  BY <1>1, <1>2, <1>3, <1>4, <1>5, <1>6 DEF Works, Fault
<1> QED BY <1>3, <1>7 DEF Worked

(* Every step is of one of these kinds.                                    *)
LEMMA KindsOfEnsureSteps ==
    ASSUME EnsureInv, [Next]_vars
    PROVE  \/ \E f \in Flow : \/ Worked(f) \/ \E g \in Group : AddsRule(f, g)
                              \/ RetrieveAllNetworks(f) \/ Start(f) \/ Finish(f)
           \/ Crash
           \/ UNCHANGED vars
  BY TasksWork, GroupsWork, FaultWorks DEF Next, Progress

-----------------------------------------------------------------------------
(* The invariant, kind of step by kind of step: work keeps it, ...         *)
LEMMA WorkKeeps ==
    ASSUME EnsureInv, NEW f \in Flow, NEW r \in Plan(f), NEW s \in Step \ {"idle"}, Works(f, r, s)
    PROVE  EnsureInv'
<1>1. TypeOK /\ r \in Resource
  BY Worlds DEF EnsureInv
<1>2. /\ r \in Made(r) /\ Made(r) \subseteq Resource
      /\ \A q \in Made(r) : q = r \/ q[1] = "grant"
  BY <1>1, WhatIsMade
<1>3. TypeOK'
  <2>1. step' \in [Flow -> [Resource -> Step]]
    BY <1>1 DEF TypeOK, Works
  <2>2. cloud' \subseteq Resource
    BY <1>1, <1>2 DEF TypeOK, Works
  <2>3. why' \in [Flow -> Cause]
    BY <1>1 DEF TypeOK, Works
  <2>4. faults' \in 0..MaxFaults
    BY <1>1, EnsureAssumption DEF TypeOK, Works
  <2> QED BY <1>1, <2>1, <2>2, <2>3, <2>4 DEF TypeOK, Works, Grown
<1>4. /\ \A h \in Flow, q \in Resource : step'[h][q] = IF h = f /\ q = r THEN s ELSE step[h][q]
      /\ cloud \subseteq cloud' /\ \A q \in cloud' \ cloud : q = r \/ q[1] = "grant"
      /\ UNCHANGED <<world, phase, alone, added>> /\ phase[f] = "on"
      /\ \A h \in Flow : Plan(h)' = Plan(h)
  BY <1>1, <1>2 DEF TypeOK, Works, Plan
<1>5. ASSUME NEW h \in Flow, NEW q \in Resource
      PROVE  Begun(h, q)' /\ Found(h, q)' /\ Sought(h, q)'
  <2>1. Begun(h, q) /\ Found(h, q) /\ Sought(h, q)
    BY DEF EnsureInv
  <2>2. Begun(h, q)'
    BY <1>4, <2>1 DEF Begun
  <2>3. Found(h, q)'
    BY <1>4, <2>1 DEF Found, Works
  <2>4. Sought(h, q)'
    <3>1. CASE h = f /\ q = r
      BY <1>4, <3>1 DEF Sought, Works
    <3>2. CASE h = f /\ q # r
      BY <1>4, <2>1, <3>2 DEF Sought
    <3>3. CASE h # f
      <4> SUFFICES ASSUME step[h][q] = "missing" PROVE q[1] # "grant" /\ ~alone[h]
        BY <1>4, <2>1, <3>3 DEF Sought
      <4>1. phase[h] = "on"
        BY <2>1 DEF Begun
      <4> QED BY <1>4, <2>1, <3>3, <4>1 DEF Sought, EnsureInv, Alone
    <3> QED BY <3>1, <3>2, <3>3
  <2> QED BY <2>2, <2>3, <2>4
<1>6. ASSUME NEW h \in Flow, NEW g \in Group PROVE AllRules(h, g)'
  <2>1. <<"secgroup", g>> \in Resource /\ AllRules(h, g)
    BY Kinds DEF EnsureInv
  <2>2. /\ rules[g] \subseteq rules'[g] /\ rules'[g] \subseteq Accepted(g)
        /\ Accepted(g)' = Accepted(g) /\ (Sourced(g)' <=> Sourced(g))
    BY <1>4, <2>1 DEF AllRules, Works, Grown, Accepted, Sourced
  <2>3. \A n \in 1..added[h][g] :
            world.rule[g][n] # "sourced" /\ (n \in Accepted(g) => n \in rules'[g])
    BY <2>1, <2>2 DEF AllRules
  <2>4. ASSUME step'[h][<<"secgroup", g>>] = "done"
        PROVE  rules'[g] = Accepted(g) /\ ~Sourced(g)
    <3>1. CASE h = f /\ <<"secgroup", g>> = r
      <4>1. added[h][g] = Rules
        BY <1>4, <2>1, <2>4, <3>1 DEF Works
      <4>2. \A n \in 1..Rules : world.rule[g][n] # "sourced" /\ (n \in Accepted(g) => n \in rules'[g])
        BY <2>3, <4>1
      <4> QED BY <2>2, <4>2 DEF Accepted, Sourced
    <3>2. CASE ~(h = f /\ <<"secgroup", g>> = r)
      BY <1>4, <2>1, <2>2, <2>4, <3>2 DEF AllRules
    <3> QED BY <3>1, <3>2
  <2> QED BY <1>4, <2>2, <2>3, <2>4 DEF AllRules
<1>7. \A h \in Flow : Alone(h)'
  BY <1>4 DEF Alone, EnsureInv
<1>8. Members'
  <2> SUFFICES ASSUME NEW u \in User, <<"user", u>> \in cloud' \ world.there, world.home[u] # NoTenant
               PROVE  <<"grant", <<u, Member, world.home[u]>>>> \in cloud'
    BY <1>4 DEF Members
  <2>1. CASE <<"user", u>> \in cloud
    BY <1>4, <2>1 DEF EnsureInv, Members
  <2>2. CASE <<"user", u>> \notin cloud
    <3>1. r = <<"user", u>> /\ cloud' = cloud \cup Made(r)
      BY <1>4, <2>2 DEF Works
    <3>2. <<"grant", <<u, Member, world.home[u]>>>> \in Resource
      BY <1>1, Worlds, Kinds
    <3> QED BY <3>1, <3>2 DEF Made
  <2> QED BY <2>1, <2>2
<1>9. ASSUME NEW h \in Flow PROVE Explained(h, why[h], faults)'
  <2>1. faults \in Nat /\ faults' \in Nat /\ faults' >= faults
    BY <1>1, EnsureAssumption DEF TypeOK, Works
  <2>2. Explained(h, why[h], faults)
    BY DEF EnsureInv
  <2>3. Explained(h, why[h], faults')
    BY <2>1, <2>2 DEF Explained
  <2>4. why'[h] = why[h] \/ Explained(h, why'[h], faults')
    BY <1>1 DEF Works, TypeOK
  <2>5. Explained(h, why'[h], faults')
    BY <2>3, <2>4
  <2> QED BY <1>4, <2>5 DEF Explained, Orphaned, Sourced
<1> QED BY <1>3, <1>5, <1>6, <1>7, <1>8, <1>9 DEF EnsureInv

(* ... a rule that is added keeps it, ...                                  *)
LEMMA RuleKeeps ==
    ASSUME EnsureInv, NEW f \in Flow, NEW g \in Group, AddsRule(f, g)
    PROVE  EnsureInv'
<1>1. /\ added \in [Flow -> [Group -> 0..Rules]] /\ rules \in [Group -> SUBSET (1..Rules)]
      /\ Rules \in Nat
  BY EnsureAssumption DEF EnsureInv, TypeOK
<1>2. UNCHANGED <<world, phase, step, why, alone, cloud, shown, faults>>
  BY DEF AddsRule
<1>3. /\ \A h \in Flow, k \in Group :
             added'[h][k] = IF h = f /\ k = g THEN added[f][g] + 1 ELSE added[h][k]
      /\ added' \in [Flow -> [Group -> 0..Rules]]
  <2> DEFINE one == [added[f] EXCEPT ![g] = @ + 1]
  <2>1. added[f][g] + 1 \in 0..Rules
    BY <1>1 DEF AddsRule
  <2>2. /\ one \in [Group -> 0..Rules]
        /\ \A k \in Group : one[k] = IF k = g THEN added[f][g] + 1 ELSE added[f][k]
    BY <1>1, <2>1
  <2>3. added' = [added EXCEPT ![f] = one]
    BY DEF AddsRule
  <2> HIDE DEF one
  <2> QED BY <1>1, <2>2, <2>3
<1>4. NextRule(f, g) \subseteq Accepted(g) /\ Accepted(g) \subseteq 1..Rules
  BY DEF NextRule, Accepted
<1>5. /\ rules' \in [Group -> SUBSET (1..Rules)]
      /\ \A k \in Group : rules'[k] = IF k = g THEN rules[g] \cup NextRule(f, g) ELSE rules[k]
  BY <1>1, <1>4 DEF AddsRule
<1>6. TypeOK'
  BY <1>2, <1>3, <1>5 DEF EnsureInv, TypeOK
<1>7. ASSUME NEW h \in Flow, NEW k \in Group PROVE AllRules(h, k)'
  <2>1. AllRules(h, k) /\ added[h][k] \in 0..Rules /\ added[f][g] \in 0..Rules
    BY <1>1 DEF EnsureInv
  <2>2. rules[k] \subseteq rules'[k] /\ rules'[k] \subseteq Accepted(k)
    BY <1>4, <1>5, <2>1 DEF AllRules
  <2>3. ASSUME NEW n \in 1..added'[h][k]
        PROVE  world.rule[k][n] # "sourced" /\ (n \in Accepted(k) => n \in rules'[k])
    <3>1. CASE n \in 1..added[h][k]
      BY <2>1, <2>2, <3>1 DEF AllRules
    <3>2. CASE n \notin 1..added[h][k]
      <4>1. h = f /\ k = g /\ n = added[f][g] + 1
        BY <1>3, <2>1, <2>3, <3>2
      <4>2. n \in Accepted(g) => n \in NextRule(f, g)
        BY <4>1 DEF NextRule
      <4> QED BY <1>5, <4>1, <4>2 DEF AddsRule
    <3> QED BY <3>1, <3>2
  <2>4. /\ world' = world /\ Accepted(k)' = Accepted(k) /\ (Sourced(k)' <=> Sourced(k))
        /\ step' = step
    BY <1>2 DEF Accepted, Sourced
  <2>5. step[h][<<"secgroup", k>>] = "done" => rules'[k] = Accepted(k) /\ ~Sourced(k)
    BY <2>1, <2>2 DEF AllRules
  <2> QED BY <2>2, <2>3, <2>4, <2>5 DEF AllRules
<1>8. \A h \in Flow, q \in Resource : Begun(h, q)' /\ Found(h, q)' /\ Sought(h, q)'
  BY <1>2 DEF EnsureInv, Begun, Found, Sought, Plan
<1>9. (\A h \in Flow : Alone(h)') /\ Members'
  BY <1>2 DEF EnsureInv, Alone, Members
<1>10. \A h \in Flow : Explained(h, why[h], faults)'
  BY <1>2 DEF EnsureInv, Explained, Orphaned, Sourced, Plan
<1> QED BY <1>6, <1>7, <1>8, <1>9, <1>10 DEF EnsureInv

(* ... listing the networks keeps it, ...                                  *)
LEMMA ListingKeeps ==
    ASSUME EnsureInv, NEW f \in Flow, RetrieveAllNetworks(f)
    PROVE  EnsureInv'
<1>1. /\ UNCHANGED <<world, phase, why, alone, cloud, rules, added, shown, faults>>
      /\ phase[f] = "on" /\ TypeOK
  BY DEF RetrieveAllNetworks, EnsureInv
<1>2. /\ step' \in [Flow -> [Resource -> Step]]
      /\ \A h \in Flow \ {f} : step'[h] = step[h]
      /\ \A q \in Resource : step'[f][q] = IF q \notin Networks(f) THEN step[f][q]
                                           ELSE IF q \in cloud THEN "listed" ELSE "missing"
  BY <1>1 DEF RetrieveAllNetworks, TypeOK, Step
<1>3. TypeOK'
  BY <1>1, <1>2 DEF TypeOK
<1>4. ASSUME NEW h \in Flow, NEW q \in Resource
      PROVE  Begun(h, q)' /\ Found(h, q)' /\ Sought(h, q)'
  <2>1. Begun(h, q) /\ Found(h, q) /\ Sought(h, q)
    BY DEF EnsureInv
  <2>2. CASE step'[h][q] = step[h][q]
    BY <1>1, <2>1, <2>2 DEF Begun, Found, Sought, Plan
  <2>3. CASE h = f /\ q \in Networks(f)
    BY <1>1, <1>2, <2>3 DEF Begun, Found, Sought, Plan, Networks
  <2> QED BY <1>2, <2>2, <2>3
<1>5. ASSUME NEW h \in Flow, NEW g \in Group PROVE AllRules(h, g)'
  <2>1. <<"secgroup", g>> \in Resource /\ <<"secgroup", g>> \notin Networks(f) /\ AllRules(h, g)
    BY Kinds DEF EnsureInv, Networks
  <2>2. step'[h][<<"secgroup", g>>] = step[h][<<"secgroup", g>>]
    BY <1>2, <2>1
  <2> QED BY <1>1, <2>1, <2>2 DEF AllRules, Accepted, Sourced
<1>6. (\A h \in Flow : Alone(h)') /\ Members'
  BY <1>1 DEF EnsureInv, Alone, Members
<1>7. \A h \in Flow : Explained(h, why[h], faults)'
  BY <1>1 DEF EnsureInv, Explained, Orphaned, Sourced, Plan
<1> QED BY <1>3, <1>4, <1>5, <1>6, <1>7 DEF EnsureInv

(* A flow starts, ends or is forgotten: every task stays what it is or is  *)
(* idle again.                                                             *)
Turns(h) ==
    /\ \/ step'[h] = Idle
       \/ /\ step'[h] = step[h]
          /\ alone'[h] => alone[h]
          /\ \/ phase'[h] = phase[h]
             \/ phase'[h] = "done" /\ \A r \in Plan(h) : step[h][r] = "done"
    /\ \/ why'[h] = "none"
       \/ why'[h] = why[h] /\ (alone'[h] => alone[h])
    /\ \A g \in Group : added'[h][g] = added[h][g] \/ added'[h][g] = 0

(* ... and so does what starts, ends or forgets flows.                     *)
LEMMA FlowsKeep ==
    ASSUME EnsureInv, TypeOK', world' = world, cloud' = cloud, rules' = rules,
           faults' >= faults, \A h \in Flow : Turns(h), \A h \in Flow : Alone(h)'
    PROVE  EnsureInv'
<1>1. TypeOK /\ \A h \in Flow : Plan(h)' = Plan(h)
  BY DEF EnsureInv, Plan
<1>2. ASSUME NEW h \in Flow, NEW q \in Resource
      PROVE  Begun(h, q)' /\ Found(h, q)' /\ Sought(h, q)'
  <2>1. Begun(h, q) /\ Found(h, q) /\ Sought(h, q)
    BY DEF EnsureInv
  <2>2. CASE step'[h] = Idle
    BY <2>2 DEF Idle, Begun, Found, Sought
  <2>3. CASE step'[h] # Idle
    <3>1. /\ step'[h] = step[h] /\ (alone'[h] => alone[h])
          /\ phase'[h] = phase[h] \/ (phase'[h] = "done" /\ \A r \in Plan(h) : step[h][r] = "done")
      <4>1. Turns(h)
        OBVIOUS
      <4> QED BY <2>3, <4>1 DEF Turns
    <3> QED BY <1>1, <2>1, <3>1 DEF Begun, Found, Sought
  <2> QED BY <2>2, <2>3
<1>3. ASSUME NEW h \in Flow, NEW g \in Group PROVE AllRules(h, g)'
  <2>1. /\ AllRules(h, g) /\ <<"secgroup", g>> \in Resource
        /\ added[h][g] \in Nat /\ Turns(h)
    BY <1>1, Kinds, EnsureAssumption DEF EnsureInv, TypeOK
  <2>2. 1..added'[h][g] \subseteq 1..added[h][g]
    BY <2>1 DEF Turns
  <2>3. step'[h][<<"secgroup", g>>] = "done" => step[h][<<"secgroup", g>>] = "done"
    BY <2>1 DEF Idle, Turns
  <2>4. Accepted(g)' = Accepted(g) /\ (Sourced(g)' <=> Sourced(g))
    BY DEF Accepted, Sourced
  <2> QED BY <2>1, <2>2, <2>3, <2>4 DEF AllRules
<1>4. Members'
  BY DEF EnsureInv, Members
<1>5. ASSUME NEW h \in Flow PROVE Explained(h, why[h], faults)'
  <2>1. Explained(h, why[h], faults) /\ faults \in Nat /\ faults' \in Nat
    BY <1>1, EnsureAssumption DEF EnsureInv, TypeOK
  <2>2. CASE why'[h] = "none"
    BY <2>2 DEF Explained
  <2>3. CASE why'[h] # "none"
    <3>1. why'[h] = why[h] /\ (alone'[h] => alone[h])
      BY <2>3 DEF Turns
    <3>2. /\ \A r \in Plan(h) : Orphaned(r)' <=> Orphaned(r)
          /\ \A g \in Group : Sourced(g)' <=> Sourced(g)
      BY DEF Orphaned, Sourced
    <3>3. faults > 0 => faults' > 0
      BY <2>1
    <3> QED BY <1>1, <2>1, <3>1, <3>2, <3>3 DEF Explained
  <2> QED BY <2>2, <2>3
<1> QED BY <1>2, <1>3, <1>4, <1>5 DEF EnsureInv

(* Every step keeps the invariant.                                         *)
LEMMA EnsureStep ==
    ASSUME EnsureInv, [Next]_vars
    PROVE  EnsureInv'
<1>0. TypeOK /\ Idle \in [Resource -> Step] /\ \A h \in Flow : Alone(h)
  BY DEF EnsureInv, Idle, Step
<1>1. ASSUME NEW f \in Flow, Worked(f) PROVE EnsureInv'
  BY <1>1, WorkKeeps DEF Worked
<1>2. ASSUME NEW f \in Flow, NEW g \in Group, AddsRule(f, g) PROVE EnsureInv'
  BY <1>2, RuleKeeps
<1>3. ASSUME NEW f \in Flow, RetrieveAllNetworks(f) PROVE EnsureInv'
  BY <1>3, ListingKeeps
<1>4. ASSUME NEW f \in Flow, Start(f) PROVE EnsureInv'
  <2> DEFINE others == {g \in Flow \ {f} : phase[g] = "on"}
  <2>1. /\ phase[f] \in {"off", "failed"} /\ phase' = [phase EXCEPT ![f] = "on"]
        /\ step' = [step EXCEPT ![f] = Idle] /\ why' = [why EXCEPT ![f] = "none"]
        /\ added' = [added EXCEPT ![f] = [g \in Group |-> 0]]
        /\ alone' = [g \in Flow |-> IF g = f THEN others = {} ELSE alone[g] /\ g \notin others]
        /\ UNCHANGED <<world, cloud, rules, shown, faults>>
    BY <1>4 DEF Start
  <2>2. \A g \in Flow : (alone'[g] <=> IF g = f THEN others = {} ELSE alone[g] /\ g \notin others)
    BY <2>1
  <2>3. alone' \in [Flow -> BOOLEAN]
    BY <2>1
  <2>4. TypeOK'
    <3>1. added' \in [Flow -> [Group -> 0..Rules]]
      BY <1>0, <2>1, EnsureAssumption DEF TypeOK
    <3> HIDE DEF others
    <3>2. step' \in [Flow -> [Resource -> Step]] /\ why' \in [Flow -> Cause]
          /\ phase' \in [Flow -> {"off", "on", "failed", "done"}]
      BY <1>0, <2>1 DEF TypeOK, Cause
    <3> QED BY <1>0, <2>1, <2>3, <3>1, <3>2 DEF TypeOK
  <2>5. \A h \in Flow : Alone(h)'
    <3> SUFFICES ASSUME NEW h \in Flow, phase'[h] = "on", alone'[h], NEW g \in Flow \ {h}
                 PROVE  phase'[g] # "on"
      BY DEF Alone
    <3>1. \A k \in Flow \ {f} : phase'[k] = phase[k]
      BY <1>0, <2>1 DEF TypeOK
    <3>2. CASE h = f
      BY <2>2, <3>1, <3>2
    <3>3. CASE h # f
      BY <1>0, <2>2, <3>1, <3>3 DEF Alone
    <3> QED BY <3>2, <3>3
  <2>6. \A h \in Flow \ {f} : step'[h] = step[h] /\ why'[h] = why[h] /\ phase'[h] = phase[h]
                              /\ (alone'[h] => alone[h])
    BY <1>0, <2>1, <2>2 DEF TypeOK
  <2>7. step'[f] = Idle /\ why'[f] = "none"
    BY <1>0, <2>1 DEF TypeOK
  <2>8. \A h \in Flow, g \in Group : added'[h][g] = added[h][g] \/ added'[h][g] = 0
    BY <1>0, <2>1 DEF TypeOK
  <2>9. UNCHANGED <<world, cloud, rules>> /\ faults' >= faults
    BY <1>0, <2>1, EnsureAssumption DEF TypeOK
  <2> HIDE DEF others
  <2>10. \A h \in Flow : Turns(h)
    BY <2>6, <2>7, <2>8 DEF Turns
  <2> QED BY <2>4, <2>5, <2>9, <2>10, FlowsKeep
<1>5. ASSUME NEW f \in Flow, Finish(f) PROVE EnsureInv'
  <2>1. /\ phase[f] = "on"
        /\ UNCHANGED <<world, why, alone, cloud, rules, added, shown, faults>>
        /\ \/ /\ \A r \in Plan(f) : step[f][r] = "done"
              /\ phase' = [phase EXCEPT ![f] = "done"] /\ UNCHANGED step
           \/ phase' = [phase EXCEPT ![f] = "failed"] /\ step' = [step EXCEPT ![f] = Idle]
    BY <1>5 DEF Finish
  <2>2. TypeOK'
    BY <1>0, <2>1 DEF TypeOK
  <2>3. \A h \in Flow : phase'[h] = "on" => phase[h] = "on"
    BY <1>0, <2>1 DEF TypeOK
  <2>4. \A h \in Flow : Alone(h)'
    BY <1>0, <2>1, <2>3 DEF Alone
  <2>5. \A h \in Flow \ {f} : step'[h] = step[h] /\ phase'[h] = phase[h]
    BY <1>0, <2>1 DEF TypeOK
  <2>6. \/ /\ \A r \in Plan(f) : step[f][r] = "done"
           /\ phase'[f] = "done" /\ step'[f] = step[f]
        \/ step'[f] = Idle
    BY <1>0, <2>1 DEF TypeOK
  <2>7. UNCHANGED <<world, cloud, rules>> /\ faults' >= faults
    BY <1>0, <2>1, EnsureAssumption DEF TypeOK
  <2>8. \A h \in Flow : Turns(h)
    BY <2>1, <2>5, <2>6 DEF Turns
  <2> QED BY <2>2, <2>4, <2>7, <2>8, FlowsKeep
<1>6. CASE Crash
  <2>1. /\ faults < MaxFaults /\ faults' = faults + 1
        /\ phase' = [f \in Flow |-> IF phase[f] = "on" THEN "off" ELSE phase[f]]
        /\ step' = [f \in Flow |-> IF phase[f] = "on" THEN Idle ELSE step[f]]
        /\ why' = [f \in Flow |-> IF phase[f] = "on" THEN "none" ELSE why[f]]
        /\ UNCHANGED <<world, alone, cloud, rules, added, shown>>
    BY <1>6 DEF Crash
  <2>2. faults' \in 0..MaxFaults /\ faults' >= faults
    BY <1>0, <2>1, EnsureAssumption DEF TypeOK
  <2>3. TypeOK'
    BY <1>0, <2>1, <2>2 DEF TypeOK, Cause
  <2>4. \A h \in Flow : phase'[h] # "on"
    BY <2>1
  <2>5. \A h \in Flow : Alone(h)'
    BY <2>4 DEF Alone
  <2>6. \A h \in Flow : \/ step'[h] = Idle /\ why'[h] = "none"
                        \/ step'[h] = step[h] /\ why'[h] = why[h] /\ phase'[h] = phase[h]
    BY <2>1
  <2>7. \A h \in Flow : Turns(h)
    BY <2>1, <2>6 DEF Turns
  <2> QED BY <2>1, <2>2, <2>3, <2>5, <2>7, FlowsKeep
<1>7. CASE UNCHANGED vars
  <2>1. UNCHANGED <<world, phase, step, why, alone, cloud, rules, added, shown, faults>>
    BY <1>7 DEF vars
  <2>2. TypeOK' /\ (\A h \in Flow : Alone(h)') /\ faults' >= faults
    BY <1>0, <2>1, EnsureAssumption DEF TypeOK, Alone
  <2>3. \A h \in Flow : Turns(h)
    BY <2>1 DEF Turns
  <2> QED BY <2>1, <2>2, <2>3, FlowsKeep
<1> QED BY <1>1, <1>2, <1>3, <1>4, <1>5, <1>6, <1>7, KindsOfEnsureSteps

(* It holds at the beginning, whatever the destination has already.        *)
LEMMA EnsureInit ==
    ASSUME Init
    PROVE  EnsureInv
<1>1. TypeOK
  <2>1. world.there \subseteq Resource
    BY EnsureAssumption DEF Init, WorldType
  <2> QED BY <2>1, EnsureAssumption DEF Init, TypeOK, Idle, Step, Cause
<1>2. \A f \in Flow, r \in Resource : Begun(f, r) /\ Found(f, r) /\ Sought(f, r)
  BY DEF Init, Idle, Begun, Found, Sought
<1>3. \A f \in Flow, g \in Group : AllRules(f, g)
  <2>1. Rules \in Nat /\ \A g \in Group : <<"secgroup", g>> \in Resource
    BY Kinds, EnsureAssumption
  <2>2. \A f \in Flow, g \in Group :
            /\ added[f][g] = 0 /\ rules[g] = {}
            /\ step[f][<<"secgroup", g>>] = "idle"
    BY <2>1 DEF Init, Idle
  <2>3. 1..0 = {} /\ "idle" # "done"
    OBVIOUS
  <2> QED BY <2>2, <2>3 DEF AllRules
<1>4. Members /\ \A f \in Flow : Alone(f) /\ Explained(f, why[f], faults)
  BY DEF Init, Members, Alone, Explained
<1> QED BY <1>1, <1>2, <1>3, <1>4 DEF EnsureInv

(* Whichever migrations run side by side, fail and are repeated, the       *)
(* inductive invariant holds.                                              *)
THEOREM EnsureInvariant == Spec => []EnsureInv
<1>1. EnsureInv /\ [Next]_vars => EnsureInv'
  BY EnsureStep
<1> QED BY <1>1, EnsureInit, PTL DEF Spec

(* Every variable of the resources keeps its type.                         *)
THEOREM EnsureTypes == Spec => []TypeOK
<1>1. EnsureInv => TypeOK
  BY DEF EnsureInv
<1> QED BY <1>1, EnsureInvariant, PTL

(* What a task reports as done is in the destination, with all the rules   *)
(* the destination takes.                                                  *)
THEOREM CopiesAreThere == Spec => []DoneMeansCopied
<1>1. ASSUME EnsureInv PROVE DoneMeansCopied
  <2> SUFFICES ASSUME NEW f \in Flow, NEW r \in Resource, step[f][r] = "done"
               PROVE  /\ r \in cloud
                      /\ r[1] = "secgroup" => rules[r[2]] = Accepted(r[2]) /\ ~Sourced(r[2])
    BY DEF DoneMeansCopied
  <2>1. r \in cloud
    BY <1>1 DEF EnsureInv, Found
  <2>2. CASE r[1] = "secgroup"
    BY <1>1, <2>1, <2>2, SecGroups DEF EnsureInv, AllRules
  <2> QED BY <2>1, <2>2
<1> QED BY <1>1, EnsureInvariant, PTL

(* A migration fails for no other reason than the known ones: it takes     *)
(* another one beside it for a name to be taken.                           *)
THEOREM FailuresHaveReasons == Spec => []FailuresExplained
<1>1. ASSUME EnsureInv PROVE FailuresExplained
  BY <1>1 DEF EnsureInv, Explained, FailuresExplained
<1> QED BY <1>1, EnsureInvariant, PTL

-----------------------------------------------------------------------------
(***************************************************************************)
(* Transfers of data.                                                      *)
(***************************************************************************)

(* The tenths that are counted: they leave less than a tenth uncounted, or *)
(* exactly one when the quotient came out just below a whole number.       *)
LEMMA TenthsBounds ==
    ASSUME NEW size \in Nat \ {0}, NEW lag \in Nat, NEW n \in Tenths(lag, size)
    PROVE  n \in Nat /\ lag - n * size \in 0..size
<1>1. /\ lag = size * (lag \div size) + (lag % size)
      /\ lag % size \in 0..(size - 1)
      /\ lag \div size \in Nat
  OBVIOUS
<1> DEFINE q == lag \div size
           m == lag % size
<1>2. n = q \/ (n = q - 1 /\ q > 0 /\ m = 0)
  BY DEF Tenths
<1> HIDE DEF q, m
<1>3. CASE n = q
  BY <1>1, <1>3 DEF q, m
<1>4. CASE n = q - 1 /\ q > 0 /\ m = 0
  <2>1. lag = size * q
    BY <1>1, <1>4 DEF q, m
  <2>2. q \in Nat
    BY <1>1 DEF q
  <2>3. n * size = size * q - size
    BY <1>4, <2>2
  <2> QED BY <1>4, <2>1, <2>2, <2>3
<1> QED BY <1>2, <1>3, <1>4

(* The state of an UploadReporter, ...                                     *)
Meter == [uploaded : Nat, tenths : Nat, reports : Nat]

(* ... and how it agrees with what was uploaded of a file of that size.    *)
Metered(r, size) ==
    /\ r.uploaded <= size
    /\ 10 * r.uploaded - r.tenths * size \in 0..size
    /\ r.tenths <= 10
    /\ r.reports <= r.tenths

(* update keeps it so, whatever chunk it is told of.                       *)
LEMMA UpdateIsMetered ==
    ASSUME NEW size \in Nat, NEW r \in Meter, Metered(r, size),
           NEW c \in Nat \ {0}, r.uploaded + c <= size,
           NEW s \in Update(r, size, c)
    PROVE  s \in Meter /\ Metered(s, size)
<1> DEFINE sum == r.uploaded + c
           lag == 10 * sum - r.tenths * size
<1>1. PICK n \in Tenths(lag, size) :
          s = [uploaded |-> sum, tenths |-> r.tenths + n, reports |-> Report(r.reports, n)]
  BY DEF Update
<1>2. size > 0 /\ sum \in Nat /\ sum <= size /\ r.tenths \in Nat /\ r.reports \in Nat
  BY DEF Meter
<1>3. lag \in Nat
  <2>1. 10 * sum = 10 * r.uploaded + 10 * c
    BY DEF Meter
  <2>2. 10 * r.uploaded - r.tenths * size \in Nat
    BY DEF Metered
  <2>3. r.tenths * size \in Nat /\ r.uploaded \in Nat
    BY DEF Meter
  <2> QED BY <2>1, <2>2, <2>3
<1>4. n \in Nat /\ lag - n * size \in 0..size
  BY <1>2, <1>3, TenthsBounds
<1>5. 10 * sum - (r.tenths + n) * size \in 0..size
  <2>1. (r.tenths + n) * size = r.tenths * size + n * size
    BY <1>2, <1>4
  <2>2. r.tenths * size \in Nat /\ n * size \in Nat
    BY <1>2, <1>4
  <2> QED BY <1>2, <1>4, <2>1, <2>2
<1>6. r.tenths + n <= 10
  <2> DEFINE t == r.tenths + n
  <2>1. SUFFICES ASSUME t > 10 PROVE FALSE
    BY <1>2, <1>4
  <2>2. t \in Nat /\ t * size <= 10 * size
    <3>1. t * size \in Nat /\ t \in Nat
      BY <1>2, <1>4
    <3> QED BY <1>2, <1>5, <3>1
  <2>3. t * size >= 11 * size
    BY <2>1, <2>2, <1>2
  <2> QED BY <2>2, <2>3, <1>2
<1>7. Report(r.reports, n) \in Nat /\ Report(r.reports, n) <= r.tenths + n
  BY <1>2, <1>4 DEF Report, Metered
<1> QED BY <1>1, <1>2, <1>4, <1>5, <1>6, <1>7 DEF Metered, Meter

-----------------------------------------------------------------------------
(* The inductive invariant.                                                *)

(* Types, with the reporter's state and what follows from having begun.    *)
Typed ==
    /\ TransferTypeOK
    /\ meter \in [Transfer -> Meter]
    /\ \A x \in Transfer : Metered(meter[x], Size[x])
    /\ \A x \in Transfer : stage[x] # "idle" => run[x] > 0

(* x has looked and not found its data, and copies it.                     *)
Uploading(x) == stage[x] \in {"create", "upload"}

(* A slot is empty until its run creates its image.                        *)
Slots(x) ==
    \A n \in Run : copy[x][n] # "none" =>
        \/ n < run[x]
        \/ n = run[x] /\ stage[x] \notin {"ask", "wait", "look", "create"}

(* What x needs was done before x was begun, and stays so.                 *)
NeedsDone(x) == run[x] > 0 => \A y \in Needs[x] : stage[y] = "done"

(* What is handed on is complete and of the right content.                 *)
Handed(x) ==
    /\ stage[x] = "check" => Status(Here(x)) = "active"
    /\ stage[x] \in {"build", "building", "done"} =>
           given[x] \in Same(x) /\ Status(given[x]) = "active"

(* As long as x copies, nobody else has the same data or copies it, unless *)
(* it is raced.                                                            *)
Exclusive(x) ==
    Uploading(x) =>
        \/ Data(Here(x)) \in raced
        \/ /\ \A c \in Copy : Data(c) = Data(Here(x)) => Status(c) # "active"
           /\ \A y \in Transfer \ {x} :
                  Uploading(y) => Data(Here(y)) # Data(Here(x))

(* All of it, which is inductive.                                          *)
TransferInv ==
    /\ Typed
    /\ \A x \in Transfer : Slots(x)
    /\ \A x \in Transfer : NeedsDone(x)
    /\ \A x \in Transfer : Handed(x)
    /\ \A x \in Transfer : Exclusive(x)
    /\ CompleteOnce

(* Every step keeps the types.                                             *)
LEMMA TypesStep ==
    ASSUME Typed, [TransferNext]_transferVars
    PROVE  Typed'
<1> USE TransferAssumption DEF Typed, TransferTypeOK, To
<1>0. \A x \in Transfer : stage[x] # "idle" => Here(x) \in Copy
  BY DEF Here, Copy, Run
<1>1. ASSUME NEW x \in Transfer, Begin(x) PROVE Typed'
  <2>1. run'[x] \in 1..MaxRuns
    BY <1>1 DEF Begin
  <2>2. NoReport \in Meter /\ Metered(NoReport, Size[x])
    BY DEF NoReport, Meter, Metered
  <2>3. meter' \in [Transfer -> Meter] /\ \A y \in Transfer : Metered(meter'[y], Size[y])
    BY <1>1, <2>2 DEF Begin
  <2>4. run' \in [Transfer -> 0..MaxRuns] /\ \A y \in Transfer : stage'[y] # "idle" => run'[y] > 0
    BY <1>1, <2>1 DEF Begin
  <2> QED BY <1>1, <2>3, <2>4 DEF Begin, Meter
<1>2. ASSUME NEW x \in Transfer, SnapshotServer(x) PROVE Typed'
  BY <1>2 DEF SnapshotServer
<1>3. ASSUME NEW x \in Transfer, UploadVolume(x) PROVE Typed'
  BY <1>3 DEF UploadVolume
<1>4. ASSUME NEW x \in Transfer, SourceStores(x) PROVE Typed'
  BY <1>4 DEF SourceStores
<1>5. ASSUME NEW x \in Transfer, SourceImageObserved(x) PROVE Typed'
  BY <1>5 DEF SourceImageObserved
<1>6. ASSUME NEW x \in Transfer, LookForImage(x) PROVE Typed'
  <2>1. stage' \in [Transfer -> {"idle", "ask", "wait", "look", "create", "upload", "check",
                                 "build", "building", "done", "failed"}]
        /\ run[x] > 0 /\ \A y \in Transfer \ {x} : stage'[y] = stage[y]
    BY <1>6 DEF LookForImage, Copied
  <2>2. given' \in [Transfer -> Copy \cup {Nowhere}]
    <3>1. CASE given' = given
      BY <3>1
    <3>2. CASE given' # given
      <4>1. PICK c \in Same(x) : given' = [given EXCEPT ![x] = c]
        BY <1>6, <3>2 DEF LookForImage
      <4>2. c \in Copy
        BY DEF Same
      <4> QED BY <4>1, <4>2
    <3> QED BY <3>1, <3>2
  <2> QED BY <1>6, <2>1, <2>2 DEF LookForImage
<1>7. ASSUME NEW x \in Transfer, CreateImage(x) PROVE Typed'
  BY <1>0, <1>7 DEF CreateImage, SetCopy
<1>8. ASSUME NEW x \in Transfer, UploadChunk(x) PROVE Typed'
  <2>1. PICK c \in Chunk[x] : /\ meter[x].uploaded + c <= Size[x]
                              /\ \E r \in Update(meter[x], Size[x], c) : meter' = [meter EXCEPT ![x] = r]
    BY <1>8 DEF UploadChunk
  <2>2. PICK r \in Update(meter[x], Size[x], c) : meter' = [meter EXCEPT ![x] = r]
    BY <2>1
  <2>3. r \in Meter /\ Metered(r, Size[x])
    <3>1. c \in Nat \ {0} /\ Size[x] \in Nat /\ meter[x] \in Meter
      OBVIOUS
    <3> QED BY <2>1, <2>2, <3>1, UpdateIsMetered
  <2>4. meter'[x] = r /\ \A y \in Transfer \ {x} : meter'[y] = meter[y]
    BY <2>2
  <2>5. \A y \in Transfer : Metered(meter'[y], Size[y])
    BY <2>3, <2>4
  <2>6. meter' \in [Transfer -> Meter]
    BY <2>2, <2>3
  <2> QED BY <1>8, <2>5, <2>6 DEF UploadChunk, Meter
<1>9. ASSUME NEW x \in Transfer, UploadEnds(x) PROVE Typed'
  BY <1>9 DEF UploadEnds, SetCopy
<1>10. ASSUME NEW x \in Transfer, UploadedEvent(x) PROVE Typed'
  BY <1>0, <1>10 DEF UploadedEvent, Copied
<1>11. ASSUME NEW x \in Transfer, CreateVolumeFromImage(x) PROVE Typed'
  BY <1>11 DEF CreateVolumeFromImage, SetVolume
<1>12. ASSUME NEW x \in Transfer, CinderBuilds(x) PROVE Typed'
  BY <1>12 DEF CinderBuilds
<1>13. ASSUME NEW x \in Transfer, VolumeObserved(x) PROVE Typed'
  BY <1>13 DEF VolumeObserved
<1>14. ASSUME NEW x \in Transfer, WaitGivesUp(x) PROVE Typed'
  BY <1>14 DEF WaitGivesUp
<1>15. ASSUME NEW x \in Transfer, TransferFails(x) PROVE Typed'
  <2>1. copy' = copy \/ SetCopy(x, "saving") \/ SetCopy(x, "active")
    BY <1>15 DEF TransferFails
  <2>2. copy' \in [Transfer -> [Run -> {"none", "saving", "active"}]]
    <3>1. CASE copy' = copy
      BY <3>1
    <3>2. CASE SetCopy(x, "saving")
      BY <3>2 DEF SetCopy
    <3>3. CASE SetCopy(x, "active")
      BY <3>3 DEF SetCopy
    <3> QED BY <2>1, <3>1, <3>2, <3>3
  <2>3. volume' = volume \/ SetVolume(x, "creating")
    BY <1>15 DEF TransferFails
  <2>4. volume' \in [Transfer -> [Run -> {"none", "creating", "available", "error"}]]
    <3>1. CASE volume' = volume
      BY <3>1
    <3>2. CASE SetVolume(x, "creating")
      BY <3>2 DEF SetVolume
    <3> QED BY <2>3, <3>1, <3>2
  <2>5. /\ stage' = [stage EXCEPT ![x] = "failed"] /\ run[x] > 0
        /\ errors' \in 0..MaxErrors
        /\ UNCHANGED <<asked, run, base, given, meter, banner>>
    BY <1>15 DEF TransferFails
  <2> QED BY <2>2, <2>4, <2>5
<1>16. CASE UNCHANGED transferVars
  BY <1>16 DEF transferVars
<1>17. asked \subseteq Transfer
  OBVIOUS
<1> QED
  BY <1>1, <1>2, <1>3, <1>4, <1>5, <1>6, <1>7, <1>8, <1>9, <1>10, <1>11, <1>12, <1>13,
     <1>14, <1>15, <1>16, <1>17
     DEF TransferNext, TransferStep

-----------------------------------------------------------------------------
(* What a step does to the copies, whichever kind of task takes it.        *)

(* Nothing of the copies changes but the stage of x.                       *)
Quiet(x, from, to) ==
    /\ stage[x] = from
    /\ To(x, to)
    /\ \/ from = to
       \/ <<from, to>> \in {<<"ask", "wait">>, <<"wait", "look">>,
                            <<"build", "building">>, <<"building", "done">>}
       \/ from \notin {"idle", "done"} /\ to = "failed"
    /\ UNCHANGED <<asked, run, copy, given, raced>>

(* x has created its image, and goes on, or is told that it has failed.    *)
Creates(x) ==
    /\ stage[x] = "create"
    /\ SetCopy(x, "saving")
    /\ To(x, "upload") \/ To(x, "failed")
    /\ UNCHANGED <<asked, run, given, raced>>

(* All the data of x is there.                                             *)
Stores(x) ==
    /\ stage[x] = "upload"
    /\ SetCopy(x, "active")
    /\ To(x, "check") \/ To(x, "failed")
    /\ UNCHANGED <<asked, run, given, raced>>

(* Every step is of one of these kinds, or one of three that say more.     *)
LEMMA KindsOfSteps ==
    ASSUME Typed, [TransferNext]_transferVars
    PROVE  \/ \E x \in Transfer :
                \/ Begin(x) \/ LookForImage(x) \/ UploadedEvent(x)
                \/ Creates(x) \/ Stores(x)
                \/ \E from, to : Quiet(x, from, to)
           \/ UNCHANGED <<asked, stage, run, copy, given, raced>>
<1> DEFINE Goal(x) == \/ Begin(x) \/ LookForImage(x) \/ UploadedEvent(x)
                      \/ Creates(x) \/ Stores(x)
                      \/ \E from, to : Quiet(x, from, to)
                      \/ UNCHANGED <<asked, stage, run, copy, given, raced>>
<1>1. ASSUME NEW x \in Transfer, SnapshotServer(x) \/ UploadVolume(x) PROVE Goal(x)
  <2>1. Quiet(x, "ask", "wait")
    BY <1>1 DEF SnapshotServer, UploadVolume, Quiet
  <2> QED BY <2>1
<1>2. ASSUME NEW x \in Transfer, SourceImageObserved(x) PROVE Goal(x)
  <2>1. Quiet(x, "wait", "look")
    BY <1>2 DEF SourceImageObserved, Quiet
  <2> QED BY <2>1
<1>3. ASSUME NEW x \in Transfer, CreateImage(x) \/ UploadEnds(x) PROVE Goal(x)
  BY <1>3 DEF CreateImage, UploadEnds, Creates, Stores
<1>4. ASSUME NEW x \in Transfer, CreateVolumeFromImage(x) PROVE Goal(x)
  <2>1. Quiet(x, "build", "building")
    BY <1>4 DEF CreateVolumeFromImage, Quiet
  <2> QED BY <2>1
<1>5. ASSUME NEW x \in Transfer, VolumeObserved(x) PROVE Goal(x)
  <2>1. Quiet(x, "building", "done")
    BY <1>5 DEF VolumeObserved, Quiet
  <2> QED BY <2>1
<1>6. ASSUME NEW x \in Transfer, WaitGivesUp(x) PROVE Goal(x)
  <2>1. Quiet(x, stage[x], "failed")
    BY <1>6 DEF WaitGivesUp, Quiet
  <2> QED BY <2>1
<1>7. ASSUME NEW x \in Transfer, TransferFails(x) PROVE Goal(x)
  <2>1. stage[x] \notin {"idle", "done"} /\ To(x, "failed") /\ UNCHANGED <<asked, run, given, raced>>
    BY <1>7 DEF TransferFails
  <2>2. CASE copy' = copy
    <3>1. Quiet(x, stage[x], "failed")
      BY <2>1, <2>2 DEF Quiet
    <3> QED BY <3>1
  <2>3. CASE stage[x] = "create" /\ SetCopy(x, "saving")
    BY <2>1, <2>3 DEF Creates
  <2>4. CASE stage[x] = "upload" /\ SetCopy(x, "active")
    BY <2>1, <2>4 DEF Stores
  <2> QED BY <1>7, <2>2, <2>3, <2>4 DEF TransferFails
<1>8. ASSUME NEW x \in Transfer, SourceStores(x) \/ UploadChunk(x) \/ CinderBuilds(x) PROVE Goal(x)
  BY <1>8 DEF SourceStores, UploadChunk, CinderBuilds
<1>9. asked \subseteq Transfer
  BY TransferAssumption DEF Typed, TransferTypeOK
<1>10. CASE UNCHANGED transferVars
  BY <1>10 DEF transferVars
<1>11. CASE TransferNext
  <2>1. PICK x \in Transfer : Begin(x) \/ TransferStep(x) \/ SourceStores(x)
                              \/ CinderBuilds(x) \/ TransferFails(x)
    BY <1>9, <1>11 DEF TransferNext
  <2>2. Goal(x)
    <3> HIDE DEF Goal
    <3>1. Begin(x) \/ LookForImage(x) \/ UploadedEvent(x) => Goal(x)
      BY DEF Goal
    <3> QED BY <1>1, <1>2, <1>3, <1>4, <1>5, <1>6, <1>7, <1>8, <2>1, <3>1 DEF TransferStep
  <2> QED BY <2>2
<1> QED BY <1>10, <1>11

(* What becomes of the state of each copy.                                 *)
LEMMA StatusAfter ==
    ASSUME Typed, NEW x \in Transfer, run[x] > 0, NEW s \in {"saving", "active"}, SetCopy(x, s)
    PROVE  /\ Here(x) \in Copy
           /\ \A c \in Copy : Status(c)' = IF c = Here(x) THEN s ELSE Status(c)
<1>1. run[x] \in Run /\ copy \in [Transfer -> [Run -> {"none", "saving", "active"}]]
  BY TransferAssumption DEF Typed, TransferTypeOK, Run
<1>2. ASSUME NEW c \in Copy PROVE Status(c)' = IF c = Here(x) THEN s ELSE Status(c)
  <2>1. PICK y \in Transfer, n \in Run : c = <<y, n>>
    BY DEF Copy
  <2>2. Status(c) = copy[y][n] /\ Status(c)' = copy'[y][n]
    BY <2>1 DEF Status
  <2>3. copy'[y][n] = IF y = x /\ n = run[x] THEN s ELSE copy[y][n]
    BY <1>1 DEF SetCopy
  <2>4. c = Here(x) <=> y = x /\ n = run[x]
    BY <2>1 DEF Here
  <2> QED BY <2>2, <2>3, <2>4
<1> QED BY <1>1, <1>2 DEF Here, Copy

-----------------------------------------------------------------------------
(* Every step keeps the slots of later runs empty.                         *)
LEMMA SlotsStep ==
    ASSUME Typed, \A x \in Transfer : Slots(x), [TransferNext]_transferVars
    PROVE  \A x \in Transfer : Slots(x)'
<1> USE TransferAssumption DEF Typed, TransferTypeOK, To, Slots, Run
<1>1. ASSUME NEW y \in Transfer, Begin(y) PROVE \A x \in Transfer : Slots(x)'
  BY <1>1 DEF Begin
<1>2. ASSUME NEW y \in Transfer, LookForImage(y) PROVE \A x \in Transfer : Slots(x)'
  <2>1. stage[y] = "look" /\ \E s : To(y, s)
    BY <1>2 DEF LookForImage, Copied
  <2>2. UNCHANGED <<run, copy>>
    BY <1>2 DEF LookForImage
  <2> QED BY <2>1, <2>2
<1>3. ASSUME NEW y \in Transfer, UploadedEvent(y) PROVE \A x \in Transfer : Slots(x)'
  BY <1>3 DEF UploadedEvent, Copied
<1>4. ASSUME NEW y \in Transfer, Creates(y) \/ Stores(y) PROVE \A x \in Transfer : Slots(x)'
  <2>1. \E s : SetCopy(y, s)
    BY <1>4 DEF Creates, Stores
  <2>2. \A x \in Transfer, n \in Run : x # y \/ n # run[y] => copy'[x][n] = copy[x][n]
    BY <2>1 DEF SetCopy
  <2>3. run' = run /\ stage'[y] \in {"upload", "failed", "check"} /\ \A x \in Transfer \ {y} : stage'[x] = stage[x]
    BY <1>4 DEF Creates, Stores
  <2>4. ASSUME NEW x \in Transfer, x # y PROVE Slots(x)'
    BY <2>2, <2>3, <2>4
  <2>5. Slots(y)'
    <3> SUFFICES ASSUME NEW n \in Run, copy'[y][n] # "none"
                 PROVE  n < run[y] \/ n = run[y]
      BY <2>3
    <3>1. CASE n # run[y]
      BY <2>2, <3>1
    <3> QED BY <3>1
  <2> QED BY <2>4, <2>5
<1>5. ASSUME NEW y \in Transfer, NEW from, NEW to, Quiet(y, from, to) PROVE \A x \in Transfer : Slots(x)'
  BY <1>5 DEF Quiet
<1>6. CASE UNCHANGED <<asked, stage, run, copy, given, raced>>
  BY <1>6
<1> QED BY <1>1, <1>2, <1>3, <1>4, <1>5, <1>6, KindsOfSteps

(* What was done stays done.                                               *)
LEMMA NeedsDoneStep ==
    ASSUME Typed, \A x \in Transfer : NeedsDone(x), [TransferNext]_transferVars
    PROVE  \A x \in Transfer : NeedsDone(x)'
<1> USE TransferAssumption DEF Typed, TransferTypeOK, To, NeedsDone
<1>1. ASSUME NEW y \in Transfer, Begin(y) PROVE \A x \in Transfer : NeedsDone(x)'
  BY <1>1 DEF Begin
<1>2. ASSUME NEW y \in Transfer, LookForImage(y) \/ UploadedEvent(y) PROVE \A x \in Transfer : NeedsDone(x)'
  <2>1. stage[y] # "done" /\ \E s : To(y, s)
    BY <1>2 DEF LookForImage, UploadedEvent, Copied
  <2>2. run' = run
    BY <1>2 DEF LookForImage, UploadedEvent
  <2> QED BY <2>1, <2>2
<1>3. ASSUME NEW y \in Transfer, Creates(y) \/ Stores(y) PROVE \A x \in Transfer : NeedsDone(x)'
  BY <1>3 DEF Creates, Stores
<1>4. ASSUME NEW y \in Transfer, NEW from, NEW to, Quiet(y, from, to) PROVE \A x \in Transfer : NeedsDone(x)'
  BY <1>4 DEF Quiet
<1>5. CASE UNCHANGED <<asked, stage, run, copy, given, raced>>
  BY <1>5
<1> QED BY <1>1, <1>2, <1>3, <1>4, <1>5, KindsOfSteps

(* A copy that x may hand on is one of the right content, and stays so      *)
(* until x is begun again.                                                 *)
LEMMA HandedStep ==
    ASSUME Typed, \A x \in Transfer : Slots(x), \A x \in Transfer : Handed(x),
           [TransferNext]_transferVars
    PROVE  \A x \in Transfer : Handed(x)'
<1> USE TransferAssumption DEF Typed, TransferTypeOK, To
<1>1. ASSUME NEW y \in Transfer, Begin(y) PROVE \A x \in Transfer : Handed(x)'
  <2>1. /\ stage'[y] \in {"look", "ask"} /\ UNCHANGED <<copy, given>>
        /\ \A x \in Transfer \ {y} : stage'[x] = stage[x] /\ run'[x] = run[x]
    BY <1>1 DEF Begin
  <2>2. \A c : Status(c)' = Status(c)
    BY <2>1 DEF Status
  <2>3. \A x \in Transfer \ {y} : Same(x)' = Same(x) /\ Here(x)' = Here(x)
    <3>1. ASSUME NEW x \in Transfer \ {y} PROVE Here(x)' = Here(x)
      BY <2>1 DEF Here
    <3> QED BY <3>1 DEF Same, Data
  <2>4. Handed(y)'
    BY <2>1 DEF Handed
  <2>5. ASSUME NEW x \in Transfer \ {y} PROVE Handed(x)'
    <3>1. stage'[x] = stage[x] /\ given' = given /\ Handed(x)
      BY <2>1
    <3> QED BY <2>2, <2>3, <3>1 DEF Handed
  <2> QED BY <2>4, <2>5
<1>2. ASSUME NEW y \in Transfer, LookForImage(y) PROVE \A x \in Transfer : Handed(x)'
  <2>1. UNCHANGED <<run, copy>> /\ \A x \in Transfer \ {y} : stage'[x] = stage[x] /\ given'[x] = given[x]
    BY <1>2 DEF LookForImage, Copied
  <2>2. \A c : Status(c)' = Status(c)
    BY <2>1 DEF Status
  <2>3. \A x \in Transfer : Same(x)' = Same(x)
    BY <2>1 DEF Same, Here, Data
  <2>4. /\ stage'[y] # "check"
        /\ stage'[y] \in {"build", "building", "done"} =>
               given'[y] \in Same(y) /\ Status(given'[y]) = "active"
    BY <1>2 DEF LookForImage, Copied
  <2>5. \A x \in Transfer : Here(x)' = Here(x)
    BY <2>1 DEF Here
  <2> QED BY <2>1, <2>2, <2>3, <2>4, <2>5 DEF Handed
<1>3. ASSUME NEW y \in Transfer, UploadedEvent(y) PROVE \A x \in Transfer : Handed(x)'
  <2>1. UNCHANGED <<run, copy>> /\ \A x \in Transfer \ {y} : stage'[x] = stage[x] /\ given'[x] = given[x]
    BY <1>3 DEF UploadedEvent, Copied
  <2>2. \A c : Status(c)' = Status(c)
    BY <2>1 DEF Status
  <2>3. \A x \in Transfer : Same(x)' = Same(x)
    BY <2>1 DEF Same, Here, Data
  <2>4. run[y] \in Run /\ given'[y] = Here(y) /\ Status(Here(y)) = "active"
    <3>1. stage[y] = "check" /\ given' = [given EXCEPT ![y] = Here(y)]
      BY <1>3 DEF UploadedEvent
    <3>2. run[y] > 0 /\ run[y] \in 0..MaxRuns
      BY <3>1
    <3>3. run[y] \in Run
      BY <3>2 DEF Run
    <3>4. given'[y] = Here(y)
      BY <3>1
    <3> QED BY <3>1, <3>3, <3>4 DEF Handed
  <2>5. Here(y) \in Same(y)
    BY <2>4 DEF Same, Here, Copy
  <2>6. stage'[y] \in {"build", "done"}
    BY <1>3 DEF UploadedEvent, Copied
  <2>7. \A x \in Transfer : Here(x)' = Here(x)
    BY <2>1 DEF Here
  <2> QED BY <2>1, <2>2, <2>3, <2>4, <2>5, <2>6, <2>7 DEF Handed
<1>4. ASSUME NEW y \in Transfer, Creates(y) \/ Stores(y) PROVE \A x \in Transfer : Handed(x)'
  <2>1. PICK s \in {"saving", "active"} : SetCopy(y, s) /\ (s = "saving" => stage[y] = "create")
    BY <1>4 DEF Creates, Stores
  <2>2. run[y] > 0
    BY <1>4 DEF Creates, Stores
  <2>3. Here(y) \in Copy /\ \A c \in Copy : Status(c)' = IF c = Here(y) THEN s ELSE Status(c)
    BY <2>1, <2>2, StatusAfter DEF Typed
  <2>4. s = "saving" => Status(Here(y)) = "none"
    BY <2>1, <2>2 DEF Slots, Status, Here, Run
  <2>5. \A c \in Copy : Status(c) = "active" => Status(c)' = "active"
    BY <2>3, <2>4
  <2>6. /\ UNCHANGED <<run, given>> /\ stage'[y] \in {"upload", "check", "failed"}
        /\ \A x \in Transfer \ {y} : stage'[x] = stage[x]
    BY <1>4 DEF Creates, Stores
  <2>7. \A x \in Transfer : Same(x)' = Same(x) /\ Same(x) \subseteq Copy
    BY <2>6 DEF Same, Here, Data
  <2>8. \A x \in Transfer : Here(x)' = Here(x) /\ (stage[x] # "idle" => Here(x) \in Copy)
    BY <2>6 DEF Here, Copy, Run
  <2>9. Status(Here(y))' = s /\ (stage'[y] = "check" => s = "active")
    <3>1. copy'[y][run[y]] = s
      <4>1. run[y] \in Run
        BY <2>2 DEF Run
      <4> QED BY <2>1, <4>1 DEF SetCopy
    <3>2. Status(Here(y))' = s
      BY <2>6, <3>1 DEF Here, Status
    <3>3. stage'[y] = "check" => stage[y] = "upload"
      BY <1>4 DEF Creates, Stores
    <3> QED BY <2>1, <3>2, <3>3
  <2>10. ASSUME NEW x \in Transfer PROVE stage'[x] = "check" => Status(Here(x))' = "active"
    BY <2>5, <2>6, <2>8, <2>9 DEF Handed
  <2>11. ASSUME NEW x \in Transfer, stage'[x] \in {"build", "building", "done"}
         PROVE  given'[x] \in Same(x)' /\ Status(given[x])' = "active"
    BY <2>5, <2>6, <2>7, <2>11 DEF Handed
  <2> QED BY <2>10, <2>11 DEF Handed
<1>5. ASSUME NEW y \in Transfer, NEW from, NEW to, Quiet(y, from, to) PROVE \A x \in Transfer : Handed(x)'
  <2>1. /\ UNCHANGED <<run, copy, given>>
        /\ stage'[y] \in {"build", "building", "done"} => stage[y] \in {"build", "building", "done"}
        /\ stage'[y] = "check" => stage[y] = "check"
        /\ \A x \in Transfer \ {y} : stage'[x] = stage[x]
    BY <1>5 DEF Quiet
  <2>2. \A c : Status(c)' = Status(c)
    BY <2>1 DEF Status
  <2>3. \A x \in Transfer : Same(x)' = Same(x) /\ Here(x)' = Here(x)
    BY <2>1 DEF Same, Here, Data
  <2> QED BY <2>1, <2>2, <2>3 DEF Handed
<1>6. CASE UNCHANGED <<asked, stage, run, copy, given, raced>>
  BY <1>6 DEF Handed, Same, Here, Data, Status
<1> QED BY <1>1, <1>2, <1>3, <1>4, <1>5, <1>6, KindsOfSteps

-----------------------------------------------------------------------------
(* A step that starts no copying and completes no copy leaves the copies   *)
(* complete once.                                                          *)
LEMMA NothingNew ==
    ASSUME \A x \in Transfer : Exclusive(x), CompleteOnce,
           raced \subseteq raced',
           \A x \in Transfer : Uploading(x)' => Uploading(x) /\ run'[x] = run[x],
           \A c \in Copy : Status(c)' = "active" => Status(c) = "active"
    PROVE  CompleteOnce' /\ \A x \in Transfer : Exclusive(x)'
<1>1. CompleteOnce'
  BY DEF CompleteOnce, Data
<1>2. ASSUME NEW x \in Transfer, Uploading(x)' PROVE Exclusive(x)'
  <2>1. Uploading(x) /\ Here(x)' = Here(x) /\ Data(Here(x))' = Data(Here(x))
    BY <1>2 DEF Here, Data
  <2>2. CASE Data(Here(x)) \in raced
    BY <2>1, <2>2 DEF Exclusive
  <2>3. CASE Data(Here(x)) \notin raced
    <3>1. \A c \in Copy : Data(c)' = Data(Here(x)) => Status(c)' # "active"
      BY <2>1, <2>3 DEF Exclusive, Data
    <3>2. ASSUME NEW y \in Transfer \ {x}, Uploading(y)'
          PROVE  Data(Here(y))' # Data(Here(x))
      <4>1. Uploading(y) /\ Data(Here(y))' = Data(Here(y))
        BY <3>2 DEF Here, Data
      <4> QED BY <2>1, <2>3, <4>1 DEF Exclusive
    <3> QED BY <2>1, <3>1, <3>2 DEF Exclusive
  <2> QED BY <2>2, <2>3
<1>3. \A x \in Transfer : ~Uploading(x)' => Exclusive(x)'
  BY DEF Exclusive
<1> QED BY <1>1, <1>2, <1>3

(* Copies are complete once: who creates a copy has looked before, and     *)
(* either nobody else was copying the same then or it counts as raced.     *)
LEMMA OnceStep ==
    ASSUME Typed, \A x \in Transfer : Slots(x), \A x \in Transfer : Exclusive(x), CompleteOnce,
           [TransferNext]_transferVars
    PROVE  CompleteOnce' /\ \A x \in Transfer : Exclusive(x)'
<1> DEFINE Goal == CompleteOnce' /\ \A x \in Transfer : Exclusive(x)'
<1>0. stage \in [Transfer -> {"idle", "ask", "wait", "look", "create", "upload", "check",
                              "build", "building", "done", "failed"}]
      /\ run \in [Transfer -> 0..MaxRuns] /\ \A x \in Transfer : stage[x] # "idle" => run[x] > 0
  BY DEF Typed, TransferTypeOK
<1> HIDE DEF Goal
<1>1. ASSUME NEW y \in Transfer, Begin(y) PROVE Goal
  <2>1. /\ stage'[y] \in {"look", "ask"} /\ UNCHANGED <<copy, raced>>
        /\ \A x \in Transfer \ {y} : stage'[x] = stage[x] /\ run'[x] = run[x]
    BY <1>0, <1>1 DEF Begin, To
  <2>2. \A x \in Transfer : Uploading(x)' => Uploading(x) /\ run'[x] = run[x]
    BY <2>1 DEF Uploading
  <2>3. \A c \in Copy : Status(c)' = Status(c)
    BY <2>1 DEF Status
  <2> QED BY <2>1, <2>2, <2>3, NothingNew DEF Goal
<1>2. ASSUME NEW y \in Transfer, LookForImage(y) PROVE Goal
  <2>1. /\ UNCHANGED <<run, copy>> /\ raced \subseteq raced'
        /\ \A x \in Transfer \ {y} : stage'[x] = stage[x]
    BY <1>0, <1>2 DEF LookForImage, Copied, To
  <2>2. \A c \in Copy : Status(c)' = Status(c)
    BY <2>1 DEF Status
  <2>3. CASE stage'[y] \notin {"create", "upload"}
    <3>1. \A x \in Transfer : Uploading(x)' => Uploading(x) /\ run'[x] = run[x]
      BY <2>1, <2>3 DEF Uploading
    <3> QED BY <2>1, <2>2, <3>1, NothingNew DEF Goal
  <2>4. CASE stage'[y] \in {"create", "upload"}
    <3>1. /\ \A c \in Same(y) : Status(c) # "active"
          /\ raced' = IF \E x \in Transfer \ {y} :
                             Uploading(x) /\ Data(Here(x)) = Data(Here(y))
                      THEN raced \cup {Data(Here(y))} ELSE raced
      BY <1>0, <1>2, <2>4 DEF LookForImage, Copied, To, Uploading
    <3>2. \A x \in Transfer : Here(x)' = Here(x) /\ Data(Here(x))' = Data(Here(x))
      BY <2>1 DEF Here, Data
    <3>3. CompleteOnce'
      BY <2>1, <2>2 DEF CompleteOnce, Data
    <3>4. Exclusive(y)'
      <4>1. CASE Data(Here(y)) \in raced'
        BY <3>2, <4>1 DEF Exclusive
      <4>2. CASE Data(Here(y)) \notin raced'
        <5>1. \A x \in Transfer \ {y} : Uploading(x) => Data(Here(x)) # Data(Here(y))
          BY <3>1, <4>2
        <5>2. \A x \in Transfer \ {y} : Uploading(x)' => Data(Here(x))' # Data(Here(y))'
          BY <2>1, <3>2, <5>1 DEF Uploading
        <5>3. \A c \in Copy : Data(c)' = Data(Here(y))' => Status(c)' # "active"
          BY <2>2, <3>1, <3>2 DEF Same, Data
        <5> QED BY <5>2, <5>3 DEF Exclusive
      <4> QED BY <4>1, <4>2
    <3>5. ASSUME NEW x \in Transfer \ {y}, Uploading(x)' PROVE Exclusive(x)'
      <4>1. Uploading(x)
        BY <2>1, <3>5 DEF Uploading
      <4>2. CASE Data(Here(x)) \in raced'
        BY <3>2, <4>2 DEF Exclusive
      <4>3. CASE Data(Here(x)) \notin raced'
        <5>1. Data(Here(x)) \notin raced /\ Data(Here(y)) # Data(Here(x))
          BY <2>1, <3>1, <4>1, <4>3
        <5>2. \A z \in Transfer \ {x} : Uploading(z)' => Data(Here(z))' # Data(Here(x))'
          BY <2>1, <3>2, <4>1, <5>1 DEF Uploading, Exclusive
        <5>3. \A c \in Copy : Data(c)' = Data(Here(x))' => Status(c)' # "active"
          BY <2>2, <3>2, <4>1, <5>1 DEF Exclusive, Data
        <5> QED BY <5>2, <5>3 DEF Exclusive
      <4> QED BY <4>2, <4>3
    <3>6. \A x \in Transfer : ~Uploading(x)' => Exclusive(x)'
      BY DEF Exclusive
    <3> QED BY <3>3, <3>4, <3>5, <3>6 DEF Goal
  <2> QED BY <2>3, <2>4
<1>3. ASSUME NEW y \in Transfer, UploadedEvent(y) PROVE Goal
  <2>1. /\ UNCHANGED <<run, copy, raced>> /\ stage'[y] \in {"build", "done"}
        /\ \A x \in Transfer \ {y} : stage'[x] = stage[x]
    BY <1>0, <1>3 DEF UploadedEvent, Copied, To
  <2>2. \A c \in Copy : Status(c)' = Status(c)
    BY <2>1 DEF Status
  <2>3. \A x \in Transfer : Uploading(x)' => Uploading(x) /\ run'[x] = run[x]
    BY <2>1 DEF Uploading
  <2> QED BY <2>1, <2>2, <2>3, NothingNew DEF Goal
<1>4. ASSUME NEW y \in Transfer, Creates(y) PROVE Goal
  <2>1. /\ UNCHANGED <<run, raced>> /\ stage[y] = "create"
        /\ \A x \in Transfer \ {y} : stage'[x] = stage[x]
    BY <1>0, <1>4 DEF Creates, To
  <2>2. \A c \in Copy : Status(c)' = "active" => Status(c) = "active"
    BY <1>0, <1>4, StatusAfter DEF Creates
  <2>3. \A x \in Transfer : Uploading(x)' => Uploading(x) /\ run'[x] = run[x]
    BY <2>1 DEF Uploading
  <2> QED BY <2>1, <2>2, <2>3, NothingNew DEF Goal
<1>5. ASSUME NEW y \in Transfer, Stores(y) PROVE Goal
  <2>1. /\ UNCHANGED <<run, raced>> /\ stage[y] = "upload" /\ stage'[y] \in {"check", "failed"}
        /\ \A x \in Transfer \ {y} : stage'[x] = stage[x]
    BY <1>0, <1>5 DEF Stores, To
  <2>2. Here(y) \in Copy /\ \A c \in Copy : Status(c)' = IF c = Here(y) THEN "active" ELSE Status(c)
    BY <1>0, <1>5, StatusAfter DEF Stores
  <2>3. \A x \in Transfer : Here(x)' = Here(x) /\ Data(Here(x))' = Data(Here(x))
    BY <2>1 DEF Here, Data
  <2>4. Uploading(y) /\ Exclusive(y)
    BY <2>1 DEF Uploading
  <2>5. \A c \in Copy : c # Here(y) /\ Status(c) = "active" /\ Data(c) = Data(Here(y))
            => Data(Here(y)) \in raced
    BY <2>4 DEF Exclusive
  <2>6. CompleteOnce'
    <3> SUFFICES ASSUME NEW c \in Copy, NEW d \in Copy, c # d, Data(c) = Data(d),
                        Status(c)' = "active", Status(d)' = "active"
                 PROVE  Data(c) \in raced
      BY <2>1 DEF CompleteOnce, Data
    <3>1. CASE c = Here(y)
      BY <2>2, <2>5, <3>1
    <3>2. CASE d = Here(y)
      BY <2>2, <2>5, <3>2
    <3>3. CASE c # Here(y) /\ d # Here(y)
      BY <2>2, <3>3 DEF CompleteOnce
    <3> QED BY <3>1, <3>2, <3>3
  <2>7. ASSUME NEW x \in Transfer, Uploading(x)' PROVE Exclusive(x)'
    <3>1. x # y /\ Uploading(x)
      BY <2>1, <2>7 DEF Uploading
    <3>2. CASE Data(Here(x)) \in raced
      BY <2>1, <2>3, <3>2 DEF Exclusive
    <3>3. CASE Data(Here(x)) \notin raced
      <4>1. \A z \in Transfer \ {x} : Uploading(z)' => Data(Here(z))' # Data(Here(x))'
        BY <2>1, <2>3, <3>1, <3>3 DEF Uploading, Exclusive
      <4>2. Data(Here(y)) # Data(Here(x))
        BY <2>4, <3>1, <3>3 DEF Exclusive
      <4>3. \A c \in Copy : Data(c)' = Data(Here(x))' => Status(c)' # "active"
        BY <2>2, <2>3, <3>1, <3>3, <4>2 DEF Exclusive, Data
      <4> QED BY <4>1, <4>3 DEF Exclusive
    <3> QED BY <3>2, <3>3
  <2>8. \A x \in Transfer : ~Uploading(x)' => Exclusive(x)'
    BY DEF Exclusive
  <2> QED BY <2>6, <2>7, <2>8 DEF Goal
<1>6. ASSUME NEW y \in Transfer, NEW from, NEW to, Quiet(y, from, to) PROVE Goal
  <2>1. /\ UNCHANGED <<run, copy, raced>>
        /\ stage'[y] \in {"create", "upload"} => stage[y] \in {"create", "upload"}
        /\ \A x \in Transfer \ {y} : stage'[x] = stage[x]
    BY <1>0, <1>6 DEF Quiet, To
  <2>2. \A c \in Copy : Status(c)' = Status(c)
    BY <2>1 DEF Status
  <2>3. \A x \in Transfer : Uploading(x)' => Uploading(x) /\ run'[x] = run[x]
    BY <2>1 DEF Uploading
  <2> QED BY <2>1, <2>2, <2>3, NothingNew DEF Goal
<1>7. CASE UNCHANGED <<asked, stage, run, copy, given, raced>>
  <2>1. \A c \in Copy : Status(c)' = Status(c)
    BY <1>7 DEF Status
  <2>2. \A x \in Transfer : Uploading(x)' => Uploading(x) /\ run'[x] = run[x]
    BY <1>7 DEF Uploading
  <2> QED BY <1>7, <2>1, <2>2, NothingNew DEF Goal
<1> QED BY <1>1, <1>2, <1>3, <1>4, <1>5, <1>6, <1>7, KindsOfSteps DEF Goal

-----------------------------------------------------------------------------
(* At the beginning nothing was begun.                                     *)
LEMMA TransferInvInit ==
    ASSUME TransferInit
    PROVE  TransferInv
<1> USE TransferAssumption DEF TransferInit
<1>1. Typed
  <2>1. NoReport \in Meter /\ \A x \in Transfer : Metered(NoReport, Size[x])
    BY DEF NoReport, Meter, Metered
  <2>2. meter \in [Transfer -> Meter] /\ \A x \in Transfer : Metered(meter[x], Size[x])
    BY <2>1
  <2> QED BY <2>2 DEF Typed, TransferTypeOK, Meter
<1>2. \A x \in Transfer : Slots(x)
  BY DEF Slots
<1>3. \A x \in Transfer : NeedsDone(x) /\ Handed(x) /\ Exclusive(x)
  <2>1. \A x \in Transfer : run[x] = 0 /\ stage[x] = "idle"
    OBVIOUS
  <2>2. \A x \in Transfer : NeedsDone(x)
    BY <2>1 DEF NeedsDone
  <2>3. \A x \in Transfer : Handed(x)
    BY <2>1 DEF Handed
  <2>4. \A x \in Transfer : Exclusive(x)
    BY <2>1 DEF Exclusive, Uploading
  <2> QED BY <2>2, <2>3, <2>4
<1>4. CompleteOnce
  BY DEF CompleteOnce, Status, Copy
<1> QED BY <1>1, <1>2, <1>3, <1>4 DEF TransferInv

(* Whatever the transfers do, and whichever of their requests fail, the    *)
(* inductive invariant holds.                                              *)
THEOREM TransferInvariant == TransferSpec => []TransferInv
<1>1. TransferInv /\ [TransferNext]_transferVars => TransferInv'
  BY TypesStep, SlotsStep, NeedsDoneStep, HandedStep, OnceStep DEF TransferInv
<1> QED BY <1>1, TransferInvInit, PTL DEF TransferSpec

(* Every variable keeps its type: no run beyond the bound is written.      *)
THEOREM TransferTypes == TransferSpec => []TransferTypeOK
<1>1. TransferInv => TransferTypeOK
  BY DEF TransferInv, Typed
<1> QED BY <1>1, TransferInvariant, PTL

(* What a transfer hands on is a complete copy of what it was to copy, and *)
(* an image is created only when the copies it boots with are complete,    *)
(* also after any number of failed runs.                                   *)
THEOREM TransfersAreComplete == TransferSpec => []HandsOnComplete
<1>1. ASSUME TransferInv PROVE HandsOnComplete
  <2>1. \A x \in Transfer : stage[x] \in {"build", "building", "done"} =>
            given[x] \in Same(x) /\ Status(given[x]) = "active"
    BY <1>1 DEF TransferInv, Handed
  <2>2. ASSUME NEW x \in Transfer, NEW n \in Run, copy[x][n] # "none", NEW y \in Needs[x]
        PROVE  Status(given[y]) = "active"
    <3>1. n \in Nat \ {0} /\ run[x] \in Nat /\ y \in Transfer
      BY <1>1, TransferAssumption DEF TransferInv, Typed, TransferTypeOK, Run
    <3>2. run[x] > 0
      BY <1>1, <2>2, <3>1 DEF TransferInv, Slots
    <3>3. stage[y] = "done"
      BY <1>1, <3>2 DEF TransferInv, NeedsDone
    <3> QED BY <2>1, <3>1, <3>3
  <2> QED BY <2>1, <2>2 DEF HandsOnComplete
<1> QED BY <1>1, TransferInvariant, PTL

(* No content is copied twice by transfers that are repeated or that start *)
(* after one another; only two that had both looked before either was      *)
(* finished leave it there twice.                                          *)
THEOREM CopiesAreOnce == TransferSpec => []CompleteOnce
<1>1. TransferInv => CompleteOnce
  BY DEF TransferInv
<1> QED BY <1>1, TransferInvariant, PTL

(* For every size and every way the data is cut into chunks, the reporter  *)
(* tells each tenth at most once and is never more than a tenth behind.    *)
THEOREM ReporterKeepsUp == TransferSpec => []ReportsKeepUp
<1>1. ASSUME TransferInv PROVE ReportsKeepUp
  <2>1. \A x \in Transfer : meter[x] \in Meter /\ Metered(meter[x], Size[x]) /\ Size[x] \in Nat
    BY <1>1, TransferAssumption DEF TransferInv, Typed
  <2>2. ASSUME NEW x \in Transfer
        PROVE  /\ 10 * meter[x].uploaded - meter[x].tenths * Size[x] \in 0..Size[x]
               /\ meter[x].reports <= meter[x].tenths /\ meter[x].reports <= 10
    <3>1. meter[x].reports \in Nat /\ meter[x].tenths \in Nat
      BY <2>1 DEF Meter
    <3> QED BY <2>1, <3>1 DEF Metered
  <2> QED BY <2>2 DEF ReportsKeepUp
<1> QED BY <1>1, TransferInvariant, PTL
=============================================================================
