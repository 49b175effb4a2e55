------------------------- MODULE MigrationPlanProofs -------------------------
(***************************************************************************)
(* Theorems about a migration, from the command to the exit code: for any  *)
(* inventory of the source cloud, any number of ids and any order in which *)
(* its servers are listed.                                                 *)
(*                                                                         *)
(* PlanInv is the invariant of the planning.  It says what the plan has    *)
(* for the ids that were taken, so that the properties of complete plans   *)
(* are what it says when none is left.  CircleInv says from which flows    *)
(* the names come that a flow requires: from itself or from one before,    *)
(* unless it is the default tenant of a user.  Main is what the command    *)
(* knows in each of its phases.                                            *)
(***************************************************************************)
EXTENDS CommandLine, FiniteSetTheorems, WellFoundedInduction, TLAPS

-----------------------------------------------------------------------------
(* The invariant.                                                          *)

(* How many ids have been taken from the queue.                            *)
Taken == Len(asked.ids) - Len(queue)

Given == IdsOf(asked.class)

(* The ids that are left are the last ones, and the servers in hand are    *)
(* those of the tenant that was taken last.                                *)
Order ==
    /\ inv \in Inventories
    /\ asked.ids \in Seq(Given)
    /\ queue \in Seq(Given)
    /\ Taken \in 0..Len(asked.ids)
    /\ \A k \in 1..Len(queue) : queue[k] = asked.ids[Taken + k]
    /\ Listed(asked.class) => IsInjective(asked.ids)
    /\ \A s \in servers : /\ s \in Servers
                          /\ asked.class = "resources"
                          /\ Taken > 0
                          /\ inv.tenantOf[s] = asked.ids[Taken]

(* A key in the store stands for a resource in the plan, but for those of  *)
(* public images and of volumes.                                           *)
Stored ==
    /\ Planned \subseteq store
    /\ store \subseteq Planned \cup Placeholders
    /\ asked.class = "identity" => store \subseteq Planned

(* The places in which the tenant of a server was given, as far as it has  *)
(* been planned.                                                           *)
Passed(s) ==
    {k \in 1..Taken : asked.ids[k] = inv.tenantOf[s] /\ ~(k = Taken /\ s \in servers)}

(* The images that are in the plan for themselves, not as kernels.         *)
Bases ==
    (IF asked.class = "images" THEN {asked.ids[k] : k \in 1..Taken} ELSE {}) \cup
    {inv.imageOf[s] : s \in
        {t \in Servers : <<"server", t>> \in Planned /\ asked.disk = "image"}}

(* All names that are required.                                            *)
Needed == {n[2] : n \in needs}

(* The servers in the plan are those whose tenants were taken.             *)
PlannedServers ==
    \A s \in Servers :
        <<"server", s>> \in Planned <=> asked.class = "resources" /\ Passed(s) # {}

(* The default tenant of a user in the plan is required.                   *)
PlannedUsers ==
    \A p \in Planned : p[1] = "user" =>
        /\ p[2] \in Users
        /\ inv.defaultTenant[p[2]] # None => <<"tenant", inv.defaultTenant[p[2]]>> \in Needed

(* The images in the plan are those planned for themselves, and their      *)
(* kernels.                                                                *)
PlannedImages ==
    \A i \in Images :
        <<"image", i>> \in Planned <=> \E b \in Bases : i \in {b, inv.kernelOf[b]}

(* What may be required though nothing supplies it.                        *)
Gap(r) ==
    \/ \E u \in Users : /\ <<"user", u>> \in Planned
                        /\ inv.defaultTenant[u] # None
                        /\ r = <<"tenant", inv.defaultTenant[u]>>
    \/ \E i \in Bases \cap inv.private : r = <<"user", inv.ownerOf[i]>>

(* All else that is required is in the plan, or in the store.              *)
Supplied ==
    \A r \in Needed : r \in Planned \/ (r \in Placeholders /\ r \in store) \/ Gap(r)

(* The owner of each image is required.                                    *)
OwnersNeeded == \A i \in Bases : ImageOwner(i) \in Needed

(* What is there twice: the servers of a tenant that was taken twice, and  *)
(* kernels of several images.                                              *)
DupServer(s) == asked.class = "resources" /\ \E i, j \in Passed(s) : i # j

DupImage(l) ==
    \E i \in Bases : \E j \in Bases \ {i} : inv.kernelOf[i] = l /\ l \in {j, inv.kernelOf[j]}

Duplicates ==
    {<<"server", s>> : s \in {t \in Servers : DupServer(t)}} \cup
    {<<"image", k>> : k \in {l \in Images : DupImage(l)}}

(* Exactly these are counted as being there twice.                         *)
TwiceAre == twice = Duplicates

(* With identities come the tenants, their users and the memberships of    *)
(* users that no earlier tenant has.                                       *)
Identities ==
    asked.class = "identity" =>
        /\ \A p \in Planned : p[1] = "user" =>
               \E k \in 1..Taken : p[2] \in ListedUsers(asked.ids[k])
        /\ \A k \in 1..Taken :
            /\ <<"tenant", asked.ids[k]>> \in Planned
            /\ \A u \in ListedUsers(asked.ids[k]) \ {AuthUser} : <<"user", u>> \in Planned
            /\ \A g \in {h \in Visible(inv.grants) : h[3] = asked.ids[k]} :
                \/ <<"user_role", g>> \in Planned
                \/ g[1] = AuthUser
                \/ \E j \in 1..(k - 1) : g[1] \in ListedUsers(asked.ids[j])

(* The plan is empty as long as no id is taken.                            *)
Begin == Taken = 0 => plan = {}

(* A plan of volumes has those that were taken.                            *)
PlannedVolumes ==
    asked.class = "volumes" => Planned = {<<"volume", asked.ids[k]>> : k \in 1..Taken}

PlanInv ==
    Order /\ Stored /\ PlannedServers /\ PlannedUsers /\ PlannedImages /\ PlannedVolumes
    /\ Supplied /\ OwnersNeeded /\ TwiceAre /\ Identities /\ OwnersKeepTheirRoles /\ Begin

(* Names of which the plan has one chain at most.                          *)
Single(r) == r[1] # "server" /\ ~(r[1] = "image" /\ \E i \in Images : inv.kernelOf[i] = r[2])

(* The id h was given before any f.                                        *)
Before(h, f) ==
    \E j \in DOMAIN asked.ids :
        asked.ids[j] = h /\ \A i \in DOMAIN asked.ids : asked.ids[i] = f => j < i

(* Where a name comes from that the flow f requires.                       *)
Comes(f, r) ==
    \/ <<f, r>> \in plan
    \/ \E u \in Users : r = <<"tenant", inv.defaultTenant[u]>> /\ <<f, <<"user", u>>>> \in plan
    \/ r[1] = "user" /\ r[2] \notin Users
    \/ Single(r) /\ \E p \in plan : p[2] = r /\ Before(p[1], f)

(* Flows are of ids that were taken, and bring no tenant but their own.    *)
FlowsAre ==
    \A p \in plan :
        /\ p = <<p[1], p[2]>>
        /\ \E k \in 1..Taken : asked.ids[k] = p[1]
        /\ p[2][1] = "tenant" => p[1] = p[2][2]

(* One flow brings a name that is single.                                  *)
OneFlow == \A p, q \in plan : p[2] = q[2] /\ Single(p[2]) => p[1] = q[1]

(* All that is required comes from somewhere.                              *)
NeedsCome == \A n \in needs : Comes(n[1], n[2])

(* What a server needs does not change when its tenant is taken again.     *)
Settled ==
    \A s \in Servers : <<"server", s>> \in Planned =>
        /\ \A c \in SharedChains(s) : c.is \in Planned
        /\ \A r \in ServerChain(s).needs : <<inv.tenantOf[s], r>> \in needs

CircleInv == FlowsAre /\ OneFlow /\ NeedsCome /\ Settled

-----------------------------------------------------------------------------
(* The builders.                                                           *)

(* The chains that Add does add.                                           *)
New(once, always) == {c \in once : c.is \notin store} \cup always

(* What Add adds to the plan, the requirements, the store and to what is   *)
(* there twice.                                                            *)
LEMMA AddIs ==
    ASSUME NEW flow, NEW once, NEW always, NEW keys, Add(flow, once, always, keys)
    PROVE  /\ \A r : r \in Planned' <=> r \in Planned \/ \E c \in New(once, always) : r = c.is
           /\ \A r : r \in Needed' <=> r \in Needed \/ \E c \in New(once, always) : r \in c.needs
           /\ \A r : r \in store' <=> r \in store \cup keys \/ \E c \in New(once, always) : r = c.is
           /\ \A r : r \in twice' <=>
                  r \in twice \/ (r \in Planned /\ \E c \in New(once, always) : r = c.is)
<1> DEFINE new == New(once, always)
           names == {c.is : c \in new}
           wanted == UNION {c.needs : c \in new}
<1>1. /\ plan' = plan \cup ({flow} \X names)
      /\ twice' = twice \cup (names \cap Planned)
      /\ needs' = needs \cup ({flow} \X wanted)
      /\ store' = store \cup names \cup keys
  BY DEF Add, New
<1>2. \A r : r \in names <=> \E c \in new : r = c.is
  OBVIOUS
<1>3. \A r : r \in wanted <=> \E c \in new : r \in c.needs
  OBVIOUS
<1>4. ASSUME NEW r PROVE r \in Planned' <=> r \in Planned \/ r \in names
  <2> HIDE DEF names
  <2>1. r \in Planned' <=> \E p \in plan' : r = p[2]
    BY DEF Planned
  <2>2. r \in Planned <=> \E p \in plan : r = p[2]
    BY DEF Planned
  <2>3. r \in names <=> \E p \in {flow} \X names : r = p[2]
    <3>1. r \in names => <<flow, r>> \in {flow} \X names /\ <<flow, r>>[2] = r
      OBVIOUS
    <3>2. \A p \in {flow} \X names : p[2] \in names
      OBVIOUS
    <3> QED BY <3>1, <3>2
  <2> QED BY <1>1, <2>1, <2>2, <2>3
<1>5. ASSUME NEW r PROVE r \in Needed' <=> r \in Needed \/ r \in wanted
  <2> HIDE DEF wanted
  <2>1. r \in Needed' <=> \E p \in needs' : r = p[2]
    BY DEF Needed
  <2>2. r \in Needed <=> \E p \in needs : r = p[2]
    BY DEF Needed
  <2>3. r \in wanted <=> \E p \in {flow} \X wanted : r = p[2]
    <3>1. r \in wanted => <<flow, r>> \in {flow} \X wanted /\ <<flow, r>>[2] = r
      OBVIOUS
    <3>2. \A p \in {flow} \X wanted : p[2] \in wanted
      OBVIOUS
    <3> QED BY <3>1, <3>2
  <2> QED BY <1>1, <2>1, <2>2, <2>3
<1> HIDE DEF names, wanted, new
<1> QED BY <1>1, <1>2, <1>3, <1>4, <1>5 DEF new

(* What the source cloud holds is one of the inventories.                  *)
LEMMA InventoryIs == Order => Inventory(inv)
  BY PlanAssumption DEF Order

(* Taking an id from the queue.                                            *)
LEMMA Take ==
    ASSUME Order, NEW class, TakeNext(class)
    PROVE  /\ asked.class = class /\ asked' = asked /\ inv' = inv /\ servers = {}
           /\ Taken' = Taken + 1 /\ Taken' \in 1..Len(asked.ids)
           /\ Head(queue) = asked.ids[Taken'] /\ Head(queue) \in Given
           /\ queue' \in Seq(Given)
           /\ \A k \in 1..Len(queue') : queue'[k] = asked.ids[Taken' + k]
<1>1. queue \in Seq(Given) /\ queue # <<>> /\ queue' = Tail(queue) /\ asked' = asked
  BY DEF TakeNext, Order
<1>2. /\ Len(queue) \in Nat /\ Len(queue) # 0 /\ Len(queue') = Len(queue) - 1
      /\ Head(queue) = queue[1] /\ queue[1] \in Given /\ queue' \in Seq(Given)
  BY <1>1
<1>3. \A k \in 1..Len(queue') : queue'[k] = queue[k + 1]
  BY <1>1, <1>2
<1>4. Len(asked.ids) \in Nat /\ Taken \in 0..Len(asked.ids)
  BY DEF Order
<1>5. Taken' = Taken + 1
  BY <1>1, <1>2, <1>4 DEF Taken
<1>6. Len(queue) = Len(asked.ids) - Taken
  BY <1>2, <1>4 DEF Taken
<1>7. Taken' \in 1..Len(asked.ids)
  BY <1>2, <1>4, <1>5, <1>6
<1>8. \A k \in 1..Len(queue) : queue[k] = asked.ids[Taken + k]
  BY DEF Order
<1>9. Head(queue) = asked.ids[Taken']
  BY <1>2, <1>5, <1>8
<1>10. ASSUME NEW k \in 1..Len(queue') PROVE queue'[k] = asked.ids[Taken' + k]
  <2>1. k + 1 \in 1..Len(queue) /\ Taken + (k + 1) = Taken' + k
    BY <1>2, <1>4, <1>5
  <2> QED BY <1>3, <1>8, <2>1
<1>11. asked.class = class /\ inv' = inv /\ servers = {}
  BY DEF TakeNext
<1> QED BY <1>1, <1>2, <1>5, <1>7, <1>9, <1>10, <1>11

Frame == inv' = inv /\ asked' = asked

(* No step takes an id twice or passes one over; what was asked for stays. *)
LEMMA OrderStep ==
    ASSUME Order, Next
    PROVE  Order' /\ Frame
<1>1. ASSUME NEW class, TakeNext(class),
             \A s \in servers' : s \in Servers /\ class = "resources" /\ inv.tenantOf[s] = Head(queue)
      PROVE  Order' /\ Frame
  <2>1. /\ asked.class = class /\ asked' = asked /\ inv' = inv /\ servers = {}
        /\ Taken' = Taken + 1 /\ Taken' \in 1..Len(asked.ids)
        /\ Head(queue) = asked.ids[Taken'] /\ Head(queue) \in Given
        /\ queue' \in Seq(Given)
        /\ \A k \in 1..Len(queue') : queue'[k] = asked.ids[Taken' + k]
    BY <1>1, Take
  <2>2. Given' = Given
    BY <2>1 DEF Given, IdsOf
  <2>3. /\ Listed(asked.class) => IsInjective(asked.ids)
        /\ inv \in Inventories /\ asked.ids \in Seq(Given)
    BY DEF Order
  <2>4. Len(asked.ids) \in Nat
    BY <2>3
  <2>5. Taken' \in 0..Len(asked.ids) /\ Taken' > 0
    BY <2>1, <2>4
  <2> HIDE DEF Taken, Given, IdsOf
  <2> QED BY <1>1, <2>1, <2>2, <2>3, <2>5 DEF Order, Frame
<1>2. CASE MigrateResources
  BY <1>1, <1>2 DEF MigrateResources
<1>3. CASE MigrateIdentity
  <2>1. TakeNext("identity") /\ servers' = {}
    BY <1>3 DEF MigrateIdentity, TakeNext
  <2> QED BY <1>1, <2>1
<1>4. CASE MigrateImage
  <2>1. TakeNext("images") /\ servers' = {}
    BY <1>4 DEF MigrateImage, TakeNext
  <2> QED BY <1>1, <2>1
<1>6. CASE MigrateVolume
  <2>1. TakeNext("volumes") /\ servers' = {}
    BY <1>6 DEF MigrateVolume, TakeNext
  <2> QED BY <1>1, <2>1
<1>5. ASSUME NEW s \in servers, MigrateServer(s) PROVE Order' /\ Frame
  <2>1. servers' = servers \ {s} /\ inv' = inv /\ asked' = asked /\ queue' = queue
    BY <1>5 DEF MigrateServer
  <2>2. Taken' = Taken /\ Given' = Given
    BY <2>1 DEF Taken, Given, IdsOf
  <2> QED BY <2>1, <2>2 DEF Order, Frame
<1> QED BY <1>2, <1>3, <1>4, <1>5, <1>6 DEF Next

(* The store keeps up with the plan.                                       *)
LEMMA StoredStep ==
    ASSUME Stored, Frame, NEW flow, NEW once, NEW always, NEW keys \in SUBSET Placeholders,
           Add(flow, once, always, keys), asked.class = "identity" => keys = {}
    PROVE  Stored' /\ Planned \subseteq Planned'
BY AddIs DEF Stored, Frame

(* A chain that was looked up is in the plan afterwards.                   *)
LEMMA OnceIsPlanned ==
    ASSUME Stored, NEW flow, NEW once, NEW always, NEW keys,
           Add(flow, once, always, keys), NEW c \in once, c.is \notin Placeholders
    PROVE  c.is \in Planned'
BY AddIs DEF Stored, New

(* When Add adds chains whose requirements are supplied, all of them are.  *)
LEMMA SuppliedStep ==
    ASSUME Supplied, Frame, Bases \subseteq Bases', Stored, Stored', Planned \subseteq Planned',
           store \subseteq store',
           NEW flow, NEW once, NEW always, NEW keys,
           Add(flow, once, always, keys),
           \A c \in New(once, always) : \A r \in c.needs :
               r \in Planned' \/ (r \in Placeholders /\ r \in store') \/ Gap(r)'
    PROVE  Supplied'
<1>1. ASSUME NEW r, Gap(r) PROVE Gap(r)'
  <2>1. inv' = inv
    BY DEF Frame
  <2> QED BY <1>1, <2>1 DEF Gap
<1>2. ASSUME NEW r \in Needed'
      PROVE  r \in Planned' \/ (r \in Placeholders /\ r \in store') \/ Gap(r)'
  <2>1. r \in Needed \/ \E c \in New(once, always) : r \in c.needs
    BY AddIs, <1>2
  <2>2. CASE r \in Needed
    <3>1. r \in Planned \/ (r \in Placeholders /\ r \in store) \/ Gap(r)
      BY <2>2 DEF Supplied
    <3> QED BY <1>1, <3>1
  <2> QED BY <2>1, <2>2
<1> QED BY <1>2 DEF Supplied

-----------------------------------------------------------------------------
(* A server.                                                               *)

(* The chains that servers share are not chains of servers, and the chains *)
(* a server owns are its own.                                              *)
LEMMA ServerChainsOnly ==
    ASSUME NEW s, NEW t, NEW c \in SharedChains(t) \cup OwnChains(t),
           c.is = <<"server", s>>
    PROVE  s = t
<1>1. CASE c \in SharedChains(t)
  <2>1. CASE c \in ServerIdentity(t)
    BY <2>1 DEF ServerIdentity, TenantChain, UserChain, RoleChain, MembershipChain, Chain
  <2>2. CASE c \in ServerNics(t)
    BY <2>2 DEF ServerNics, NetworkChains, NicChain, FloatingIpChain, Chain
  <2>3. CASE c \in {SecGroupChain(t, g) : g \in inv.groupsOf[t]} \cup {FlavorChain(inv.flavorOf[t])}
    BY <2>3 DEF SecGroupChain, FlavorChain, Chain
  <2> QED BY <1>1, <2>1, <2>2, <2>3 DEF SharedChains
<1>2. CASE c \in OwnChains(t)
  <2>1. CASE c = ServerChain(t)
    BY <2>1 DEF ServerChain, Chain
  <2>2. CASE \E i : c \in ImageChains(i)
    BY <2>2 DEF ImageChains, Chain
  <2> QED BY <1>2, <2>1, <2>2 DEF OwnChains
<1> QED BY <1>1, <1>2

(* The chains that servers share, one builder after the other.             *)
LEMMA SharedIs ==
    ASSUME NEW s, NEW c \in SharedChains(s)
    PROVE  \/ c = TenantChain(inv.tenantOf[s])
           \/ c = UserChain(inv.userOf[s])
           \/ \E g \in GrantsOf(inv.userOf[s], inv.tenantOf[s]) : c = RoleChain(g[2])
           \/ \E g \in Visible(GrantsOf(inv.userOf[s], inv.tenantOf[s])) : c = MembershipChain(g)
           \/ \E p \in Addresses(s, "fixed") : c = NicChain(p[1], p[2])
           \/ \E p \in Addresses(s, "fixed") : c \in NetworkChains(p[1], inv.tenantOf[s])
           \/ \E p \in Addresses(s, "floating") : c = FloatingIpChain(p[2])
           \/ \E g \in inv.groupsOf[s] : c = SecGroupChain(s, g)
           \/ c = FlavorChain(inv.flavorOf[s])
<1>1. CASE c \in ServerIdentity(s)
  BY <1>1 DEF ServerIdentity
<1>2. CASE c \in ServerNics(s)
  BY <1>2 DEF ServerNics
<1> QED BY <1>1, <1>2 DEF SharedChains

(* The chains of a server's own: itself, and its image.                    *)
LEMMA OwnIs ==
    ASSUME NEW s, NEW c \in OwnChains(s)
    PROVE  c = ServerChain(s) \/ \E i \in NewImage(s) : c \in ImageChains(i)
BY DEF OwnChains

(* What the inventory says of a server in hand.                            *)
LEMMA ServerFacts ==
    ASSUME Order, NEW s \in servers
    PROVE  /\ s \in Servers /\ inv.tenantOf[s] \in Tenants /\ inv.userOf[s] \in Users
           /\ inv.imageOf[s] \in Images
           /\ inv.userOf[s] \notin {"public", "none"}
<1>1. s \in Servers
  BY DEF Order
<1> QED BY <1>1, InventoryIs, PlanAssumption DEF Inventory

(* What is shared is in the plan afterwards, and so is what is its own.    *)
LEMMA ServerPlans ==
    ASSUME Order, Stored, Frame, NEW s \in servers, MigrateServer(s)
    PROVE  /\ Planned \subseteq Planned' /\ Stored'
           /\ \A c \in SharedChains(s) \cup OwnChains(s) : c.is \in Planned'
           /\ \A r \in Planned' :
                  \/ r \in Planned
                  \/ \E c \in New(SharedChains(s), OwnChains(s)) :
                        r = c.is /\ \A n \in c.needs : n \in Needed'
           /\ Needed \subseteq Needed'
<1> DEFINE keys == UNION {ImageKeys(i) : i \in NewImage(s)}
           t == inv.tenantOf[s]
<1>1. Add(t, SharedChains(s), OwnChains(s), keys)
  BY DEF MigrateServer
<1>2. keys \in SUBSET Placeholders
  BY DEF ImageKeys, Placeholders
<1>3. asked.class # "identity"
  BY DEF Order
<1> HIDE DEF keys, t
<1>4. Planned \subseteq Planned' /\ Stored'
  BY <1>1, <1>2, <1>3, StoredStep
<1>5. ASSUME NEW c \in SharedChains(s) PROVE c.is \notin Placeholders
  <2>1. inv.userOf[s] \notin {"public", "none"}
    BY ServerFacts
  <2> USE DEF Chain, Placeholders, public, nobody
  <2>2. CASE c = TenantChain(inv.tenantOf[s])
    BY <2>2 DEF TenantChain
  <2>3. CASE c = UserChain(inv.userOf[s])
    BY <2>1, <2>3 DEF UserChain
  <2>4. CASE \E g \in GrantsOf(inv.userOf[s], inv.tenantOf[s]) : c = RoleChain(g[2])
    BY <2>4 DEF RoleChain
  <2>5. CASE \E g \in Visible(GrantsOf(inv.userOf[s], inv.tenantOf[s])) : c = MembershipChain(g)
    BY <2>5 DEF MembershipChain
  <2>6. CASE \E p \in Addresses(s, "fixed") : c = NicChain(p[1], p[2])
    BY <2>6 DEF NicChain
  <2>7. CASE \E p \in Addresses(s, "fixed") : c \in NetworkChains(p[1], inv.tenantOf[s])
    BY <2>7 DEF NetworkChains
  <2>8. CASE \E p \in Addresses(s, "floating") : c = FloatingIpChain(p[2])
    BY <2>8 DEF FloatingIpChain
  <2>9. CASE \E g \in inv.groupsOf[s] : c = SecGroupChain(s, g)
    BY <2>9 DEF SecGroupChain
  <2>10. CASE c = FlavorChain(inv.flavorOf[s])
    BY <2>10 DEF FlavorChain
  <2> HIDE DEF Chain, Placeholders, public, nobody
  <2> QED BY <2>2, <2>3, <2>4, <2>5, <2>6, <2>7, <2>8, <2>9, <2>10, SharedIs
<1>6. ASSUME NEW c \in SharedChains(s) PROVE c.is \in Planned'
  BY <1>1, <1>5, <1>6, OnceIsPlanned
<1>7. ASSUME NEW c \in OwnChains(s) PROVE c.is \in Planned'
  BY <1>1, <1>7, AddIs DEF New
<1> QED BY <1>1, <1>4, <1>6, <1>7, AddIs

(* A server is planned once for each time its tenant is given.             *)
LEMMA ServersOfServer ==
    ASSUME Order, Stored, PlannedServers, Frame, NEW s \in servers, MigrateServer(s)
    PROVE  /\ PlannedServers'
           /\ \A x \in Servers : <<"server", x>> \in Planned' <=> <<"server", x>> \in Planned \/ x = s
           /\ \A x \in Servers : Passed(x)' = Passed(x) \cup (IF x = s THEN {Taken} ELSE {})
           /\ Taken \notin Passed(s)
<1>1. ASSUME NEW x \in Servers
      PROVE  <<"server", x>> \in Planned' <=> <<"server", x>> \in Planned \/ x = s
  <2>1. ASSUME <<"server", x>> \in Planned', <<"server", x>> \notin Planned PROVE x = s
    <3>1. PICK c \in New(SharedChains(s), OwnChains(s)) : <<"server", x>> = c.is
      BY <2>1, ServerPlans
    <3>2. c \in SharedChains(s) \cup OwnChains(s)
      BY DEF New
    <3> QED BY <3>1, <3>2, ServerChainsOnly
  <2>2. <<"server", s>> \in Planned'
    <3>1. ServerChain(s) \in OwnChains(s) /\ ServerChain(s).is = <<"server", s>>
      BY DEF OwnChains, ServerChain, Chain
    <3> QED BY <3>1, ServerPlans
  <2>3. Planned \subseteq Planned'
    BY ServerPlans
  <2> QED BY <2>1, <2>2, <2>3
<1>2. /\ servers' = servers \ {s} /\ Taken' = Taken /\ Taken \in Nat /\ Taken > 0
      /\ inv' = inv /\ asked' = asked /\ asked.class = "resources"
      /\ inv.tenantOf[s] = asked.ids[Taken]
  BY DEF MigrateServer, Taken, Order, Frame
<1>3. ASSUME NEW x \in Servers PROVE Passed(x)' = Passed(x) \cup (IF x = s THEN {Taken} ELSE {})
  <2> HIDE DEF Taken
  <2>1. ASSUME NEW k \in 1..Taken PROVE k \in Passed(x)' <=> k \in Passed(x) \/ (x = s /\ k = Taken)
    BY <1>2 DEF Passed
  <2>2. Passed(x) \subseteq 1..Taken /\ Passed(x)' \subseteq 1..Taken /\ Taken \in 1..Taken
    BY <1>2 DEF Passed
  <2> HIDE DEF Passed
  <2> QED BY <2>1, <2>2
<1>4. Taken \notin Passed(s)
  BY DEF Passed
<1>5. PlannedServers'
  <2> SUFFICES ASSUME NEW x \in Servers
               PROVE  <<"server", x>> \in Planned' <=> asked'.class = "resources" /\ Passed(x)' # {}
    BY DEF PlannedServers
  <2> QED BY <1>1, <1>2, <1>3 DEF PlannedServers
<1> QED BY <1>1, <1>3, <1>4, <1>5

(* A server brings one user, whose default tenant is then required.        *)
LEMMA UsersOfServer ==
    ASSUME Order, Stored, PlannedUsers, Frame, NEW s \in servers, MigrateServer(s)
    PROVE  PlannedUsers'
<1>1. ASSUME NEW c \in New(SharedChains(s), OwnChains(s)), c.is[1] = "user"
      PROVE  c = UserChain(inv.userOf[s])
  <2> USE DEF Chain
  <2>1. CASE c \in SharedChains(s)
    <3>2. CASE c = TenantChain(inv.tenantOf[s])
      BY <1>1, <3>2 DEF TenantChain
    <3>4. CASE \E g \in GrantsOf(inv.userOf[s], inv.tenantOf[s]) : c = RoleChain(g[2])
      BY <1>1, <3>4 DEF RoleChain
    <3>5. CASE \E g \in Visible(GrantsOf(inv.userOf[s], inv.tenantOf[s])) : c = MembershipChain(g)
      BY <1>1, <3>5 DEF MembershipChain
    <3>6. CASE \E p \in Addresses(s, "fixed") : c = NicChain(p[1], p[2])
      BY <1>1, <3>6 DEF NicChain
    <3>7. CASE \E p \in Addresses(s, "fixed") : c \in NetworkChains(p[1], inv.tenantOf[s])
      BY <1>1, <3>7 DEF NetworkChains
    <3>8. CASE \E p \in Addresses(s, "floating") : c = FloatingIpChain(p[2])
      BY <1>1, <3>8 DEF FloatingIpChain
    <3>9. CASE \E g \in inv.groupsOf[s] : c = SecGroupChain(s, g)
      BY <1>1, <3>9 DEF SecGroupChain
    <3>10. CASE c = FlavorChain(inv.flavorOf[s])
      BY <1>1, <3>10 DEF FlavorChain
    <3> HIDE DEF Chain
    <3> QED BY <2>1, <3>2, <3>4, <3>5, <3>6, <3>7, <3>8, <3>9, <3>10, SharedIs
  <2>2. CASE c \in OwnChains(s)
    <3>1. CASE c = ServerChain(s)
      BY <1>1, <3>1 DEF ServerChain
    <3>2. CASE \E i \in NewImage(s) : c \in ImageChains(i)
      BY <1>1, <3>2 DEF ImageChains
    <3> QED BY <2>2, <3>1, <3>2, OwnIs
  <2> QED BY <2>1, <2>2 DEF New
<1>2. /\ inv.userOf[s] \in Users /\ inv' = inv
      /\ Needed \subseteq Needed'
  BY ServerFacts, ServerPlans DEF Frame
<1> SUFFICES ASSUME NEW p \in Planned', p[1] = "user"
             PROVE  /\ p[2] \in Users
                    /\ inv.defaultTenant[p[2]] # None => <<"tenant", inv.defaultTenant[p[2]]>> \in Needed'
  BY <1>2 DEF PlannedUsers
<1>3. CASE p \in Planned
  BY <1>2, <1>3 DEF PlannedUsers
<1>4. CASE p \notin Planned
  <2>1. PICK c \in New(SharedChains(s), OwnChains(s)) : p = c.is /\ \A n \in c.needs : n \in Needed'
    BY <1>4, ServerPlans
  <2>2. c = UserChain(inv.userOf[s])
    BY <1>1, <2>1
  <2> QED BY <1>2, <2>1, <2>2 DEF UserChain, Chain
<1> QED BY <1>3, <1>4

(* What is planned twice, by its kind.                                     *)
LEMMA DuplicatesAre ==
    /\ \A r : r \in Duplicates <=> \/ \E s \in Servers : r = <<"server", s>> /\ DupServer(s)
                                   \/ \E l \in Images : r = <<"image", l>> /\ DupImage(l)
    /\ \A r : r \in Duplicates' <=> \/ \E s \in Servers : r = <<"server", s>> /\ DupServer(s)'
                                    \/ \E l \in Images : r = <<"image", l>> /\ DupImage(l)'
BY DEF Duplicates

(* The chains of an image provide it and its kernel, and require these and *)
(* its owner.                                                              *)
LEMMA ImageChainsAre ==
    ASSUME Order, NEW i \in Images
    PROVE  /\ \A r : (\E c \in ImageChains(i) : r = c.is) <=>
                         \E l \in Images : l \in {i, inv.kernelOf[i]} /\ r = <<"image", l>>
           /\ \A c \in ImageChains(i) : \A n \in c.needs :
                  n = ImageOwner(i) \/ \E d \in ImageChains(i) : n = d.is
           /\ \E c \in ImageChains(i) : ImageOwner(i) \in c.needs
<1> DEFINE kernels == {<<"image", k>> : k \in {inv.kernelOf[i]} \ {None}}
           own == Chain(<<"image", i>>, {ImageOwner(i)} \cup kernels)
<1>1. ImageChains(i) = {own} \cup {Chain(k, {ImageOwner(i)}) : k \in kernels}
  BY DEF ImageChains
<1>2. inv.kernelOf[i] \in Images \cup {None} /\ None \notin Images
  BY InventoryIs, PlanAssumption DEF Inventory
<1>3. own.is = <<"image", i>> /\ own.needs = {ImageOwner(i)} \cup kernels /\ own \in ImageChains(i)
  BY <1>1 DEF Chain
<1>4. ASSUME NEW k \in kernels PROVE \E c \in ImageChains(i) : k = c.is
  <2> HIDE DEF kernels, own
  <2>1. Chain(k, {ImageOwner(i)}) \in ImageChains(i)
    BY <1>1
  <2>2. Chain(k, {ImageOwner(i)}).is = k
    BY DEF Chain
  <2> QED BY <2>1, <2>2
<1>5. ASSUME NEW c \in ImageChains(i)
      PROVE  \/ c.is = <<"image", i>> /\ c.needs = {ImageOwner(i)} \cup kernels
             \/ c.is \in kernels /\ c.needs = {ImageOwner(i)}
  <2>1. CASE c = own
    BY <1>3, <2>1
  <2>2. ASSUME NEW k \in kernels, c = Chain(k, {ImageOwner(i)})
        PROVE  c.is \in kernels /\ c.needs = {ImageOwner(i)}
    BY <2>2 DEF Chain
  <2> HIDE DEF kernels, own
  <2> QED BY <1>1, <2>1, <2>2
<1>6. \A r : r \in kernels <=> \E l \in Images : l = inv.kernelOf[i] /\ r = <<"image", l>>
  BY <1>2
<1> HIDE DEF kernels, own
<1>7. ASSUME NEW r PROVE (\E c \in ImageChains(i) : r = c.is) <=> r = <<"image", i>> \/ r \in kernels
  <2>1. r \in kernels => \E c \in ImageChains(i) : r = c.is
    BY <1>4
  <2>2. r = <<"image", i>> => \E c \in ImageChains(i) : r = c.is
    BY <1>3
  <2>3. (\E c \in ImageChains(i) : r = c.is) => r = <<"image", i>> \/ r \in kernels
    BY <1>5
  <2> QED BY <2>1, <2>2, <2>3
<1>8. ASSUME NEW r
      PROVE  (\E c \in ImageChains(i) : r = c.is) <=>
               \E l \in Images : l \in {i, inv.kernelOf[i]} /\ r = <<"image", l>>
  <2>1. r \in kernels <=> \E l \in Images : l = inv.kernelOf[i] /\ r = <<"image", l>>
    BY <1>6
  <2>2. (\E l \in Images : l \in {i, inv.kernelOf[i]} /\ r = <<"image", l>>) <=>
             r = <<"image", i>> \/ \E l \in Images : l = inv.kernelOf[i] /\ r = <<"image", l>>
    OBVIOUS
  <2> QED BY <1>7, <2>1, <2>2
<1>9. ASSUME NEW c \in ImageChains(i), NEW n \in c.needs
      PROVE  n = ImageOwner(i) \/ \E d \in ImageChains(i) : n = d.is
  <2>1. n = ImageOwner(i) \/ n \in kernels
    BY <1>5
  <2>2. n \in kernels => \E d \in ImageChains(i) : n = d.is
    BY <1>4
  <2> QED BY <2>1, <2>2
<1> QED BY <1>3, <1>8, <1>9

(* What a new image does to the images that are planned, once or twice.    *)
LEMMA ImagesGrow ==
    ASSUME Order, PlannedImages, Frame, NEW i \in Images, i \notin Bases,
           \A b : b \in Bases' <=> b \in Bases \/ b = i,
           \A x \in Images : <<"image", x>> \in Planned' <=>
               <<"image", x>> \in Planned \/ x \in {i, inv.kernelOf[i]}
    PROVE  /\ PlannedImages'
           /\ \A l \in Images : DupImage(l)' <=>
                  DupImage(l) \/ (<<"image", l>> \in Planned /\ l \in {i, inv.kernelOf[i]})
<1>1. inv' = inv
  BY DEF Frame
<1>2. PlannedImages'
  BY <1>1 DEF PlannedImages
<1>3. ASSUME NEW l \in Images
      PROVE  DupImage(l)' <=> DupImage(l) \/ (<<"image", l>> \in Planned /\ l \in {i, inv.kernelOf[i]})
  <2> DEFINE Pair(a, b) == inv.kernelOf[a] = l /\ l \in {b, inv.kernelOf[b]}
  <2>1. DupImage(l) <=> \E a, b \in Bases : a # b /\ Pair(a, b)
    BY DEF DupImage
  <2>2. DupImage(l)' <=> \E a, b \in Bases' : a # b /\ Pair(a, b)
    BY <1>1 DEF DupImage
  <2>3. <<"image", l>> \in Planned <=> \E b \in Bases : l \in {b, inv.kernelOf[b]}
    BY DEF PlannedImages
  <2>4. DupImage(l)' <=> \/ DupImage(l)
                         \/ \E b \in Bases : Pair(i, b)
                         \/ \E a \in Bases : Pair(a, i)
    BY <2>1, <2>2
  <2>5. (\E b \in Bases : Pair(i, b)) => <<"image", l>> \in Planned /\ l \in {i, inv.kernelOf[i]}
    BY <2>3
  <2>6. (\E a \in Bases : Pair(a, i)) => <<"image", l>> \in Planned /\ l \in {i, inv.kernelOf[i]}
    BY <2>3
  <2>7. ASSUME NEW b \in Bases, l \in {b, inv.kernelOf[b]}, l \in {i, inv.kernelOf[i]}
        PROVE  Pair(i, b) \/ Pair(b, i)
    BY <2>7
  <2> HIDE DEF Pair
  <2> QED BY <2>3, <2>4, <2>5, <2>6, <2>7
<1> QED BY <1>2, <1>3

(* Looking a chain up keeps it from being planned twice.                   *)
LEMMA TwiceStep ==
    ASSUME Stored, NEW flow, NEW once, NEW always, NEW keys, Add(flow, once, always, keys)
    PROVE  \A r : r \in twice' <=> r \in twice \/ (r \in Planned /\ \E c \in always : r = c.is)
BY AddIs DEF Stored, New

(* The image of a server is new unless it is the image of one before.      *)
LEMMA NewImageIs ==
    ASSUME Order, Stored, PlannedImages, NEW s \in servers
    PROVE  \/ asked.disk # "image" /\ NewImage(s) = {}
           \/ asked.disk = "image" /\ NewImage(s) = {} /\ inv.imageOf[s] \in Bases
           \/ /\ asked.disk = "image" /\ NewImage(s) = {inv.imageOf[s]}
              /\ inv.imageOf[s] \notin Bases
<1> DEFINE i == inv.imageOf[s]
<1>1. i \in Images /\ s \in Servers
  BY ServerFacts
<1>2. <<"image", i>> \in store <=> <<"image", i>> \in Planned
  BY DEF Stored, Placeholders, public, nobody
<1>3. <<"image", i>> \in Planned <=> \E b \in Bases : i \in {b, inv.kernelOf[b]}
  BY <1>1 DEF PlannedImages
<1>4. asked.class = "resources"
  BY DEF Order
<1>5. ASSUME NEW b \in Bases PROVE b \in Images /\ inv.kernelOf[b] # i
  <2>1. PICK x \in Servers : b = inv.imageOf[x]
    BY <1>4 DEF Bases
  <2>2. /\ inv.imageOf \in [Servers -> Images]
        /\ \A r \in Servers, l \in Images : inv.kernelOf[l] # inv.imageOf[r]
    BY InventoryIs DEF Inventory
  <2> QED BY <1>1, <2>1, <2>2
<1> QED BY <1>2, <1>3, <1>5 DEF NewImage

(* The names of the chains of a server's own.                              *)
LEMMA OwnNames ==
    ASSUME Order, NEW s \in servers
    PROVE  \A r : (\E c \in OwnChains(s) : r = c.is) <=>
               \/ r = <<"server", s>>
               \/ \E i \in NewImage(s) : \E l \in Images :
                      l \in {i, inv.kernelOf[i]} /\ r = <<"image", l>>
<1>1. ASSUME NEW i \in NewImage(s) PROVE i \in Images
  BY <1>1, ServerFacts DEF NewImage
<1>2. \A c : c \in OwnChains(s) <=> c = ServerChain(s) \/ \E i \in NewImage(s) : c \in ImageChains(i)
  BY DEF OwnChains
<1>3. ServerChain(s).is = <<"server", s>>
  BY DEF ServerChain, Chain
<1> SUFFICES ASSUME NEW r
             PROVE  (\E c \in OwnChains(s) : r = c.is) <=>
                        \/ r = <<"server", s>>
                        \/ \E i \in NewImage(s) : \E l \in Images :
                               l \in {i, inv.kernelOf[i]} /\ r = <<"image", l>>
  OBVIOUS
<1>4. ASSUME NEW i \in NewImage(s)
      PROVE  (\E c \in ImageChains(i) : r = c.is) <=>
                 \E l \in Images : l \in {i, inv.kernelOf[i]} /\ r = <<"image", l>>
  BY <1>1, ImageChainsAre
<1>5. (\E c \in OwnChains(s) : r = c.is) <=>
          r = <<"server", s>> \/ \E i \in NewImage(s) : \E c \in ImageChains(i) : r = c.is
  BY <1>2, <1>3
<1> QED BY <1>4, <1>5

(* When servers are asked for, the images are theirs.                      *)
BasesAreTheirs ==
    asked.class = "resources" =>
        \A b : b \in Bases <=> \E x \in Servers :
            <<"server", x>> \in Planned /\ asked.disk = "image" /\ b = inv.imageOf[x]

(* They are, by definition.                                                *)
LEMMA BasesOfResources == BasesAreTheirs
BY DEF BasesAreTheirs, Bases

(* The same, after a step.                                                 *)
LEMMA BasesOfResourcesNext == BasesAreTheirs'
BY BasesOfResources, PTL

(* A server adds its image to the images that are planned for themselves.  *)
LEMMA BasesOfServer ==
    ASSUME Order, Stored, PlannedServers, Frame, NEW s \in servers, MigrateServer(s)
    PROVE  \A b : b \in Bases' <=> b \in Bases \/ (asked.disk = "image" /\ b = inv.imageOf[s])
<1>1. asked.class = "resources" /\ inv' = inv /\ asked' = asked /\ s \in Servers
  BY DEF Order, Frame
<1>2. \A x \in Servers : <<"server", x>> \in Planned' <=> <<"server", x>> \in Planned \/ x = s
  BY ServersOfServer
<1>3. \A b : b \in Bases <=> \E x \in Servers :
          <<"server", x>> \in Planned /\ asked.disk = "image" /\ b = inv.imageOf[x]
  BY <1>1, BasesOfResources DEF BasesAreTheirs
<1>4. \A b : b \in Bases' <=> \E x \in Servers :
          <<"server", x>> \in Planned' /\ asked.disk = "image" /\ b = inv.imageOf[x]
  BY <1>1, BasesOfResourcesNext DEF BasesAreTheirs
<1>5. ASSUME NEW b \in Bases', b \notin Bases
      PROVE  asked.disk = "image" /\ b = inv.imageOf[s]
  <2>1. PICK x \in Servers : <<"server", x>> \in Planned' /\ asked.disk = "image" /\ b = inv.imageOf[x]
    BY <1>4
  <2>2. x = s
    BY <1>2, <1>3, <1>5, <2>1
  <2> QED BY <2>1, <2>2
<1>6. Bases \subseteq Bases'
  BY <1>2, <1>3, <1>4
<1>7. asked.disk = "image" => inv.imageOf[s] \in Bases'
  BY <1>1, <1>2, <1>4
<1> QED BY <1>5, <1>6, <1>7

(* The images in the plan are those and their kernels, and those of a      *)
(* server that are there before are duplicates.                            *)
LEMMA ImagesOfServer ==
    ASSUME Order, Stored, PlannedServers, PlannedImages, Frame, NEW s \in servers, MigrateServer(s)
    PROVE  /\ PlannedImages'
           /\ \A l \in Images : DupImage(l)' <=>
                  \/ DupImage(l)
                  \/ <<"image", l>> \in Planned /\ \E i \in NewImage(s) : l \in {i, inv.kernelOf[i]}
<1>1. ASSUME NEW x \in Images
      PROVE  <<"image", x>> \in Planned' <=>
                 <<"image", x>> \in Planned \/ \E i \in NewImage(s) : x \in {i, inv.kernelOf[i]}
  <2>1. ASSUME NEW c \in SharedChains(s) PROVE c.is # <<"image", x>>
    <3> USE DEF Chain
    <3>1. CASE c = TenantChain(inv.tenantOf[s])
      BY <3>1 DEF TenantChain
    <3>2. CASE c = UserChain(inv.userOf[s])
      BY <3>2 DEF UserChain
    <3>3. CASE \E g \in GrantsOf(inv.userOf[s], inv.tenantOf[s]) : c = RoleChain(g[2])
      BY <3>3 DEF RoleChain
    <3>4. CASE \E g \in Visible(GrantsOf(inv.userOf[s], inv.tenantOf[s])) : c = MembershipChain(g)
      BY <3>4 DEF MembershipChain
    <3>5. CASE \E p \in Addresses(s, "fixed") : c = NicChain(p[1], p[2])
      BY <3>5 DEF NicChain
    <3>6. CASE \E p \in Addresses(s, "fixed") : c \in NetworkChains(p[1], inv.tenantOf[s])
      BY <3>6 DEF NetworkChains
    <3>7. CASE \E p \in Addresses(s, "floating") : c = FloatingIpChain(p[2])
      BY <3>7 DEF FloatingIpChain
    <3>8. CASE \E g \in inv.groupsOf[s] : c = SecGroupChain(s, g)
      BY <3>8 DEF SecGroupChain
    <3>9. CASE c = FlavorChain(inv.flavorOf[s])
      BY <3>9 DEF FlavorChain
    <3> HIDE DEF Chain
    <3> QED BY <3>1, <3>2, <3>3, <3>4, <3>5, <3>6, <3>7, <3>8, <3>9, SharedIs
  <2>2. (\E c \in OwnChains(s) : <<"image", x>> = c.is) <=>
            \E i \in NewImage(s) : x \in {i, inv.kernelOf[i]}
    <3>1. (\E c \in OwnChains(s) : <<"image", x>> = c.is) <=>
              \/ <<"image", x>> = <<"server", s>>
              \/ \E i \in NewImage(s) : \E l \in Images :
                      l \in {i, inv.kernelOf[i]} /\ <<"image", x>> = <<"image", l>>
      BY OwnNames
    <3> QED BY <3>1
  <2>3. ASSUME <<"image", x>> \in Planned', <<"image", x>> \notin Planned
        PROVE  \E c \in OwnChains(s) : <<"image", x>> = c.is
    <3>1. PICK c \in New(SharedChains(s), OwnChains(s)) : <<"image", x>> = c.is
      BY <2>3, ServerPlans
    <3> QED BY <2>1, <3>1 DEF New
  <2>4. (\E c \in OwnChains(s) : <<"image", x>> = c.is) => <<"image", x>> \in Planned'
    BY ServerPlans
  <2>5. Planned \subseteq Planned'
    BY ServerPlans
  <2> QED BY <2>2, <2>3, <2>4, <2>5
<1>2. \A b : b \in Bases' <=> b \in Bases \/ (asked.disk = "image" /\ b = inv.imageOf[s])
  BY BasesOfServer
<1>3. ASSUME NewImage(s) = {}, asked.disk # "image" \/ inv.imageOf[s] \in Bases
      PROVE  PlannedImages' /\ \A l \in Images : DupImage(l)' <=> DupImage(l)
  <2>1. Bases' = Bases /\ inv' = inv
    BY <1>2, <1>3 DEF Frame
  <2>2. \A x \in Images : <<"image", x>> \in Planned' <=> <<"image", x>> \in Planned
    BY <1>1, <1>3
  <2>3. PlannedImages'
    BY <2>1, <2>2 DEF PlannedImages
  <2>4. \A l : DupImage(l)' <=> DupImage(l)
    BY <2>1 DEF DupImage
  <2> QED BY <2>3, <2>4
<1>4. ASSUME NewImage(s) = {inv.imageOf[s]}, asked.disk = "image", inv.imageOf[s] \notin Bases
      PROVE  PlannedImages' /\ \A l \in Images : DupImage(l)' <=>
                 DupImage(l) \/ (<<"image", l>> \in Planned /\ l \in {inv.imageOf[s], inv.kernelOf[inv.imageOf[s]]})
  <2>1. inv.imageOf[s] \in Images
    BY ServerFacts
  <2>2. \A b : b \in Bases' <=> b \in Bases \/ b = inv.imageOf[s]
    BY <1>2, <1>4
  <2>3. \A x \in Images : <<"image", x>> \in Planned' <=>
            <<"image", x>> \in Planned \/ x \in {inv.imageOf[s], inv.kernelOf[inv.imageOf[s]]}
    BY <1>1, <1>4
  <2> QED BY <1>4, <2>1, <2>2, <2>3, ImagesGrow
<1> QED BY <1>3, <1>4, NewImageIs

(* What a server adds twice is itself, or the kernel of its image.         *)
LEMMA TwiceOfServer ==
    ASSUME Order, Stored, PlannedServers, PlannedImages, TwiceAre, Frame,
           NEW s \in servers, MigrateServer(s)
    PROVE  TwiceAre'
<1>1. ASSUME NEW r
      PROVE  r \in twice' <=> r \in twice \/ (r \in Planned /\ \E c \in OwnChains(s) : r = c.is)
  <2> DEFINE keys == UNION {ImageKeys(i) : i \in NewImage(s)}
  <2>1. Add(inv.tenantOf[s], SharedChains(s), OwnChains(s), keys)
    BY DEF MigrateServer
  <2> HIDE DEF keys
  <2> QED BY <2>1, TwiceStep
<1>2. ASSUME NEW x \in Servers
      PROVE  DupServer(x)' <=> DupServer(x) \/ (x = s /\ <<"server", s>> \in Planned)
  <2>1. Passed(x)' = Passed(x) \cup (IF x = s THEN {Taken} ELSE {}) /\ Taken \notin Passed(s)
    BY <1>2, ServersOfServer
  <2>2. asked' = asked /\ asked.class = "resources" /\ s \in Servers
    BY DEF Frame, Order
  <2>3. <<"server", s>> \in Planned <=> Passed(s) # {}
    BY <2>2 DEF PlannedServers
  <2>4. (\E i, j \in Passed(x)' : i # j) <=>
            \/ \E i, j \in Passed(x) : i # j
            \/ x = s /\ Passed(s) # {}
    BY <2>1
  <2> QED BY <2>2, <2>3, <2>4 DEF DupServer
<1>3. \A l \in Images : DupImage(l)' <=>
          \/ DupImage(l)
          \/ <<"image", l>> \in Planned /\ \E i \in NewImage(s) : l \in {i, inv.kernelOf[i]}
  BY ImagesOfServer
<1>4. s \in Servers
  BY ServerFacts
<1>5. ASSUME NEW r PROVE r \in twice' <=> r \in Duplicates'
  <2>1. (\E c \in OwnChains(s) : r = c.is) <=>
             \/ r = <<"server", s>>
             \/ \E i \in NewImage(s) : \E l \in Images :
                      l \in {i, inv.kernelOf[i]} /\ r = <<"image", l>>
    BY OwnNames
  <2>2. r \in Duplicates <=> \/ \E x \in Servers : r = <<"server", x>> /\ DupServer(x)
                             \/ \E l \in Images : r = <<"image", l>> /\ DupImage(l)
    BY DuplicatesAre
  <2>3. r \in Duplicates' <=> \/ \E x \in Servers : r = <<"server", x>> /\ DupServer(x)'
                              \/ \E l \in Images : r = <<"image", l>> /\ DupImage(l)'
    BY DuplicatesAre
  <2>4. (\E x \in Servers : r = <<"server", x>> /\ DupServer(x)') <=>
            \/ \E x \in Servers : r = <<"server", x>> /\ DupServer(x)
            \/ r = <<"server", s>> /\ r \in Planned
    BY <1>2, <1>4
  <2>5. (\E l \in Images : r = <<"image", l>> /\ DupImage(l)') <=>
            \/ \E l \in Images : r = <<"image", l>> /\ DupImage(l)
            \/ r \in Planned /\ \E i \in NewImage(s) : \E l \in Images :
                      l \in {i, inv.kernelOf[i]} /\ r = <<"image", l>>
    BY <1>3
  <2>6. r \in twice <=> r \in Duplicates
    BY DEF TwiceAre
  <2> QED BY <1>1, <2>1, <2>2, <2>3, <2>4, <2>5, <2>6
<1> QED BY <1>5 DEF TwiceAre

(* Every image that is planned requires its owner.                         *)
LEMMA OwnersOfServer ==
    ASSUME Order, Stored, PlannedServers, PlannedImages, OwnersNeeded, Frame,
           NEW s \in servers, MigrateServer(s)
    PROVE  OwnersNeeded'
<1>1. inv' = inv /\ Needed \subseteq Needed'
  BY ServerPlans DEF Frame
<1>2. \A i : ImageOwner(i)' = ImageOwner(i)
  BY <1>1 DEF ImageOwner, public
<1>3. ASSUME NEW i \in Bases' PROVE ImageOwner(i) \in Needed'
  <2>1. CASE i \in Bases
    BY <1>1, <2>1 DEF OwnersNeeded
  <2>2. CASE i \notin Bases
    <3>1. i = inv.imageOf[s] /\ asked.disk = "image"
      BY <1>3, <2>2, BasesOfServer
    <3>2. NewImage(s) = {i} /\ i \in Images
      BY <2>2, <3>1, NewImageIs, ServerFacts
    <3>3. PICK c \in ImageChains(i) : ImageOwner(i) \in c.needs
      BY <3>2, ImageChainsAre
    <3>4. c \in New(SharedChains(s), OwnChains(s))
      BY <3>2, <3>3 DEF New, OwnChains
    <3>5. Add(inv.tenantOf[s], SharedChains(s), OwnChains(s), UNION {ImageKeys(j) : j \in NewImage(s)})
      BY DEF MigrateServer
    <3> QED BY <3>3, <3>4, <3>5, AddIs
  <2> QED BY <2>1, <2>2
<1> QED BY <1>2, <1>3 DEF OwnersNeeded

(* The first address in a network is a fixed one, so its nic is planned.   *)
LEMMA FirstIsFixed ==
    ASSUME Order, NEW s \in servers, NEW p \in Addresses(s, "floating")
    PROVE  \E q \in Addresses(s, "fixed") : q[2] = inv.addresses[s][p[1]][1].addr
<1>1. PICK label \in DOMAIN inv.addresses[s] :
          p \in {<<label, a.addr>> : a \in {b \in Range(inv.addresses[s][label]) : b.type = "floating"}}
  BY DEF Addresses
<1> DEFINE list == inv.addresses[s][label]
<1>2. p[1] = label /\ \E b \in Range(list) : b.type = "floating"
  BY <1>1
<1>3. s \in Servers
  BY ServerFacts
<1>4. list \in Seq([type : {"fixed", "floating"}, addr : Goods]) /\ list[1].type = "fixed"
  BY <1>3, InventoryIs DEF Inventory
<1>5. \E k \in DOMAIN list : TRUE
  BY <1>2 DEF Range
<1>6. 1 \in DOMAIN list
  <2> HIDE DEF list
  <2>1. DOMAIN list = 1..Len(list) /\ Len(list) \in Nat
    BY <1>4
  <2> QED BY <1>5, <2>1
<1>7. list[1] \in Range(list)
  BY <1>6 DEF Range
<1>8. <<label, list[1].addr>> \in
          {<<label, a.addr>> : a \in {b \in Range(inv.addresses[s][label]) : b.type = "fixed"}}
  BY <1>4, <1>7
<1>9. <<label, list[1].addr>> \in Addresses(s, "fixed")
  BY <1>8 DEF Addresses
<1>10. <<label, list[1].addr>>[2] = list[1].addr
  OBVIOUS
<1> QED BY <1>2, <1>9, <1>10

(* What the chains of a server require: what is in the plan by then, the   *)
(* default tenant of its user, and the owner and the kernel of its image.  *)
LEMMA ServerNeeds ==
    ASSUME Order, Stored, PlannedServers, PlannedImages, Frame,
           NEW s \in servers, MigrateServer(s),
           NEW c \in SharedChains(s) \cup OwnChains(s), NEW r \in c.needs
    PROVE  \/ r \in Planned' /\ r[1] # "server" /\ (r[1] = "image" => r[2] = inv.imageOf[s])
           \/ /\ c = UserChain(inv.userOf[s])
              /\ r = <<"tenant", inv.defaultTenant[inv.userOf[s]]>>
              /\ inv.defaultTenant[inv.userOf[s]] # None
           \/ \E i \in NewImage(s) :
                  c \in ImageChains(i) /\ (r = ImageOwner(i) \/ \E d \in ImageChains(i) : r = d.is)
<1> DEFINE u == inv.userOf[s]
           t == inv.tenantOf[s]
           Kind(x) == x[1] # "server" /\ (x[1] = "image" => x[2] = inv.imageOf[s])
           Default(d, x) == /\ d = UserChain(u)
                            /\ x = <<"tenant", inv.defaultTenant[u]>>
                            /\ inv.defaultTenant[u] # None
           Sure(x) == x \in Planned' /\ Kind(x)
           Good(d, x) == Sure(x) \/ Default(d, x)
<1>2. /\ Planned \subseteq Planned' /\ Stored'
      /\ \A d \in SharedChains(s) \cup OwnChains(s) : d.is \in Planned'
  BY ServerPlans
<1>6. Sure(<<"tenant", t>>) /\ Sure(<<"user", u>>) /\ Sure(<<"flavor", inv.flavorOf[s]>>)
  <2>1. /\ TenantChain(t) \in SharedChains(s) /\ UserChain(u) \in SharedChains(s)
        /\ FlavorChain(inv.flavorOf[s]) \in SharedChains(s)
    BY DEF SharedChains, ServerIdentity
  <2>2. /\ TenantChain(t).is = <<"tenant", t>> /\ UserChain(u).is = <<"user", u>>
        /\ FlavorChain(inv.flavorOf[s]).is = <<"flavor", inv.flavorOf[s]>>
    BY DEF TenantChain, UserChain, FlavorChain, Chain
  <2> QED BY <1>2, <2>1, <2>2
<1>7. ASSUME NEW p \in Addresses(s, "fixed")
      PROVE  /\ Sure(<<"fixed_ip", p[2]>>) /\ Sure(<<"network", p[1]>>)
             /\ Sure(<<"networks", "all">>)
  <2> DEFINE net == Chain(<<"network", p[1]>>, {<<"networks", "all">>, <<"tenant", t>>})
             all == Chain(<<"networks", "all">>, {})
  <2>1. net \in NetworkChains(p[1], t) /\ all \in NetworkChains(p[1], t)
    BY DEF NetworkChains
  <2>2. net.is = <<"network", p[1]>> /\ all.is = <<"networks", "all">>
        /\ NicChain(p[1], p[2]).is = <<"fixed_ip", p[2]>>
    BY DEF NicChain, Chain
  <2> HIDE DEF net, all
  <2>3. net \in ServerNics(s) /\ all \in ServerNics(s) /\ NicChain(p[1], p[2]) \in ServerNics(s)
    BY <2>1 DEF ServerNics
  <2>4. ServerNics(s) \subseteq SharedChains(s)
    BY DEF SharedChains
  <2> QED BY <1>2, <2>2, <2>3, <2>4
<1>8. ASSUME NEW p \in Addresses(s, "floating") PROVE Sure(<<"floating_ip", p[2]>>)
  <2>1. FloatingIpChain(p[2]) \in SharedChains(s)
    BY DEF ServerNics, SharedChains
  <2>2. FloatingIpChain(p[2]).is = <<"floating_ip", p[2]>>
    BY DEF FloatingIpChain, Chain
  <2> QED BY <1>2, <2>1, <2>2
<1>9. ASSUME c \in SharedChains(s) PROVE Good(c, r)
  <2>0. ASSUME NEW g \in GrantsOf(u, t) PROVE Sure(<<"role", g[2]>>)
    <3>1. RoleChain(g[2]) \in SharedChains(s) /\ RoleChain(g[2]).is = <<"role", g[2]>>
      BY DEF SharedChains, ServerIdentity, RoleChain, Chain
    <3> QED BY <1>2, <3>1
  <2> HIDE DEF Sure, Kind
  <2> USE DEF Chain
  <2>1. CASE c = TenantChain(t)
    BY <1>9, <2>1 DEF TenantChain
  <2>2. CASE c = UserChain(u)
    <3>1. r = <<"tenant", inv.defaultTenant[u]>> /\ inv.defaultTenant[u] # None
      BY <2>2 DEF UserChain
    <3> QED BY <2>2, <3>1
  <2>3. ASSUME NEW g \in GrantsOf(u, t), c = RoleChain(g[2]) PROVE Good(c, r)
    BY <1>9, <2>3 DEF RoleChain
  <2>4. ASSUME NEW g \in Visible(GrantsOf(u, t)), c = MembershipChain(g) PROVE Good(c, r)
    <3>1. g[1] = u /\ g[3] = t /\ g \in GrantsOf(u, t)
      BY DEF Visible, GrantsOf
    <3>2. r \in {<<"user", g[1]>>, <<"role", g[2]>>, <<"tenant", g[3]>>}
      BY <1>9, <2>4 DEF MembershipChain
    <3> QED BY <1>6, <2>0, <3>1, <3>2
  <2>5. ASSUME NEW p \in Addresses(s, "fixed"), c = NicChain(p[1], p[2]) PROVE Good(c, r)
    BY <1>7, <1>9, <2>5 DEF NicChain
  <2>6. ASSUME NEW p \in Addresses(s, "fixed"), c \in NetworkChains(p[1], t) PROVE Good(c, r)
    <3>1. r \in {<<"networks", "all">>, <<"tenant", t>>}
      BY <1>9, <2>6 DEF NetworkChains
    <3> QED BY <1>6, <1>7, <3>1
  <2>7. ASSUME NEW p \in Addresses(s, "floating"), c = FloatingIpChain(p[2]) PROVE Good(c, r)
    BY <1>9, <2>7 DEF FloatingIpChain
  <2>8. ASSUME NEW g \in inv.groupsOf[s], c = SecGroupChain(s, g) PROVE Good(c, r)
    BY <1>6, <1>9, <2>8 DEF SecGroupChain
  <2>9. CASE c = FlavorChain(inv.flavorOf[s])
    BY <1>9, <2>9 DEF FlavorChain
  <2> HIDE DEF Chain, Good
  <2> QED BY <1>9, <2>1, <2>2, <2>3, <2>4, <2>5, <2>6, <2>7, <2>8, <2>9, SharedIs
<1>10. ASSUME c = ServerChain(s) PROVE Good(c, r)
  <2>0. ASSUME inv.imageOf[s] \in Bases \/ NewImage(s) = {inv.imageOf[s]}
        PROVE  Sure(<<"image", inv.imageOf[s]>>)
    <3>1. inv.imageOf[s] \in Images
      BY ServerFacts
    <3>2. CASE inv.imageOf[s] \in Bases
      <4>1. <<"image", inv.imageOf[s]>> \in Planned
        BY <3>1, <3>2 DEF PlannedImages
      <4> QED BY <1>2, <4>1
    <3>3. CASE NewImage(s) = {inv.imageOf[s]}
      <4>1. \E i \in NewImage(s) : \E l \in Images :
                l \in {i, inv.kernelOf[i]} /\ <<"image", inv.imageOf[s]>> = <<"image", l>>
        BY <3>1, <3>3
      <4>2. \E d \in OwnChains(s) : <<"image", inv.imageOf[s]>> = d.is
        BY <4>1, OwnNames
      <4> QED BY <1>2, <4>2
    <3> QED BY <2>0, <3>2, <3>3
  <2>1. ServerChain(s).needs =
        {<<"flavor", inv.flavorOf[s]>>, <<"user", u>>, <<"tenant", t>>} \cup
        {<<"fixed_ip", p[2]>> : p \in Addresses(s, "fixed")} \cup
        {<<"floating_ip", p[2]>> : p \in Addresses(s, "floating")} \cup
        {<<"fixed_ip", inv.addresses[s][p[1]][1].addr>> : p \in Addresses(s, "floating")} \cup
        {<<"image", i>> : i \in {j \in {inv.imageOf[s]} : asked.disk = "image"}}
    BY DEF ServerChain, Chain
  <2>2. CASE r \in {<<"flavor", inv.flavorOf[s]>>, <<"user", u>>, <<"tenant", t>>}
    BY <1>6, <2>2
  <2>3. CASE \E p \in Addresses(s, "fixed") : r = <<"fixed_ip", p[2]>>
    BY <1>7, <2>3
  <2>4. CASE \E p \in Addresses(s, "floating") : r = <<"floating_ip", p[2]>>
    BY <1>8, <2>4
  <2>5. CASE \E p \in Addresses(s, "floating") : r = <<"fixed_ip", inv.addresses[s][p[1]][1].addr>>
    <3>1. PICK p \in Addresses(s, "floating") : r = <<"fixed_ip", inv.addresses[s][p[1]][1].addr>>
      BY <2>5
    <3>2. PICK q \in Addresses(s, "fixed") : q[2] = inv.addresses[s][p[1]][1].addr
      BY FirstIsFixed
    <3> QED BY <1>7, <3>1, <3>2
  <2>6. CASE r = <<"image", inv.imageOf[s]>> /\ asked.disk = "image"
    BY <2>0, <2>6, NewImageIs
  <2> HIDE DEF Sure, Default
  <2> HIDE DEF Good
  <2> QED BY <1>10, <2>1, <2>2, <2>3, <2>4, <2>5, <2>6
<1>11. ASSUME NEW i \in NewImage(s), c \in ImageChains(i)
       PROVE  r = ImageOwner(i) \/ \E d \in ImageChains(i) : r = d.is
  <2>1. i \in Images
    BY ServerFacts DEF NewImage
  <2> QED BY <1>11, <2>1, ImageChainsAre
<1> HIDE DEF Sure, Default
<1>12. Good(c, r) \/ \E i \in NewImage(s) :
           c \in ImageChains(i) /\ (r = ImageOwner(i) \/ \E d \in ImageChains(i) : r = d.is)
  <2>1. \/ c \in SharedChains(s) \/ c = ServerChain(s)
        \/ \E i \in NewImage(s) : c \in ImageChains(i)
    BY OwnIs
  <2> HIDE DEF Good
  <2> QED BY <1>9, <1>10, <1>11, <2>1
<1> QED BY <1>12 DEF Sure, Default

(* So all names are supplied after a server has been planned.              *)
LEMMA SuppliedOfServer ==
    ASSUME Order, Stored, PlannedServers, PlannedImages, Supplied, Frame,
           NEW s \in servers, MigrateServer(s)
    PROVE  Supplied'
<1> DEFINE u == inv.userOf[s]
           keys == UNION {ImageKeys(i) : i \in NewImage(s)}
           Good(r) == r \in Planned' \/ (r \in Placeholders /\ r \in store') \/ Gap(r)'
<1>1. Add(inv.tenantOf[s], SharedChains(s), OwnChains(s), keys)
  BY DEF MigrateServer
<1>2. /\ Planned \subseteq Planned' /\ Stored'
      /\ \A c \in SharedChains(s) \cup OwnChains(s) : c.is \in Planned'
  BY ServerPlans
<1>3. store \subseteq store' /\ keys \subseteq store'
  BY <1>1, AddIs
<1>4. \A b : b \in Bases' <=> b \in Bases \/ (asked.disk = "image" /\ b = inv.imageOf[s])
  BY BasesOfServer
<1>5. inv' = inv /\ u \in Users
  BY ServerFacts DEF Frame
<1>6. <<"user", u>> \in Planned'
  <2>1. UserChain(u) \in SharedChains(s) /\ UserChain(u).is = <<"user", u>>
    BY DEF SharedChains, ServerIdentity, UserChain, Chain
  <2> QED BY <1>2, <2>1
<1>7. ASSUME NEW r, r = <<"tenant", inv.defaultTenant[u]>>, inv.defaultTenant[u] # None
      PROVE  Good(r)
  BY <1>5, <1>6, <1>7 DEF Gap
<1>8. ASSUME NEW i \in NewImage(s), NEW r, r = ImageOwner(i) PROVE Good(r)
  <2>1. i = inv.imageOf[s] /\ asked.disk = "image" /\ i \in Images
    BY ServerFacts DEF NewImage
  <2>2. CASE i \in inv.private
    <3>1. i \in Bases' /\ r = <<"user", inv.ownerOf[i]>>
      BY <1>4, <1>8, <2>1, <2>2 DEF ImageOwner
    <3>2. Gap(r)'
      BY <1>5, <2>2, <3>1 DEF Gap
    <3> QED BY <3>2
  <2>3. CASE i \notin inv.private
    <3>1. r \in Placeholders /\ r \in keys
      BY <1>8, <2>3 DEF ImageOwner, ImageKeys, Placeholders
    <3> QED BY <1>3, <3>1
  <2> QED BY <2>2, <2>3
<1>9. ASSUME NEW c \in SharedChains(s) \cup OwnChains(s), NEW r \in c.needs PROVE Good(r)
  <2>1. CASE r \in Planned'
    BY <2>1
  <2>2. CASE r = <<"tenant", inv.defaultTenant[u]>> /\ inv.defaultTenant[u] # None
    BY <1>7, <2>2
  <2>3. ASSUME NEW i \in NewImage(s), NEW d \in ImageChains(i), r = d.is PROVE Good(r)
    <3>1. d \in OwnChains(s)
      BY DEF OwnChains
    <3> QED BY <1>2, <2>3, <3>1
  <2>4. ASSUME NEW i \in NewImage(s), r = ImageOwner(i) PROVE Good(r)
    BY <1>8, <2>4
  <2> HIDE DEF Good, keys
  <2> QED BY <2>1, <2>2, <2>3, <2>4, ServerNeeds
<1>10. Bases \subseteq Bases' /\ New(SharedChains(s), OwnChains(s)) \subseteq SharedChains(s) \cup OwnChains(s)
  BY <1>4 DEF New
<1> HIDE DEF keys
<1> QED BY <1>1, <1>2, <1>3, <1>9, <1>10, SuppliedStep

-----------------------------------------------------------------------------
(* The identity of a tenant.                                               *)

Granted(t) == UNION {Visible(GrantsOf(u, t)) : u \in NewUsers(t)}

IdentityChains(t) ==
    {TenantChain(t)} \cup {UserChain(u) : u \in NewUsers(t)} \cup
        {MembershipChain(g) : g \in Granted(t)} \cup {RoleChain(g[2]) : g \in Granted(t)}

(* What migrate_identity adds, for the id it takes.                        *)
LEMMA IdentityIs ==
    ASSUME Order, MigrateIdentity
    PROVE  /\ Add(Head(queue), IdentityChains(Head(queue)), {}, {})
           /\ asked.class = "identity" /\ asked' = asked /\ inv' = inv
           /\ servers = {} /\ servers' = {}
           /\ Taken' = Taken + 1 /\ Taken \in Nat /\ Taken' \in 1..Len(asked.ids)
           /\ Head(queue) = asked.ids[Taken']
           /\ \A u \in ListedUsers(Head(queue)) : u \in Users /\ u \notin {"public", "none"}
<1>1. /\ TakeNext("identity")
      /\ Add(Head(queue), IdentityChains(Head(queue)), {}, {}) /\ servers' = servers
  BY DEF MigrateIdentity, IdentityChains, Granted
<1>2. \A u \in ListedUsers(Head(queue)) : u \in Users /\ u \notin {"public", "none"}
  <2>1. inv.grants \subseteq Users \X Roles \X Tenants
    BY InventoryIs DEF Inventory
  <2> QED BY <2>1, PlanAssumption DEF ListedUsers
<1>3. Taken \in Nat
  BY DEF Order
<1> QED BY <1>1, <1>2, <1>3, Take

(* Each of its chains is in the plan afterwards.                           *)
LEMMA IdentityPlans ==
    ASSUME Order, Stored, Frame, MigrateIdentity, NEW t, t = Head(queue)
    PROVE  /\ Planned \subseteq Planned' /\ Stored' /\ Needed \subseteq Needed'
           /\ \A c \in IdentityChains(t) : c.is \in Planned'
           /\ \A r \in Planned' :
                  \/ r \in Planned
                  \/ \E c \in IdentityChains(t) : r = c.is /\ \A n \in c.needs : n \in Needed'
<1>1. /\ Add(t, IdentityChains(t), {}, {})
      /\ \A u \in ListedUsers(t) : u \in Users /\ u \notin {"public", "none"}
  BY IdentityIs
<1>2. Planned \subseteq Planned' /\ Stored'
  BY <1>1, StoredStep
<1>3. ASSUME NEW c \in IdentityChains(t) PROVE c.is \notin Placeholders
  <2> USE DEF Chain, Placeholders, public, nobody
  <2>1. CASE c = TenantChain(t)
    BY <2>1 DEF TenantChain
  <2>2. ASSUME NEW u \in NewUsers(t), c = UserChain(u) PROVE c.is \notin Placeholders
    <3>1. u \notin {"public", "none"}
      BY <1>1 DEF NewUsers
    <3> QED BY <2>2, <3>1 DEF UserChain
  <2>3. ASSUME NEW g \in Granted(t), c = MembershipChain(g) \/ c = RoleChain(g[2])
        PROVE  c.is \notin Placeholders
    BY <2>3 DEF MembershipChain, RoleChain
  <2> QED BY <2>1, <2>2, <2>3 DEF IdentityChains
<1>4. ASSUME NEW c \in IdentityChains(t) PROVE c.is \in Planned'
  BY <1>1, <1>3, <1>4, OnceIsPlanned
<1>5. New(IdentityChains(t), {}) \subseteq IdentityChains(t)
  BY DEF New
<1>6. ASSUME NEW r \in Planned', r \notin Planned
      PROVE  \E c \in IdentityChains(t) : r = c.is /\ \A n \in c.needs : n \in Needed'
  <2>1. PICK c \in New(IdentityChains(t), {}) : r = c.is
    BY <1>1, <1>6, AddIs
  <2>2. \A n \in c.needs : n \in Needed'
    BY <1>1, <2>1, AddIs
  <2> QED BY <1>5, <2>1, <2>2
<1>7. Needed \subseteq Needed'
  BY <1>1, AddIs
<1> QED BY <1>2, <1>4, <1>6, <1>7

(* What its chains require is in the plan by then, but for the default     *)
(* tenants of its users.                                                   *)
LEMMA IdentityNeeds ==
    ASSUME Order, Stored, Frame, MigrateIdentity, NEW t, t = Head(queue),
           NEW c \in IdentityChains(t), NEW r \in c.needs
    PROVE  \/ r \in Planned' /\ r[1] \notin {"server", "image"} /\ NewUsers(t) # {}
           \/ \E u \in NewUsers(t) : /\ c = UserChain(u)
                                     /\ r = <<"tenant", inv.defaultTenant[u]>>
                                     /\ inv.defaultTenant[u] # None
<1>1. \A d \in IdentityChains(t) : d.is \in Planned'
  BY IdentityPlans
<1>2. <<"tenant", t>> \in Planned'
  <2>1. /\ TenantChain(t) \in IdentityChains(t) /\ TenantChain(t).is = <<"tenant", t>>
    BY DEF IdentityChains, TenantChain, Chain
  <2> QED BY <1>1, <2>1
<1>3. ASSUME NEW u \in NewUsers(t) PROVE <<"user", u>> \in Planned'
  <2>1. UserChain(u) \in IdentityChains(t) /\ UserChain(u).is = <<"user", u>>
    BY DEF IdentityChains, UserChain, Chain
  <2> QED BY <1>1, <2>1
<1>4. ASSUME NEW g \in Granted(t)
      PROVE  g[1] \in NewUsers(t) /\ g[3] = t /\ <<"role", g[2]>> \in Planned'
  <2>1. RoleChain(g[2]) \in IdentityChains(t) /\ RoleChain(g[2]).is = <<"role", g[2]>>
    BY DEF IdentityChains, RoleChain, Chain
  <2> QED BY <1>1, <2>1 DEF Granted, Visible, GrantsOf
<1> USE DEF Chain
<1>5. CASE c = TenantChain(t)
  BY <1>5 DEF TenantChain
<1>6. ASSUME NEW u \in NewUsers(t), c = UserChain(u)
      PROVE  r = <<"tenant", inv.defaultTenant[u]>> /\ inv.defaultTenant[u] # None
  BY <1>6 DEF UserChain
<1>7. ASSUME NEW g \in Granted(t), c = MembershipChain(g)
      PROVE  r \in Planned' /\ r[1] \notin {"server", "image"} /\ NewUsers(t) # {}
  <2>1. r \in {<<"user", g[1]>>, <<"role", g[2]>>, <<"tenant", g[3]>>}
    BY <1>7 DEF MembershipChain
  <2>2. r \in Planned' /\ NewUsers(t) # {}
    BY <1>2, <1>3, <1>4, <2>1
  <2>3. r[1] \notin {"server", "image"}
    BY <2>1
  <2> QED BY <2>2, <2>3
<1>8. ASSUME NEW g \in Granted(t), c = RoleChain(g[2]) PROVE FALSE
  BY <1>8 DEF RoleChain
<1> HIDE DEF Chain
<1> QED BY <1>5, <1>6, <1>7, <1>8 DEF IdentityChains

(* What is planned with an identity: tenants, users, roles, memberships.   *)
LEMMA IdentityKinds ==
    ASSUME NEW t, NEW c \in IdentityChains(t)
    PROVE  /\ c.is[1] \in {"tenant", "user", "user_role", "role"}
           /\ c.is[1] = "user" => \E u \in NewUsers(t) : c = UserChain(u) /\ c.is[2] = u
<1> USE DEF Chain
<1>1. CASE c = TenantChain(t)
  BY <1>1 DEF TenantChain
<1>2. ASSUME NEW u \in NewUsers(t), c = UserChain(u)
      PROVE  c.is[1] = "user" /\ c.is[2] = u
  BY <1>2 DEF UserChain
<1>3. ASSUME NEW g \in Granted(t), c = MembershipChain(g) PROVE c.is[1] = "user_role"
  BY <1>3 DEF MembershipChain
<1>4. ASSUME NEW g \in Granted(t), c = RoleChain(g[2]) PROVE c.is[1] = "role"
  BY <1>4 DEF RoleChain
<1> HIDE DEF Chain
<1> QED BY <1>1, <1>2, <1>3, <1>4 DEF IdentityChains

(* Where no resources are asked for, no server is planned.                 *)
LEMMA NoServers ==
    ASSUME PlannedServers, asked.class # "resources"
    PROVE  /\ \A s \in Servers : <<"server", s>> \notin Planned
           /\ OwnersKeepTheirRoles
           /\ \A b : b \in Bases <=> asked.class = "images" /\ \E k \in 1..Taken : b = asked.ids[k]
BY DEF PlannedServers, OwnersKeepTheirRoles, Bases

(* The same, after a step.                                                 *)
LEMMA NoServersNext ==
    ASSUME PlannedServers', asked'.class # "resources"
    PROVE  /\ \A s \in Servers : <<"server", s>> \notin Planned'
           /\ OwnersKeepTheirRoles'
           /\ \A b : b \in Bases' <=> asked'.class = "images" /\ \E k \in 1..Taken' : b = asked'.ids[k]
<1>1. \A s \in Servers : <<"server", s>> \notin Planned'
  BY DEF PlannedServers
<1>2. OwnersKeepTheirRoles'
  BY <1>1 DEF OwnersKeepTheirRoles
<1>3. \A b : b \in Bases' <=> asked'.class = "images" /\ \E k \in 1..Taken' : b = asked'.ids[k]
  BY <1>1 DEF Bases
<1> QED BY <1>1, <1>2, <1>3

(* The step of an identity keeps the invariant.                            *)
LEMMA IdentityStep ==
    ASSUME PlanInv, Frame, MigrateIdentity
    PROVE  /\ Stored' /\ PlannedServers' /\ PlannedUsers' /\ PlannedImages' /\ Supplied'
           /\ OwnersNeeded' /\ TwiceAre' /\ Identities' /\ OwnersKeepTheirRoles' /\ Begin'
           /\ PlannedVolumes'
<1> DEFINE t == Head(queue)
<1>0. /\ Order /\ Stored /\ PlannedServers /\ PlannedUsers /\ PlannedImages /\ Supplied
      /\ OwnersNeeded /\ TwiceAre /\ Identities
  BY DEF PlanInv
<1>1. /\ Add(t, IdentityChains(t), {}, {})
      /\ asked.class = "identity" /\ asked' = asked /\ inv' = inv
      /\ servers = {} /\ servers' = {}
      /\ Taken' = Taken + 1 /\ Taken \in Nat /\ Taken' \in 1..Len(asked.ids)
      /\ t = asked.ids[Taken']
      /\ \A u \in ListedUsers(t) : u \in Users /\ u \notin {"public", "none"}
  BY <1>0, IdentityIs
<1>2. /\ Planned \subseteq Planned' /\ Stored' /\ Needed \subseteq Needed'
      /\ \A c \in IdentityChains(t) : c.is \in Planned'
      /\ \A r \in Planned' :
             \/ r \in Planned
             \/ \E c \in IdentityChains(t) : r = c.is /\ \A n \in c.needs : n \in Needed'
  BY <1>0, IdentityPlans
<1> HIDE DEF t
<1>3. ASSUME NEW r \in Planned', r[1] \notin {"tenant", "user", "user_role", "role"}
      PROVE  r \in Planned
  BY <1>2, <1>3, IdentityKinds
<1>4. PlannedServers'
  <2>1. ASSUME NEW s \in Servers PROVE <<"server", s>> \notin Planned'
    <3>1. <<"server", s>> \notin Planned
      BY <1>0, <1>1 DEF PlannedServers
    <3>2. <<"server", s>>[1] = "server"
      OBVIOUS
    <3> QED BY <1>3, <3>1, <3>2
  <2> QED BY <1>1, <2>1 DEF PlannedServers
<1>5. Bases = {} /\ Bases' = {} /\ OwnersKeepTheirRoles'
  BY <1>0, <1>1, <1>4, NoServers, NoServersNext
<1>6. PlannedImages'
  <2>1. ASSUME NEW i \in Images PROVE <<"image", i>> \notin Planned'
    <3>1. <<"image", i>> \notin Planned
      BY <1>0, <1>5 DEF PlannedImages
    <3>2. <<"image", i>>[1] = "image"
      OBVIOUS
    <3> QED BY <1>3, <3>1, <3>2
  <2> QED BY <1>5, <2>1 DEF PlannedImages
<1>7. OwnersNeeded'
  BY <1>5 DEF OwnersNeeded
<1>8. TwiceAre'
  <2>1. \A r : r \in twice' <=> r \in twice
    BY <1>0, <1>1, TwiceStep
  <2>2. /\ \A s : ~DupServer(s) /\ ~DupServer(s)'
        /\ \A l : ~DupImage(l) /\ ~DupImage(l)'
    BY <1>1, <1>5 DEF DupServer, DupImage
  <2>3. \A r : r \notin Duplicates /\ r \notin Duplicates'
    BY <2>2, DuplicatesAre
  <2> QED BY <1>0, <2>1, <2>3 DEF TwiceAre
<1>9. PlannedUsers'
  <2> SUFFICES ASSUME NEW p \in Planned', p[1] = "user"
               PROVE  /\ p[2] \in Users
                      /\ inv.defaultTenant[p[2]] # None => <<"tenant", inv.defaultTenant[p[2]]>> \in Needed'
    BY <1>1 DEF PlannedUsers
  <2>1. CASE p \in Planned
    BY <1>0, <1>2, <2>1 DEF PlannedUsers
  <2>2. CASE p \notin Planned
    <3>1. PICK c \in IdentityChains(t) : p = c.is /\ \A n \in c.needs : n \in Needed'
      BY <1>2, <2>2
    <3>2. PICK u \in NewUsers(t) : c = UserChain(u) /\ c.is[2] = u
      BY <3>1, IdentityKinds
    <3>3. u \in Users
      BY <1>1 DEF NewUsers
    <3> QED BY <3>1, <3>2, <3>3 DEF UserChain, Chain
  <2> QED BY <2>1, <2>2
<1>10. Supplied'
  <2>1. ASSUME NEW c \in IdentityChains(t), NEW r \in c.needs
        PROVE  r \in Planned' \/ Gap(r)'
    <3>1. CASE r \in Planned'
      BY <3>1
    <3>2. ASSUME NEW u \in NewUsers(t), r = <<"tenant", inv.defaultTenant[u]>>,
                 inv.defaultTenant[u] # None
          PROVE  Gap(r)'
      <4>1. UserChain(u) \in IdentityChains(t) /\ UserChain(u).is = <<"user", u>>
        BY DEF IdentityChains, UserChain, Chain
      <4>2. <<"user", u>> \in Planned' /\ u \in Users
        BY <1>1, <1>2, <4>1 DEF NewUsers
      <4> QED BY <1>1, <3>2, <4>2 DEF Gap
    <3> QED BY <1>0, <3>1, <3>2, IdentityNeeds DEF t
  <2>2. New(IdentityChains(t), {}) \subseteq IdentityChains(t)
    BY DEF New
  <2>3. store \subseteq store' /\ Bases \subseteq Bases'
    BY <1>1, <1>5, AddIs
  <2> QED BY <1>0, <1>1, <1>2, <2>1, <2>2, <2>3, SuppliedStep
<1>11. Begin'
  BY <1>1 DEF Begin
<1>12. Identities'
  <2>1. \A x : ListedUsers(x)' = ListedUsers(x) /\ Visible(inv.grants)' = Visible(inv.grants)
    BY <1>1 DEF ListedUsers, Visible
  <2>2. ASSUME NEW p \in Planned', p[1] = "user"
        PROVE  \E k \in 1..Taken' : p[2] \in ListedUsers(asked.ids[k])
    <3>1. CASE p \in Planned
      BY <1>0, <1>1, <2>2, <3>1 DEF Identities
    <3>2. CASE p \notin Planned
      <4>1. PICK c \in IdentityChains(t) : p = c.is
        BY <1>2, <3>2
      <4>2. p[2] \in ListedUsers(t)
        BY <2>2, <4>1, IdentityKinds DEF NewUsers
      <4>3. Taken' \in 1..Taken'
        BY <1>1
      <4> QED BY <1>1, <4>2, <4>3
    <3> QED BY <3>1, <3>2
  <2>3. <<"tenant", t>> \in Planned'
    <3>1. /\ TenantChain(t) \in IdentityChains(t) /\ TenantChain(t).is = <<"tenant", t>>
      BY DEF IdentityChains, TenantChain, Chain
    <3> QED BY <1>2, <3>1
  <2>4. ASSUME NEW u \in ListedUsers(t) \ {AuthUser} PROVE <<"user", u>> \in Planned'
    <3>1. CASE <<"user", u>> \in store
      BY <1>0, <1>1, <1>2, <3>1 DEF Stored
    <3>2. CASE <<"user", u>> \notin store
      <4>1. UserChain(u) \in IdentityChains(t) /\ UserChain(u).is = <<"user", u>>
        BY <3>2 DEF IdentityChains, NewUsers, UserChain, Chain
      <4> QED BY <1>2, <4>1
    <3> QED BY <3>1, <3>2
  <2>5. ASSUME NEW g \in Visible(inv.grants), g[3] = t
        PROVE  \/ <<"user_role", g>> \in Planned'
               \/ g[1] = AuthUser
               \/ \E j \in 1..(Taken' - 1) : g[1] \in ListedUsers(asked.ids[j])
    <3>1. g[1] \in ListedUsers(t)
      BY <2>5 DEF ListedUsers, Visible
    <3>2. CASE <<"user", g[1]>> \in store
      <4>1. <<"user", g[1]>> \in Planned
        BY <1>0, <1>1, <3>2 DEF Stored
      <4>2. <<"user", g[1]>>[1] = "user" /\ <<"user", g[1]>>[2] = g[1]
        OBVIOUS
      <4>3. \E k \in 1..Taken : g[1] \in ListedUsers(asked.ids[k])
        BY <1>0, <1>1, <4>1, <4>2 DEF Identities
      <4>4. Taken' - 1 = Taken
        BY <1>1
      <4> QED BY <4>3, <4>4
    <3>3. CASE g[1] # AuthUser /\ <<"user", g[1]>> \notin store
      <4>1. g[1] \in NewUsers(t) /\ g \in Visible(GrantsOf(g[1], t))
        BY <2>5, <3>1, <3>3 DEF NewUsers, Visible, GrantsOf
      <4>2. g \in Granted(t)
        BY <4>1 DEF Granted
      <4>3. MembershipChain(g) \in IdentityChains(t) /\ MembershipChain(g).is = <<"user_role", g>>
        BY <4>2 DEF IdentityChains, MembershipChain, Chain
      <4> QED BY <1>2, <4>3
    <3> QED BY <3>2, <3>3
  <2>6. ASSUME NEW k \in 1..Taken'
        PROVE  /\ <<"tenant", asked.ids[k]>> \in Planned'
               /\ \A u \in ListedUsers(asked.ids[k]) \ {AuthUser} : <<"user", u>> \in Planned'
               /\ \A g \in {h \in Visible(inv.grants) : h[3] = asked.ids[k]} :
                      \/ <<"user_role", g>> \in Planned'
                      \/ g[1] = AuthUser
                      \/ \E j \in 1..(k - 1) : g[1] \in ListedUsers(asked.ids[j])
    <3>1. CASE k \in 1..Taken
      BY <1>0, <1>1, <1>2, <3>1 DEF Identities
    <3>2. CASE k = Taken'
      BY <1>1, <2>3, <2>4, <2>5, <3>2
    <3>3. k \in 1..Taken \/ k = Taken'
      BY <1>1
    <3> QED BY <3>1, <3>2, <3>3
  <2> QED BY <1>1, <2>1, <2>2, <2>6 DEF Identities
<1>13. PlannedVolumes'
  BY <1>1 DEF PlannedVolumes
<1> QED BY <1>2, <1>4, <1>5, <1>6, <1>7, <1>8, <1>9, <1>10, <1>11, <1>12, <1>13

-----------------------------------------------------------------------------
(* An image.                                                               *)

(* The step of an image keeps the invariant.                               *)
LEMMA ImageStep ==
    ASSUME PlanInv, Frame, MigrateImage
    PROVE  /\ Stored' /\ PlannedServers' /\ PlannedUsers' /\ PlannedImages' /\ Supplied'
           /\ OwnersNeeded' /\ TwiceAre' /\ Identities' /\ OwnersKeepTheirRoles' /\ Begin'
           /\ PlannedVolumes'
<1> DEFINE i == Head(queue)
<1>0. /\ Order /\ Stored /\ PlannedServers /\ PlannedUsers /\ PlannedImages /\ Supplied
      /\ OwnersNeeded /\ TwiceAre
  BY DEF PlanInv
<1>1. /\ Add(i, {}, ImageChains(i), ImageKeys(i)) /\ servers' = servers /\ TakeNext("images")
  BY DEF MigrateImage
<1>2. /\ asked.class = "images" /\ asked' = asked /\ inv' = inv /\ servers = {}
      /\ Taken' = Taken + 1 /\ Taken' \in 1..Len(asked.ids)
      /\ i = asked.ids[Taken'] /\ i \in Given
  BY <1>0, <1>1, Take
<1>3. i \in Images /\ Taken \in Nat
  BY <1>0, <1>2 DEF Given, IdsOf, Order
<1> HIDE DEF i
<1>4. New({}, ImageChains(i)) = ImageChains(i)
  BY DEF New
<1>5. /\ \A r : r \in Planned' <=> r \in Planned \/ \E c \in ImageChains(i) : r = c.is
      /\ \A r : r \in Needed' <=> r \in Needed \/ \E c \in ImageChains(i) : r \in c.needs
      /\ \A r : r \in store' <=> r \in store \cup ImageKeys(i) \/ \E c \in ImageChains(i) : r = c.is
      /\ \A r : r \in twice' <=>
             r \in twice \/ (r \in Planned /\ \E c \in ImageChains(i) : r = c.is)
  BY <1>1, <1>4, AddIs
<1>6. /\ \A r : (\E c \in ImageChains(i) : r = c.is) <=>
                    \E l \in Images : l \in {i, inv.kernelOf[i]} /\ r = <<"image", l>>
      /\ \A c \in ImageChains(i) : \A n \in c.needs :
             n = ImageOwner(i) \/ \E d \in ImageChains(i) : n = d.is
      /\ \E c \in ImageChains(i) : ImageOwner(i) \in c.needs
  BY <1>0, <1>3, ImageChainsAre
<1>7. ASSUME NEW r \in Planned', r[1] # "image" PROVE r \in Planned
  <2>1. (\E c \in ImageChains(i) : r = c.is) => \E l \in Images : r = <<"image", l>>
    BY <1>6
  <2> QED BY <1>5, <1>7, <2>1
<1>8. ASSUME NEW x \in Images
      PROVE  <<"image", x>> \in Planned' <=> <<"image", x>> \in Planned \/ x \in {i, inv.kernelOf[i]}
  <2>1. (\E c \in ImageChains(i) : <<"image", x>> = c.is) <=>
            \E l \in Images : l \in {i, inv.kernelOf[i]} /\ <<"image", x>> = <<"image", l>>
    BY <1>6
  <2> QED BY <1>5, <2>1
<1>9. Stored' /\ Planned \subseteq Planned' /\ Needed \subseteq Needed' /\ store \subseteq store'
  <2>1. ImageKeys(i) \in SUBSET Placeholders
    BY DEF ImageKeys, Placeholders
  <2>2. Stored' /\ Planned \subseteq Planned'
    BY <1>0, <1>1, <1>2, <2>1, StoredStep
  <2> QED BY <1>5, <2>2
<1>10. PlannedServers'
  <2>1. ASSUME NEW s \in Servers PROVE <<"server", s>> \notin Planned'
    <3>1. <<"server", s>> \notin Planned
      BY <1>0, <1>2 DEF PlannedServers
    <3>2. <<"server", s>>[1] = "server"
      OBVIOUS
    <3> QED BY <1>7, <3>1, <3>2
  <2> QED BY <1>2, <2>1 DEF PlannedServers
<1>11. /\ \A b : b \in Bases <=> \E k \in 1..Taken : b = asked.ids[k]
       /\ \A b : b \in Bases' <=> \E k \in 1..Taken' : b = asked.ids[k]
       /\ OwnersKeepTheirRoles'
  BY <1>0, <1>2, <1>10, NoServers, NoServersNext
<1>12. i \notin Bases /\ \A b : b \in Bases' <=> b \in Bases \/ b = i
  <2>1. \A k \in 1..Taken' : k \in 1..Taken \/ k = Taken'
    BY <1>2, <1>3
  <2>2. \A k \in 1..Taken : k \in 1..Taken' /\ k # Taken'
    BY <1>2, <1>3
  <2>3. Taken' \in 1..Taken'
    BY <1>2
  <2>4. ASSUME NEW k \in 1..Taken PROVE asked.ids[k] # i
    <3>1. IsInjective(asked.ids) /\ asked.ids \in Seq(Given)
      BY <1>0, <1>2 DEF Order, Listed
    <3>2. DOMAIN asked.ids = 1..Len(asked.ids) /\ Len(asked.ids) \in Nat
      BY <3>1
    <3>3. k \in DOMAIN asked.ids /\ Taken' \in DOMAIN asked.ids /\ k # Taken'
      BY <1>2, <1>3, <3>2
    <3> QED BY <1>2, <3>1, <3>3 DEF IsInjective
  <2> QED BY <1>2, <1>11, <2>1, <2>2, <2>3, <2>4
<1>13. /\ PlannedImages'
       /\ \A l \in Images : DupImage(l)' <=>
              DupImage(l) \/ (<<"image", l>> \in Planned /\ l \in {i, inv.kernelOf[i]})
  BY <1>0, <1>3, <1>8, <1>12, ImagesGrow
<1>14. TwiceAre'
  <2>1. \A s : ~DupServer(s) /\ ~DupServer(s)'
    BY <1>2 DEF DupServer
  <2>2. ASSUME NEW r PROVE r \in twice' <=> r \in Duplicates'
    <3>1. r \in Duplicates <=> \E l \in Images : r = <<"image", l>> /\ DupImage(l)
      BY <2>1, DuplicatesAre
    <3>2. r \in Duplicates' <=> \E l \in Images : r = <<"image", l>> /\ DupImage(l)'
      BY <2>1, DuplicatesAre
    <3>3. r \in twice <=> r \in Duplicates
      BY <1>0 DEF TwiceAre
    <3>4. r \in twice' <=> r \in twice \/ (r \in Planned /\ \E c \in ImageChains(i) : r = c.is)
      BY <1>5
    <3>5. (\E c \in ImageChains(i) : r = c.is) <=>
              \E l \in Images : l \in {i, inv.kernelOf[i]} /\ r = <<"image", l>>
      BY <1>6
    <3>6. (\E l \in Images : r = <<"image", l>> /\ DupImage(l)') <=>
              \/ \E l \in Images : r = <<"image", l>> /\ DupImage(l)
              \/ r \in Planned /\ \E l \in Images : l \in {i, inv.kernelOf[i]} /\ r = <<"image", l>>
      BY <1>13
    <3> QED BY <3>1, <3>2, <3>3, <3>4, <3>5, <3>6
  <2> QED BY <2>2 DEF TwiceAre
<1>15. PlannedUsers'
  <2> SUFFICES ASSUME NEW p \in Planned', p[1] = "user"
               PROVE  /\ p[2] \in Users
                      /\ inv.defaultTenant[p[2]] # None => <<"tenant", inv.defaultTenant[p[2]]>> \in Needed'
    BY <1>2 DEF PlannedUsers
  <2> QED BY <1>0, <1>7, <1>9 DEF PlannedUsers
<1>16. OwnersNeeded'
  <2>1. \A x : ImageOwner(x)' = ImageOwner(x)
    BY <1>2 DEF ImageOwner, public
  <2>2. ASSUME NEW x \in Bases' PROVE ImageOwner(x) \in Needed'
    <3>1. CASE x \in Bases
      BY <1>0, <1>9, <3>1 DEF OwnersNeeded
    <3>2. CASE x = i
      BY <1>5, <1>6, <3>2
    <3> QED BY <1>12, <3>1, <3>2
  <2> QED BY <2>1, <2>2 DEF OwnersNeeded
<1>17. Supplied'
  <2>1. ASSUME NEW c \in ImageChains(i), NEW r \in c.needs
        PROVE  r \in Planned' \/ (r \in Placeholders /\ r \in store') \/ Gap(r)'
    <3>1. CASE \E d \in ImageChains(i) : r = d.is
      BY <1>5, <3>1
    <3>2. CASE r = ImageOwner(i) /\ i \in inv.private
      <4>1. i \in Bases' /\ r = <<"user", inv.ownerOf[i]>>
        BY <1>12, <3>2 DEF ImageOwner
      <4>2. Gap(r)'
        BY <1>2, <3>2, <4>1 DEF Gap
      <4> QED BY <4>2
    <3>3. CASE r = ImageOwner(i) /\ i \notin inv.private
      <4>1. r \in Placeholders /\ r \in ImageKeys(i)
        BY <3>3 DEF ImageOwner, ImageKeys, Placeholders
      <4> QED BY <1>5, <4>1
    <3> QED BY <1>6, <3>1, <3>2, <3>3
  <2>2. Bases \subseteq Bases'
    BY <1>12
  <2> QED BY <1>0, <1>1, <1>4, <1>9, <2>1, <2>2, SuppliedStep
<1>18. Identities' /\ Begin' /\ PlannedVolumes'
  BY <1>2, <1>3 DEF Identities, Begin, PlannedVolumes
<1> QED BY <1>9, <1>10, <1>11, <1>13, <1>14, <1>15, <1>16, <1>17, <1>18

-----------------------------------------------------------------------------
(* A volume.                                                               *)

(* What the step of a volume adds.                                         *)
LEMMA VolumeAdds ==
    ASSUME Order, MigrateVolume, NEW v, v = Head(queue)
    PROVE  /\ Add(v, {}, {VolumeChain(v)}, {nobody}) /\ New({}, {VolumeChain(v)}) = {VolumeChain(v)}
           /\ VolumeChain(v).is = <<"volume", v>> /\ VolumeChain(v).needs = {nobody}
           /\ asked.class = "volumes" /\ asked' = asked /\ inv' = inv /\ servers = {}
           /\ Taken' = Taken + 1 /\ Taken' \in 1..Len(asked.ids) /\ Taken \in Nat
           /\ v = asked.ids[Taken']
           /\ \A k \in 1..Taken : asked.ids[k] # v
<1>1. /\ TakeNext("volumes") /\ Add(v, {}, {VolumeChain(v)}, {nobody})
  BY DEF MigrateVolume
<1>2. /\ asked.class = "volumes" /\ asked' = asked /\ inv' = inv /\ servers = {}
      /\ Taken' = Taken + 1 /\ Taken' \in 1..Len(asked.ids) /\ v = asked.ids[Taken']
      /\ Taken \in Nat
  BY <1>1, Take DEF Order
<1>3. ASSUME NEW k \in 1..Taken PROVE asked.ids[k] # v
  <2>1. IsInjective(asked.ids) /\ asked.ids \in Seq(Given)
    BY <1>2 DEF Order, Listed
  <2>2. DOMAIN asked.ids = 1..Len(asked.ids) /\ Len(asked.ids) \in Nat
    BY <2>1
  <2>3. k \in DOMAIN asked.ids /\ Taken' \in DOMAIN asked.ids /\ k # Taken'
    BY <1>2, <2>2
  <2> QED BY <1>2, <2>1, <2>3 DEF IsInjective
<1> QED BY <1>1, <1>2, <1>3 DEF New, VolumeChain, Chain

(* The step of a volume keeps the invariant.                               *)
LEMMA VolumeStep ==
    ASSUME PlanInv, Frame, MigrateVolume
    PROVE  /\ Stored' /\ PlannedServers' /\ PlannedUsers' /\ PlannedImages' /\ Supplied'
           /\ OwnersNeeded' /\ TwiceAre' /\ Identities' /\ OwnersKeepTheirRoles' /\ Begin'
           /\ PlannedVolumes'
<1>. PICK v : v = Head(queue)
  OBVIOUS
<1>0. /\ Order /\ Stored /\ PlannedServers /\ PlannedImages /\ Supplied /\ TwiceAre
      /\ PlannedVolumes
  BY DEF PlanInv
<1>1. /\ Add(v, {}, {VolumeChain(v)}, {nobody}) /\ New({}, {VolumeChain(v)}) = {VolumeChain(v)}
      /\ VolumeChain(v).is = <<"volume", v>> /\ VolumeChain(v).needs = {nobody}
      /\ asked.class = "volumes" /\ asked' = asked /\ inv' = inv /\ servers = {}
      /\ Taken' = Taken + 1 /\ Taken' \in 1..Len(asked.ids) /\ Taken \in Nat
      /\ v = asked.ids[Taken']
      /\ \A k \in 1..Taken : asked.ids[k] # v
  BY <1>0, VolumeAdds
<1>2. /\ \A r : r \in Planned' <=> r \in Planned \/ r = <<"volume", v>>
      /\ \A r : r \in store' <=> r \in store \/ r \in {nobody, <<"volume", v>>}
      /\ \A r : r \in twice' <=> r \in twice \/ (r \in Planned /\ r = <<"volume", v>>)
  <2> DEFINE always == {VolumeChain(v)}
             keys == {nobody}
  <2>1. Add(v, {}, always, keys)
    BY <1>1
  <2>2. \A r : (\E c \in New({}, always) : r = c.is) <=> r = <<"volume", v>>
    BY <1>1
  <2>3. \A r : r \in keys <=> r = nobody
    OBVIOUS
  <2> HIDE DEF always, keys
  <2>4. /\ \A r : r \in Planned' <=> r \in Planned \/ \E c \in New({}, always) : r = c.is
        /\ \A r : r \in store' <=> r \in store \cup keys \/ \E c \in New({}, always) : r = c.is
        /\ \A r : r \in twice' <=>
               r \in twice \/ (r \in Planned /\ \E c \in New({}, always) : r = c.is)
    BY <2>1, AddIs
  <2> QED BY <2>2, <2>3, <2>4
<1>3. /\ \A r \in Planned' : r[1] = "volume"
      /\ <<"volume", v>> \notin Planned
      /\ PlannedVolumes'
  <2>1. Planned = {<<"volume", asked.ids[k]>> : k \in 1..Taken}
    BY <1>0, <1>1 DEF PlannedVolumes
  <2>2. \A k : k \in 1..Taken' <=> k \in 1..Taken \/ k = Taken'
    BY <1>1
  <2>3. \A r : r \in Planned' <=> \E k \in 1..Taken' : r = <<"volume", asked.ids[k]>>
    BY <1>1, <1>2, <2>1, <2>2
  <2>4. Planned' = {<<"volume", asked.ids[k]>> : k \in 1..Taken'}
    BY <2>3
  <2>5. PlannedVolumes'
    BY <1>1, <2>4 DEF PlannedVolumes
  <2>6. \A r \in Planned' : r[1] = "volume"
    BY <2>3
  <2> QED BY <1>1, <2>1, <2>5, <2>6
<1>4. Stored' /\ Planned \subseteq Planned' /\ store \subseteq store'
  BY <1>0, <1>1, <1>2 DEF Stored, Placeholders
<1>5. PlannedServers' /\ PlannedUsers'
  <2>1. \A s : <<"server", s>> \notin Planned'
    BY <1>3
  <2>2. \A p \in Planned' : p[1] # "user"
    BY <1>3
  <2> QED BY <1>1, <2>1, <2>2 DEF PlannedServers, PlannedUsers
<1>6. Bases = {} /\ Bases' = {} /\ OwnersKeepTheirRoles'
  BY <1>0, <1>1, <1>5, NoServers, NoServersNext
<1>7. PlannedImages' /\ OwnersNeeded'
  <2>1. \A i : <<"image", i>> \notin Planned'
    BY <1>3
  <2> QED BY <1>6, <2>1 DEF PlannedImages, OwnersNeeded
<1>8. TwiceAre'
  <2>1. \A s : ~DupServer(s) /\ ~DupServer(s)'
    BY <1>1 DEF DupServer
  <2>2. \A l : ~DupImage(l) /\ ~DupImage(l)'
    BY <1>6 DEF DupImage
  <2>3. ASSUME NEW r PROVE r \notin Duplicates /\ r \notin Duplicates'
    BY <2>1, <2>2, DuplicatesAre
  <2>4. \A r : r \notin twice'
    BY <1>0, <1>2, <1>3, <2>3 DEF TwiceAre
  <2> QED BY <2>3, <2>4 DEF TwiceAre
<1>9. Supplied'
  <2>1. ASSUME NEW c \in New({}, {VolumeChain(v)}), NEW r \in c.needs
        PROVE  r \in Planned' \/ (r \in Placeholders /\ r \in store') \/ Gap(r)'
    BY <1>1, <1>2 DEF Placeholders
  <2>2. Bases \subseteq Bases'
    BY <1>6
  <2> QED BY <1>0, <1>1, <1>4, <2>1, <2>2, SuppliedStep
<1>10. Identities' /\ Begin'
  BY <1>1 DEF Identities, Begin
<1> QED BY <1>3, <1>4, <1>5, <1>6, <1>7, <1>8, <1>9, <1>10

-----------------------------------------------------------------------------
(* The servers of a tenant, listed and then planned one by one.            *)

(* Listing the servers of a tenant keeps the invariant: each was passed as *)
(* often as its tenant was given before.                                   *)
LEMMA ResourcesStep ==
    ASSUME PlanInv, Frame, MigrateResources
    PROVE  /\ Stored' /\ PlannedServers' /\ PlannedUsers' /\ PlannedImages' /\ Supplied'
           /\ OwnersNeeded' /\ TwiceAre' /\ Identities' /\ OwnersKeepTheirRoles' /\ Begin'
           /\ PlannedVolumes'
<1>0. /\ Order /\ Stored /\ PlannedServers /\ PlannedUsers /\ PlannedImages /\ Supplied
      /\ OwnersNeeded /\ TwiceAre /\ OwnersKeepTheirRoles
  BY DEF PlanInv
<1>1. /\ TakeNext("resources") /\ servers' = {s \in Servers : inv.tenantOf[s] = Head(queue)}
      /\ UNCHANGED <<store, plan, needs, twice>>
  BY DEF MigrateResources
<1>2. /\ asked.class = "resources" /\ asked' = asked /\ inv' = inv /\ servers = {}
      /\ Taken' = Taken + 1 /\ Taken' \in 1..Len(asked.ids)
      /\ Head(queue) = asked.ids[Taken'] /\ Taken \in Nat
  BY <1>0, <1>1, Take DEF Order
<1>3. Planned' = Planned /\ Needed' = Needed
  BY <1>1 DEF Planned, Needed
<1>4. ASSUME NEW x \in Servers PROVE Passed(x)' = Passed(x)
  <2>1. \A k : k \in Passed(x) <=> k \in 1..Taken /\ asked.ids[k] = inv.tenantOf[x]
    BY <1>2 DEF Passed
  <2>2. \A k : k \in Passed(x)' <=> /\ k \in 1..Taken' /\ asked.ids[k] = inv.tenantOf[x]
                                    /\ ~(k = Taken' /\ x \in servers')
    BY <1>2 DEF Passed
  <2>3. \A k : k \in 1..Taken' <=> k \in 1..Taken \/ k = Taken'
    BY <1>2
  <2>4. asked.ids[Taken'] = inv.tenantOf[x] <=> x \in servers'
    BY <1>1, <1>2
  <2>5. \A k : k \in Passed(x)' <=> k \in Passed(x)
    <3>1. Taken' \notin 1..Taken
      BY <1>2
    <3> QED BY <2>1, <2>2, <2>3, <2>4, <3>1
  <2> QED BY <2>5 DEF Passed
<1>5. Bases' = Bases
  BY <1>2, <1>3 DEF Bases
<1>6. Stored' /\ PlannedServers' /\ PlannedUsers' /\ PlannedImages'
  BY <1>0, <1>1, <1>2, <1>3, <1>4, <1>5 DEF Stored, PlannedServers, PlannedUsers, PlannedImages
<1>7. Supplied' /\ OwnersNeeded'
  BY <1>0, <1>1, <1>2, <1>3, <1>5 DEF Supplied, OwnersNeeded, Gap, ImageOwner, public
<1>8. TwiceAre'
  <2>1. \A s \in Servers : DupServer(s)' <=> DupServer(s)
    BY <1>2, <1>4 DEF DupServer
  <2>2. \A l : DupImage(l)' <=> DupImage(l)
    BY <1>2, <1>5 DEF DupImage
  <2>3. ASSUME NEW r PROVE r \in Duplicates' <=> r \in Duplicates
    BY <2>1, <2>2, DuplicatesAre
  <2> QED BY <1>0, <1>1, <2>3 DEF TwiceAre
<1>9. OwnersKeepTheirRoles'
  BY <1>0, <1>2, <1>3 DEF OwnersKeepTheirRoles, Visible, GrantsOf
<1>10. Identities' /\ Begin' /\ PlannedVolumes'
  BY <1>2 DEF Identities, Begin, PlannedVolumes
<1> QED BY <1>6, <1>7, <1>8, <1>9, <1>10

(* A server brings the memberships of its user.                            *)
LEMMA RolesOfServer ==
    ASSUME Order, Stored, PlannedServers, OwnersKeepTheirRoles, Frame,
           NEW s \in servers, MigrateServer(s)
    PROVE  OwnersKeepTheirRoles'
<1>1. inv' = inv /\ Planned \subseteq Planned'
  BY ServerPlans DEF Frame
<1> SUFFICES ASSUME NEW x \in Servers, <<"server", x>> \in Planned',
                    NEW g \in Visible(GrantsOf(inv.userOf[x], inv.tenantOf[x]))
             PROVE  <<"user_role", g>> \in Planned'
  BY <1>1 DEF OwnersKeepTheirRoles, Visible, GrantsOf
<1>2. CASE <<"server", x>> \in Planned
  BY <1>1, <1>2 DEF OwnersKeepTheirRoles
<1>3. CASE x = s
  <2>1. MembershipChain(g) \in SharedChains(s)
    BY <1>3 DEF SharedChains, ServerIdentity
  <2>2. MembershipChain(g).is = <<"user_role", g>>
    BY DEF MembershipChain, Chain
  <2> QED BY <2>1, <2>2, ServerPlans
<1> QED BY <1>2, <1>3, ServersOfServer

(* The step of a server keeps the invariant.                               *)
LEMMA ServerStep ==
    ASSUME PlanInv, Frame, NEW s \in servers, MigrateServer(s)
    PROVE  /\ Stored' /\ PlannedServers' /\ PlannedUsers' /\ PlannedImages' /\ Supplied'
           /\ OwnersNeeded' /\ TwiceAre' /\ Identities' /\ OwnersKeepTheirRoles' /\ Begin'
           /\ PlannedVolumes'
<1>0. /\ Order /\ Stored /\ PlannedServers /\ PlannedUsers /\ PlannedImages /\ Supplied
      /\ OwnersNeeded /\ TwiceAre /\ OwnersKeepTheirRoles
  BY DEF PlanInv
<1>1. Stored' /\ PlannedServers'
  BY <1>0, ServerPlans, ServersOfServer
<1>2. PlannedUsers' /\ PlannedImages'
  BY <1>0, UsersOfServer, ImagesOfServer
<1>3. Supplied' /\ OwnersNeeded' /\ TwiceAre' /\ OwnersKeepTheirRoles'
  BY <1>0, SuppliedOfServer, OwnersOfServer, TwiceOfServer, RolesOfServer
<1>4. asked.class = "resources" /\ asked' = asked /\ Taken' = Taken /\ Taken > 0 /\ Taken \in Nat
  BY <1>0 DEF Order, MigrateServer, Taken
<1>5. Identities' /\ Begin' /\ PlannedVolumes'
  BY <1>4 DEF Identities, Begin, PlannedVolumes
<1> QED BY <1>1, <1>2, <1>3, <1>5

(* A step of the planning keeps the invariant.                             *)
LEMMA PlanStep == PlanInv /\ Next => PlanInv'
<1> SUFFICES ASSUME PlanInv, Next PROVE PlanInv'
  OBVIOUS
<1>1. Order' /\ Frame
  BY OrderStep DEF PlanInv
<1>2. ASSUME NEW s \in servers, MigrateServer(s) PROVE PlanInv'
  BY <1>1, <1>2, ServerStep DEF PlanInv
<1>3. CASE MigrateResources
  BY <1>1, <1>3, ResourcesStep DEF PlanInv
<1>4. CASE MigrateIdentity
  BY <1>1, <1>4, IdentityStep DEF PlanInv
<1>5. CASE MigrateImage
  BY <1>1, <1>5, ImageStep DEF PlanInv
<1>6. CASE MigrateVolume
  BY <1>1, <1>6, VolumeStep DEF PlanInv
<1> QED BY <1>2, <1>3, <1>4, <1>5, <1>6 DEF Next

-----------------------------------------------------------------------------
(* The plan, for any inventory, ids and order of the servers.              *)

(* Nothing is planned yet.                                                 *)
Blank ==
    /\ inv \in Inventories /\ queue = asked.ids
    /\ servers = {} /\ store = {} /\ plan = {} /\ needs = {} /\ twice = {}
    /\ asked.ids \in Seq(Given)
    /\ Listed(asked.class) => IsInjective(asked.ids)

(* An empty plan has the invariant.                                        *)
LEMMA BlankPlan == Blank => PlanInv
<1> SUFFICES ASSUME Blank PROVE PlanInv
  OBVIOUS
<1>1. Len(asked.ids) \in Nat /\ Taken = 0
  BY DEF Blank, Taken
<1>2. Planned = {} /\ Needed = {} /\ 1..Taken = {}
  BY <1>1 DEF Blank, Planned, Needed
<1>3. Bases = {} /\ \A s : Passed(s) = {}
  BY <1>2 DEF Bases, Passed
<1>4. Order
  BY <1>1 DEF Blank, Order
<1>5. Stored /\ Begin /\ PlannedUsers /\ PlannedServers /\ PlannedImages /\ PlannedVolumes
  BY <1>2, <1>3 DEF Blank, Stored, Begin, PlannedUsers, PlannedServers, PlannedImages, PlannedVolumes
<1>6. Supplied /\ OwnersNeeded /\ OwnersKeepTheirRoles /\ Identities
  BY <1>2, <1>3 DEF Supplied, OwnersNeeded, OwnersKeepTheirRoles, Identities
<1>7. TwiceAre
  <2>1. \A r : r \notin Duplicates
    BY <1>3, DuplicatesAre DEF DupServer, DupImage
  <2> QED BY <2>1 DEF Blank, TwiceAre
<1> QED BY <1>4, <1>5, <1>6, <1>7 DEF PlanInv

(* The same, after a step.                                                 *)
LEMMA BlankPlanNext == Blank' => PlanInv'
  BY BlankPlan, PTL

(* The ids that the operator gives are sequences.                          *)
LEMMA IdsAreSequences ==
    ASSUME NEW S, NEW q \in UNION {[1..n -> S] : n \in 1..MaxIds}
    PROVE  q \in Seq(S)
<1>1. PICK n \in 1..MaxIds : q \in [1..n -> S]
  OBVIOUS
<1>2. n \in Nat
  BY <1>1, PlanAssumption
<1> QED BY <1>1, <1>2

(* What is asked for is made of ids of its class.                          *)
LEMMA AskedIs ==
    ASSUME NEW a \in Asked
    PROVE  /\ a.ids \in Seq(IdsOf(a.class))
           /\ Listed(a.class) => IsInjective(a.ids)
<1>1. PICK class \in {"resources", "identity", "images", "volumes"} :
          a \in [class : {class},
                 ids : {q \in UNION {[1..n -> IdsOf(class)] : n \in 1..MaxIds} :
                            Listed(class) => IsInjective(q)},
                 disk : IF class = "resources" THEN {"image", "snapshot"} ELSE {"image"}]
  BY DEF Asked
<1>2. a.class = class /\ a.ids \in UNION {[1..n -> IdsOf(class)] : n \in 1..MaxIds}
      /\ (Listed(class) => IsInjective(a.ids))
  BY <1>1
<1> QED BY <1>2, IdsAreSequences

(* A step that leaves the plan alone.                                      *)
LEMMA PlanStutter == PlanInv /\ UNCHANGED vars => PlanInv'
<1> SUFFICES ASSUME PlanInv, UNCHANGED vars PROVE PlanInv'
  OBVIOUS
<1> USE DEF vars
<1>1. Taken' = Taken /\ Planned' = Planned /\ Needed' = Needed /\ Given' = Given
  BY DEF Taken, Planned, Needed, Given, IdsOf
<1>2. Bases' = Bases /\ \A s : Passed(s)' = Passed(s)
  BY <1>1 DEF Bases, Passed
<1>3. Order' /\ Stored' /\ Begin' /\ PlannedServers' /\ PlannedUsers' /\ PlannedImages'
      /\ PlannedVolumes'
  BY <1>1, <1>2 DEF PlanInv, Order, Stored, Begin, PlannedServers, PlannedUsers, PlannedImages,
                    PlannedVolumes
<1>4. Supplied' /\ OwnersNeeded'
  BY <1>1, <1>2 DEF PlanInv, Supplied, OwnersNeeded, Gap, ImageOwner, public
<1>5. Identities' /\ OwnersKeepTheirRoles'
  BY <1>1 DEF PlanInv, Identities, OwnersKeepTheirRoles, ListedUsers, Visible, GrantsOf
<1>6. TwiceAre'
  <2>1. /\ \A s : DupServer(s)' <=> DupServer(s)
        /\ \A l : DupImage(l)' <=> DupImage(l)
    BY <1>2 DEF DupServer, DupImage
  <2>2. ASSUME NEW r PROVE r \in Duplicates' <=> r \in Duplicates
    BY <2>1, DuplicatesAre
  <2> QED BY <2>2 DEF PlanInv, TwiceAre
<1> QED BY <1>3, <1>4, <1>5, <1>6 DEF PlanInv

(* The inductive invariant of the planning.                                *)
THEOREM PlanInvariant == Spec => []PlanInv
<1>1. Init => PlanInv
  <2>1. Init => Blank
    BY AskedIs DEF Init, Blank, Given, IdsOf
  <2> QED BY <2>1, BlankPlan
<1>2. PlanInv /\ [Next]_vars => PlanInv'
  BY PlanStutter, PlanStep
<1> QED BY <1>1, <1>2, PTL DEF Spec

-----------------------------------------------------------------------------
(* The flows that wait for each other.                                     *)

(* The chains of a server only depend on the inventory.                    *)
LEMMA ChainsStay ==
    ASSUME Frame, NEW s
    PROVE  SharedChains(s)' = SharedChains(s) /\ ServerChain(s)' = ServerChain(s)
<1>1. inv' = inv /\ asked' = asked
  BY DEF Frame
<1>2. \A t : Addresses(s, t)' = Addresses(s, t)
  BY <1>1 DEF Addresses
<1>3. ServerIdentity(s)' = ServerIdentity(s)
  BY <1>1 DEF ServerIdentity, TenantChain, UserChain, RoleChain, MembershipChain, Chain,
              GrantsOf, Visible
<1>4. ServerNics(s)' = ServerNics(s)
  BY <1>1, <1>2 DEF ServerNics, NicChain, FloatingIpChain, NetworkChains, Chain
<1>5. SharedChains(s)' = SharedChains(s)
  BY <1>1, <1>3, <1>4 DEF SharedChains, SecGroupChain, FlavorChain, Chain
<1>6. ServerChain(s)' = ServerChain(s)
  <2>1. Addresses(s, "fixed")' = Addresses(s, "fixed") /\ Addresses(s, "floating")' = Addresses(s, "floating")
    BY <1>2
  <2> QED BY <1>1, <2>1 DEF ServerChain, Chain
<1> QED BY <1>5, <1>6

(* What Add adds to the plan and the requirements, flow by flow.           *)
LEMMA AddPairs ==
    ASSUME NEW flow, NEW once, NEW always, NEW keys, Add(flow, once, always, keys)
    PROVE  /\ \A p : p \in plan' <=> p \in plan \/ \E c \in New(once, always) : p = <<flow, c.is>>
           /\ \A n : n \in needs' <=>
                  n \in needs \/ \E c \in New(once, always) : \E r \in c.needs : n = <<flow, r>>
<1> DEFINE new == New(once, always)
           names == {c.is : c \in new}
           wanted == UNION {c.needs : c \in new}
<1>1. plan' = plan \cup ({flow} \X names) /\ needs' = needs \cup ({flow} \X wanted)
  BY DEF Add, New
<1>2. \A r : r \in names <=> \E c \in new : r = c.is
  OBVIOUS
<1>3. \A r : r \in wanted <=> \E c \in new : r \in c.needs
  OBVIOUS
<1> HIDE DEF names, wanted, new
<1>4. \A p : p \in {flow} \X names <=> \E r \in names : p = <<flow, r>>
  OBVIOUS
<1>5. \A p : p \in {flow} \X wanted <=> \E r \in wanted : p = <<flow, r>>
  OBVIOUS
<1> QED BY <1>1, <1>2, <1>3, <1>4, <1>5 DEF new

(* Once a name comes from somewhere, it does so for good.                  *)
LEMMA ComesStays ==
    ASSUME Frame, plan \subseteq plan', NEW f, NEW r, Comes(f, r)
    PROVE  Comes(f, r)'
<1>1. inv' = inv /\ asked' = asked
  BY DEF Frame
<1>2. Single(r)' <=> Single(r)
  BY <1>1 DEF Single
<1>3. \A h : Before(h, f)' <=> Before(h, f)
  BY <1>1 DEF Before
<1> QED BY <1>1, <1>2, <1>3 DEF Comes

(* When an id is planned for the first time, all that is in the plan comes *)
(* from it or from ids before it.                                          *)
LEMMA ComesFirst ==
    ASSUME Order, Frame, FlowsAre, NEW flow, NEW once, NEW always, NEW keys,
           Add(flow, once, always, keys),
           NEW k \in DOMAIN asked.ids, asked.ids[k] = flow, Taken <= k,
           \A j \in 1..(k - 1) : asked.ids[j] # flow,
           NEW r \in Planned', Single(r)
    PROVE  Comes(flow, r)'
<1>1. inv' = inv /\ asked' = asked
  BY DEF Frame
<1>2. PICK p \in plan' : p[2] = r
  BY DEF Planned
<1>3. Single(r)'
  BY <1>1 DEF Single
<1>4. CASE p \in plan /\ p[1] # flow
  <2>1. PICK j \in 1..Taken : asked.ids[j] = p[1]
    BY <1>4 DEF FlowsAre
  <2>2. asked.ids \in Seq(Given) /\ Taken \in 0..Len(asked.ids)
    BY DEF Order
  <2>3. DOMAIN asked.ids = 1..Len(asked.ids) /\ Len(asked.ids) \in Nat
    BY <2>2
  <2>4. j \in DOMAIN asked.ids /\ j < k
    BY <1>4, <2>1, <2>2, <2>3
  <2>5. ASSUME NEW i \in DOMAIN asked.ids, asked.ids[i] = flow PROVE j < i
    <3>1. i \notin 1..(k - 1)
      BY <2>5
    <3> QED BY <2>3, <2>4, <3>1
  <2>6. Before(p[1], flow)'
    BY <1>1, <2>1, <2>4, <2>5 DEF Before
  <2> QED BY <1>2, <1>3, <2>6 DEF Comes
<1>5. CASE p \in plan /\ p[1] = flow
  <2>1. p = <<flow, r>>
    BY <1>2, <1>5 DEF FlowsAre
  <2> QED BY <1>2, <2>1 DEF Comes
<1>6. CASE p \notin plan
  <2>1. PICK c \in New(once, always) : p = <<flow, c.is>>
    BY <1>2, <1>6, AddPairs
  <2>2. p = <<flow, r>>
    BY <1>2, <2>1
  <2> QED BY <1>2, <2>2 DEF Comes
<1> QED BY <1>4, <1>5, <1>6

(* What it takes for Add to keep the invariant of the flows.               *)
LEMMA FlowsStep ==
    ASSUME Order, Stored, Frame, FlowsAre, OneFlow, NeedsCome,
           NEW flow, NEW once, NEW always, NEW keys, Add(flow, once, always, keys),
           NEW k \in 1..Taken', asked.ids[k] = flow, 1..Taken \subseteq 1..Taken',
           \A c \in always : Single(c.is) => c.is \notin Planned,
           \A c \in once \cup always : c.is[1] = "tenant" => c.is[2] = flow,
           \A c \in New(once, always) : \A r \in c.needs : Comes(flow, r)'
    PROVE  FlowsAre' /\ OneFlow' /\ NeedsCome'
<1>1. inv' = inv /\ asked' = asked
  BY DEF Frame
<1>2. \A p : p \in plan' <=> p \in plan \/ \E c \in New(once, always) : p = <<flow, c.is>>
  BY AddPairs
<1>3. New(once, always) \subseteq once \cup always
  BY DEF New
<1>4. FlowsAre'
  <2>1. ASSUME NEW p \in plan'
        PROVE  /\ p = <<p[1], p[2]>>
               /\ \E j \in 1..Taken' : asked.ids[j] = p[1]
               /\ p[2][1] = "tenant" => p[1] = p[2][2]
    <3>1. CASE p \in plan
      BY <3>1 DEF FlowsAre
    <3>2. ASSUME NEW c \in New(once, always), p = <<flow, c.is>>
          PROVE  /\ p = <<p[1], p[2]>>
                 /\ \E j \in 1..Taken' : asked.ids[j] = p[1]
                 /\ p[2][1] = "tenant" => p[1] = p[2][2]
      <4>1. p[1] = flow /\ p[2] = c.is
        BY <3>2
      <4>2. c \in once \cup always
        BY <1>3
      <4> QED BY <3>2, <4>1, <4>2
    <3> QED BY <1>2, <3>1, <3>2
  <2> QED BY <1>1, <2>1 DEF FlowsAre
<1>5. OneFlow'
  <2>1. ASSUME NEW c \in New(once, always), Single(c.is) PROVE c.is \notin Planned
    <3>1. CASE c \in always
      BY <2>1, <3>1
    <3>2. CASE c.is \notin store
      BY <3>2 DEF Stored
    <3> QED BY <3>1, <3>2 DEF New
  <2>2. ASSUME NEW p \in plan, NEW c \in New(once, always), p[2] = c.is, Single(p[2]) PROVE FALSE
    <3>1. p[2] \in Planned
      BY DEF Planned
    <3> QED BY <2>1, <2>2, <3>1
  <2>3. ASSUME NEW p \in plan', NEW q \in plan', p[2] = q[2], Single(p[2]) PROVE p[1] = q[1]
    <3>1. CASE p \in plan /\ q \in plan
      BY <2>3, <3>1 DEF OneFlow
    <3>2. CASE p \in plan /\ \E c \in New(once, always) : q = <<flow, c.is>>
      BY <2>2, <2>3, <3>2
    <3>3. CASE q \in plan /\ \E c \in New(once, always) : p = <<flow, c.is>>
      BY <2>2, <2>3, <3>3
    <3>4. CASE /\ \E c \in New(once, always) : p = <<flow, c.is>>
               /\ \E c \in New(once, always) : q = <<flow, c.is>>
      BY <3>4
    <3> QED BY <1>2, <3>1, <3>2, <3>3, <3>4
  <2>4. \A r : Single(r)' <=> Single(r)
    BY <1>1 DEF Single
  <2> QED BY <2>3, <2>4 DEF OneFlow
<1>6. NeedsCome'
  <2>1. plan \subseteq plan'
    BY <1>2
  <2>2. ASSUME NEW n \in needs' PROVE Comes(n[1], n[2])'
    <3>1. CASE n \in needs
      <4>1. PICK f, r : f = n[1] /\ r = n[2]
        OBVIOUS
      <4>2. Comes(f, r)'
        BY <2>1, <3>1, <4>1, ComesStays DEF NeedsCome
      <4> QED BY <4>1, <4>2
    <3>2. ASSUME NEW c \in New(once, always), NEW r \in c.needs, n = <<flow, r>>
          PROVE  Comes(n[1], n[2])'
      <4>1. n[1] = flow /\ n[2] = r
        BY <3>2
      <4> QED BY <4>1
    <3> QED BY <3>1, <3>2, AddPairs
  <2> QED BY <2>2 DEF NeedsCome
<1> QED BY <1>4, <1>5, <1>6

(* The owner of an image, as it is looked for, is no user.                 *)
LEMMA OwnersAreNoUsers ==
    ASSUME Order, NEW i \in Images
    PROVE  ImageOwner(i)[1] = "user" /\ ImageOwner(i)[2] \notin Users
<1>1. inv.ownerOf[i] \in Tenants
  BY InventoryIs DEF Inventory
<1> QED BY <1>1, PlanAssumption DEF ImageOwner, public

(* The step of a server keeps the invariant of the flows: when its tenant  *)
(* was given before, nothing new is required, and else all that it         *)
(* requires comes from its own flow or one before.                         *)
LEMMA FlowsOfServer ==
    ASSUME PlanInv, PlanInv', CircleInv, Frame, NEW s \in servers, MigrateServer(s)
    PROVE  CircleInv'
<1> DEFINE u == inv.userOf[s]
           keys == UNION {ImageKeys(i) : i \in NewImage(s)}
<1>0. /\ Order /\ Stored /\ PlannedServers /\ PlannedImages
      /\ FlowsAre /\ OneFlow /\ NeedsCome /\ Settled
  BY DEF PlanInv, CircleInv
<1>. PICK t : t = inv.tenantOf[s]
  OBVIOUS
<1>1. Add(t, SharedChains(s), OwnChains(s), keys)
  BY DEF MigrateServer
<1>2. /\ inv' = inv /\ asked' = asked /\ Taken' = Taken /\ asked.class = "resources"
      /\ Taken \in Nat /\ Taken > 0 /\ Taken <= Len(asked.ids) /\ asked.ids[Taken] = t
      /\ asked.ids \in Seq(Given)
  BY <1>0 DEF MigrateServer, Taken, Order, Frame
<1>3. s \in Servers /\ u \in Users /\ inv.imageOf[s] \in Images
      /\ \A i \in Images : inv.kernelOf[i] # inv.imageOf[s]
  <2>1. s \in Servers /\ Inventory(inv)
    BY <1>0, InventoryIs DEF Order
  <2> QED BY <1>0, <2>1, ServerFacts DEF Inventory
<1>4. /\ Planned \subseteq Planned' /\ Needed \subseteq Needed'
      /\ \A c \in SharedChains(s) \cup OwnChains(s) : c.is \in Planned'
  BY <1>0, ServerPlans
<1>5. /\ \A p : p \in plan' <=> p \in plan \/ \E c \in New(SharedChains(s), OwnChains(s)) : p = <<t, c.is>>
      /\ \A n : n \in needs' <=> n \in needs \/ \E c \in New(SharedChains(s), OwnChains(s)) :
                                                    \E r \in c.needs : n = <<t, r>>
  BY <1>1, AddPairs
<1> HIDE DEF keys
<1>6. \A i \in NewImage(s) : ImageChains(i) \subseteq New(SharedChains(s), OwnChains(s))
  BY DEF OwnChains, New
<1>7. ASSUME NEW c \in OwnChains(s), Single(c.is) PROVE c.is \notin Planned
  <2>1. CASE c = ServerChain(s)
    BY <1>7, <2>1 DEF ServerChain, Chain, Single
  <2>2. ASSUME NEW i \in NewImage(s), c \in ImageChains(i) PROVE c.is \notin Planned
    <3>1. i = inv.imageOf[s] /\ <<"image", i>> \notin store
      BY DEF NewImage
    <3>2. \E l \in Images : l \in {i, inv.kernelOf[i]} /\ c.is = <<"image", l>>
      BY <1>0, <1>3, <2>2, <3>1, ImageChainsAre
    <3>3. c.is # <<"image", inv.kernelOf[i]>>
      <4>1. c.is[1] = "image" /\ \A l : c.is = <<"image", l>> => c.is[2] = l
        BY <3>2
      <4> QED BY <1>3, <1>7, <3>1, <4>1 DEF Single
    <3>4. c.is = <<"image", i>>
      BY <3>2, <3>3
    <3> QED BY <1>0, <3>1, <3>4 DEF Stored
  <2> QED BY <2>1, <2>2, OwnIs
<1>8. ASSUME NEW c \in SharedChains(s) \cup OwnChains(s), c.is[1] = "tenant" PROVE c.is[2] = t
  <2> USE DEF Chain
  <2>1. CASE c = TenantChain(t)
    BY <2>1 DEF TenantChain
  <2>2. CASE c = UserChain(u)
    BY <1>8, <2>2 DEF UserChain
  <2>3. CASE \E g \in GrantsOf(u, t) : c = RoleChain(g[2])
    BY <1>8, <2>3 DEF RoleChain
  <2>4. CASE \E g \in Visible(GrantsOf(u, t)) : c = MembershipChain(g)
    BY <1>8, <2>4 DEF MembershipChain
  <2>5. CASE \E p \in Addresses(s, "fixed") : c = NicChain(p[1], p[2])
    BY <1>8, <2>5 DEF NicChain
  <2>6. CASE \E p \in Addresses(s, "fixed") : c \in NetworkChains(p[1], t)
    BY <1>8, <2>6 DEF NetworkChains
  <2>7. CASE \E p \in Addresses(s, "floating") : c = FloatingIpChain(p[2])
    BY <1>8, <2>7 DEF FloatingIpChain
  <2>8. CASE \E g \in inv.groupsOf[s] : c = SecGroupChain(s, g)
    BY <1>8, <2>8 DEF SecGroupChain
  <2>9. CASE c = FlavorChain(inv.flavorOf[s])
    BY <1>8, <2>9 DEF FlavorChain
  <2>10. CASE c = ServerChain(s)
    BY <1>8, <2>10 DEF ServerChain
  <2>11. CASE \E i \in NewImage(s) : c \in ImageChains(i)
    BY <1>8, <2>11 DEF ImageChains
  <2> HIDE DEF Chain
  <2> QED BY <2>1, <2>2, <2>3, <2>4, <2>5, <2>6, <2>7, <2>8, <2>9, <2>10, <2>11, SharedIs, OwnIs
<1>9. ASSUME NEW c \in New(SharedChains(s), OwnChains(s)), NEW r \in c.needs
      PROVE  Comes(t, r)'
  <2>1. c \in SharedChains(s) \cup OwnChains(s)
    BY DEF New
  <2>2. CASE \E j \in 1..(Taken - 1) : asked.ids[j] = t
    <3>1. Passed(s) # {}
      BY <1>2, <2>2 DEF Passed
    <3>2. <<"server", s>> \in Planned
      BY <1>0, <1>2, <1>3, <3>1 DEF PlannedServers
    <3>3. \A d \in SharedChains(s) : d.is \in store
      BY <1>0, <1>3, <3>2 DEF Settled, Stored
    <3>4. NewImage(s) = {}
      <4>1. ASSUME asked.disk = "image" PROVE <<"image", inv.imageOf[s]>> \in store
        <5>1. inv.imageOf[s] \in Bases
          BY <1>3, <3>2, <4>1 DEF Bases
        <5> QED BY <1>0, <1>3, <5>1 DEF PlannedImages, Stored
      <4> QED BY <4>1 DEF NewImage
    <3>5. c = ServerChain(s)
      BY <2>1, <3>3, <3>4, OwnIs DEF New
    <3>6. <<t, r>> \in needs
      BY <1>0, <1>3, <3>2, <3>5 DEF Settled
    <3>7. <<t, r>>[1] = t /\ <<t, r>>[2] = r
      OBVIOUS
    <3>8. Comes(t, r)
      BY <1>0, <3>6, <3>7 DEF NeedsCome
    <3>9. plan \subseteq plan'
      BY <1>5
    <3> QED BY <3>8, <3>9, ComesStays
  <2>3. CASE \A j \in 1..(Taken - 1) : asked.ids[j] # t
    <3>1. CASE r \in Planned' /\ r[1] # "server" /\ (r[1] = "image" => r[2] = inv.imageOf[s])
      <4>1. Single(r)
        BY <1>3, <3>1 DEF Single
      <4>2. Taken \in DOMAIN asked.ids /\ Taken <= Taken
        BY <1>2
      <4> QED BY <1>0, <1>1, <1>2, <2>3, <3>1, <4>1, <4>2, ComesFirst
    <3>2. CASE c = UserChain(u) /\ r = <<"tenant", inv.defaultTenant[u]>>
      <4>1. c.is = <<"user", u>>
        BY <3>2 DEF UserChain, Chain
      <4>2. <<t, <<"user", u>>>> \in plan'
        BY <1>5, <4>1
      <4> QED BY <1>2, <1>3, <3>2, <4>2 DEF Comes
    <3>3. ASSUME NEW i \in NewImage(s), NEW d \in ImageChains(i), r = d.is PROVE Comes(t, r)'
      <4>1. <<t, r>> \in plan'
        BY <1>5, <1>6, <3>3
      <4> QED BY <1>2, <4>1 DEF Comes
    <3>4. ASSUME NEW i \in NewImage(s), r = ImageOwner(i) PROVE Comes(t, r)'
      <4>1. i \in Images
        BY <1>3 DEF NewImage
      <4> QED BY <1>0, <1>2, <3>4, <4>1, OwnersAreNoUsers DEF Comes
    <3> QED BY <1>0, <2>1, <3>1, <3>2, <3>3, <3>4, ServerNeeds
  <2> QED BY <2>2, <2>3
<1>10. FlowsAre' /\ OneFlow' /\ NeedsCome'
  <2>1. Taken \in 1..Taken' /\ 1..Taken \subseteq 1..Taken'
    BY <1>2
  <2> QED BY <1>0, <1>1, <1>2, <1>7, <1>8, <1>9, <2>1, FlowsStep
<1>11. Settled'
  <2>1. \A x : SharedChains(x)' = SharedChains(x) /\ ServerChain(x)' = ServerChain(x)
    BY ChainsStay
  <2>2. ASSUME NEW x \in Servers, <<"server", x>> \in Planned'
        PROVE  /\ \A c \in SharedChains(x) : c.is \in Planned'
               /\ \A r \in ServerChain(x).needs : <<inv.tenantOf[x], r>> \in needs'
    <3>1. CASE <<"server", x>> \in Planned
      BY <1>0, <1>4, <1>5, <3>1 DEF Settled
    <3>2. CASE x = s
      <4>1. ServerChain(s) \in New(SharedChains(s), OwnChains(s))
        BY DEF New, OwnChains
      <4> QED BY <1>4, <1>5, <3>2, <4>1
    <3> QED BY <1>0, <2>2, <3>1, <3>2, ServersOfServer
  <2> QED BY <1>2, <2>1, <2>2 DEF Settled
<1> QED BY <1>10, <1>11 DEF CircleInv

(* So does that of an identity.                                            *)
LEMMA FlowsOfIdentity ==
    ASSUME PlanInv, PlanInv', CircleInv, Frame, MigrateIdentity
    PROVE  CircleInv'
<1>. PICK t : t = Head(queue)
  OBVIOUS
<1>0. /\ Order /\ Stored /\ Identities /\ PlannedServers'
      /\ FlowsAre /\ OneFlow /\ NeedsCome /\ Settled
  BY DEF PlanInv, CircleInv
<1>1. /\ Add(t, IdentityChains(t), {}, {})
      /\ asked.class = "identity" /\ asked' = asked /\ inv' = inv
      /\ Taken' = Taken + 1 /\ Taken \in Nat /\ Taken' \in 1..Len(asked.ids)
      /\ t = asked.ids[Taken']
      /\ \A u \in ListedUsers(t) : u \in Users /\ u \notin {"public", "none"}
  BY <1>0, IdentityIs
<1>2. /\ \A p : p \in plan' <=> p \in plan \/ \E c \in New(IdentityChains(t), {}) : p = <<t, c.is>>
      /\ New(IdentityChains(t), {}) = {c \in IdentityChains(t) : c.is \notin store}
  BY <1>1, AddPairs DEF New
<1>3. ASSUME NEW c \in IdentityChains(t) \cup {}, c.is[1] = "tenant" PROVE c.is[2] = t
  <2> USE DEF Chain
  <2>1. CASE c = TenantChain(t)
    BY <2>1 DEF TenantChain
  <2>2. CASE \E u \in NewUsers(t) : c = UserChain(u)
    BY <1>3, <2>2 DEF UserChain
  <2>3. CASE \E g \in Granted(t) : c = MembershipChain(g)
    BY <1>3, <2>3 DEF MembershipChain
  <2>4. CASE \E g \in Granted(t) : c = RoleChain(g[2])
    BY <1>3, <2>4 DEF RoleChain
  <2> HIDE DEF Chain
  <2> QED BY <2>1, <2>2, <2>3, <2>4 DEF IdentityChains
<1>4. ASSUME NEW c \in New(IdentityChains(t), {}), NEW r \in c.needs PROVE Comes(t, r)'
  <2>1. NewUsers(t) # {}
    BY <1>0, <1>2, IdentityNeeds
  <2>2. ASSUME NEW j \in 1..(Taken' - 1), asked.ids[j] = t PROVE FALSE
    <3>1. j \in 1..Taken
      BY <1>1
    <3>2. \A u \in ListedUsers(t) \ {AuthUser} : <<"user", u>> \in store
      BY <1>0, <1>1, <2>2, <3>1 DEF Identities, Stored
    <3> QED BY <2>1, <3>2 DEF NewUsers
  <2>3. CASE r \in Planned' /\ r[1] \notin {"server", "image"}
    <3>1. Single(r)
      BY <2>3 DEF Single
    <3>2. asked.ids \in Seq(Given)
      BY <1>0 DEF Order
    <3>3. Taken' \in DOMAIN asked.ids /\ Taken <= Taken'
      BY <1>1, <3>2
    <3>4. \E k \in DOMAIN asked.ids : asked.ids[k] = t /\ Taken <= k /\ \A j \in 1..(k - 1) : asked.ids[j] # t
      BY <1>1, <2>2, <3>3
    <3> QED BY <1>0, <1>1, <2>3, <3>1, <3>4, ComesFirst
  <2>4. ASSUME NEW u \in NewUsers(t), c = UserChain(u), r = <<"tenant", inv.defaultTenant[u]>>
        PROVE  Comes(t, r)'
    <3>1. c.is = <<"user", u>> /\ u \in Users
      BY <1>1, <2>4 DEF UserChain, Chain, NewUsers
    <3>2. <<t, <<"user", u>>>> \in plan'
      BY <1>2, <3>1
    <3> QED BY <1>1, <2>4, <3>1, <3>2 DEF Comes
  <2>5. c \in IdentityChains(t)
    BY <1>2
  <2> QED BY <1>0, <2>3, <2>4, <2>5, IdentityNeeds
<1>5. FlowsAre' /\ OneFlow' /\ NeedsCome'
  <2>1. Taken' \in 1..Taken' /\ 1..Taken \subseteq 1..Taken'
    BY <1>1
  <2>2. \E k \in 1..Taken' : asked.ids[k] = t
    BY <1>1, <2>1
  <2> QED BY <1>0, <1>1, <1>3, <1>4, <2>1, <2>2, FlowsStep
<1>6. Settled'
  <2>1. \A s \in Servers : <<"server", s>> \notin Planned'
    BY <1>0, <1>1, NoServersNext
  <2> QED BY <2>1 DEF Settled
<1> QED BY <1>5, <1>6 DEF CircleInv

(* An image waits for no flow: its kernel comes with it, and its owner is  *)
(* no user.                                                                *)
LEMMA FlowsOfImage ==
    ASSUME PlanInv, PlanInv', CircleInv, Frame, MigrateImage
    PROVE  CircleInv'
<1>. PICK i : i = Head(queue)
  OBVIOUS
<1>0. /\ Order /\ Stored /\ PlannedServers /\ PlannedServers' /\ PlannedImages
      /\ FlowsAre /\ OneFlow /\ NeedsCome /\ Settled
  BY DEF PlanInv, CircleInv
<1>1. /\ Add(i, {}, ImageChains(i), ImageKeys(i)) /\ TakeNext("images")
  BY DEF MigrateImage
<1>2. /\ asked.class = "images" /\ asked' = asked /\ inv' = inv
      /\ Taken' = Taken + 1 /\ Taken' \in 1..Len(asked.ids)
      /\ i = asked.ids[Taken'] /\ i \in Given
  BY <1>0, <1>1, Take
<1>3. i \in Images /\ Taken \in Nat
  BY <1>0, <1>2 DEF Given, IdsOf, Order
<1>4. /\ \A r : (\E c \in ImageChains(i) : r = c.is) <=>
                    \E l \in Images : l \in {i, inv.kernelOf[i]} /\ r = <<"image", l>>
      /\ \A c \in ImageChains(i) : \A n \in c.needs :
             n = ImageOwner(i) \/ \E d \in ImageChains(i) : n = d.is
  BY <1>0, <1>3, ImageChainsAre
<1>5. New({}, ImageChains(i)) = ImageChains(i)
  BY DEF New
<1>6. \A p : p \in plan' <=> p \in plan \/ \E c \in ImageChains(i) : p = <<i, c.is>>
  BY <1>1, <1>5, AddPairs
<1>7. ASSUME NEW c \in ImageChains(i), Single(c.is) PROVE c.is \notin Planned
  <2>1. PICK l \in Images : l \in {i, inv.kernelOf[i]} /\ c.is = <<"image", l>>
    BY <1>4
  <2>2. c.is[1] = "image" /\ c.is[2] = l
    BY <2>1
  <2>3. l = i /\ \A j \in Images : inv.kernelOf[j] # i
    BY <1>3, <1>7, <2>1, <2>2 DEF Single
  <2>4. i \notin Bases
    <3>1. \A b : b \in Bases <=> \E k \in 1..Taken : b = asked.ids[k]
      BY <1>0, <1>2, NoServers
    <3>2. ASSUME NEW k \in 1..Taken PROVE asked.ids[k] # i
      <4>1. IsInjective(asked.ids) /\ asked.ids \in Seq(Given)
        BY <1>0, <1>2 DEF Order, Listed
      <4>2. DOMAIN asked.ids = 1..Len(asked.ids) /\ Len(asked.ids) \in Nat
        BY <4>1
      <4>3. k \in DOMAIN asked.ids /\ Taken' \in DOMAIN asked.ids /\ k # Taken'
        BY <1>2, <1>3, <4>2
      <4> QED BY <1>2, <4>1, <4>3 DEF IsInjective
    <3> QED BY <3>1, <3>2
  <2>5. \A b \in Bases : b \in Images
    <3>1. \A b : b \in Bases <=> \E k \in 1..Taken : b = asked.ids[k]
      BY <1>0, <1>2, NoServers
    <3>2. asked.ids \in Seq(Images)
      BY <1>0, <1>2 DEF Order, Given, IdsOf
    <3> QED BY <1>2, <1>3, <3>1, <3>2
  <2> QED BY <1>0, <1>3, <2>1, <2>3, <2>4, <2>5 DEF PlannedImages
<1>8. ASSUME NEW c \in {} \cup ImageChains(i) PROVE c.is[1] # "tenant"
  BY <1>4
<1>9. ASSUME NEW c \in New({}, ImageChains(i)), NEW r \in c.needs PROVE Comes(i, r)'
  <2>1. CASE r = ImageOwner(i)
    BY <1>0, <1>2, <1>3, <2>1, OwnersAreNoUsers DEF Comes
  <2>2. CASE \E d \in ImageChains(i) : r = d.is
    BY <1>6, <2>2 DEF Comes
  <2> QED BY <1>4, <1>5, <2>1, <2>2
<1>10. FlowsAre' /\ OneFlow' /\ NeedsCome'
  <2>1. Taken' \in 1..Taken' /\ 1..Taken \subseteq 1..Taken'
    BY <1>2, <1>3
  <2>2. \E k \in 1..Taken' : asked.ids[k] = i
    BY <1>2, <2>1
  <2> QED BY <1>0, <1>1, <1>7, <1>8, <1>9, <2>1, <2>2, FlowsStep
<1>11. Settled'
  <2>1. \A s \in Servers : <<"server", s>> \notin Planned'
    BY <1>0, <1>2, NoServersNext
  <2> QED BY <2>1 DEF Settled
<1> QED BY <1>10, <1>11 DEF CircleInv

(* A volume waits for no flow, and no other flow for it.                   *)
LEMMA FlowsOfVolume ==
    ASSUME PlanInv, PlanInv', CircleInv, Frame, MigrateVolume
    PROVE  CircleInv'
<1>. PICK v : v = Head(queue)
  OBVIOUS
<1>0. /\ Order /\ Stored /\ PlannedVolumes /\ PlannedServers'
      /\ FlowsAre /\ OneFlow /\ NeedsCome
  BY DEF PlanInv, CircleInv
<1>1. /\ Add(v, {}, {VolumeChain(v)}, {nobody}) /\ New({}, {VolumeChain(v)}) = {VolumeChain(v)}
      /\ VolumeChain(v).is = <<"volume", v>> /\ VolumeChain(v).needs = {nobody}
      /\ asked.class = "volumes" /\ asked' = asked /\ inv' = inv
      /\ Taken' = Taken + 1 /\ Taken' \in 1..Len(asked.ids) /\ Taken \in Nat
      /\ v = asked.ids[Taken']
      /\ \A k \in 1..Taken : asked.ids[k] # v
  BY <1>0, VolumeAdds
<1>2. <<"volume", v>> \notin Planned
  BY <1>0, <1>1 DEF PlannedVolumes
<1>3. Comes(v, nobody)'
  <2>1. nobody[1] = "user" /\ nobody[2] \notin Users
    BY PlanAssumption DEF nobody
  <2> QED BY <2>1 DEF Comes
<1>4. Taken' \in 1..Taken' /\ 1..Taken \subseteq 1..Taken'
  BY <1>1
<1>5. FlowsAre' /\ OneFlow' /\ NeedsCome'
  <2> DEFINE always == {VolumeChain(v)}
  <2>1. \A c \in always : c.is = <<"volume", v>> /\ c.needs = {nobody}
    BY <1>1
  <2>2. \A c \in always : Single(c.is) => c.is \notin Planned
    BY <1>2, <2>1
  <2>3. \A c \in {} \cup always : c.is[1] = "tenant" => c.is[2] = v
    BY <2>1
  <2>4. \A c \in New({}, always) : \A r \in c.needs : Comes(v, r)'
    BY <1>1, <1>3
  <2>5. Add(v, {}, always, {nobody}) /\ Taken' \in 1..Taken' /\ asked.ids[Taken'] = v
    BY <1>1, <1>4
  <2> HIDE DEF always
  <2> QED BY <1>0, <1>4, <2>2, <2>3, <2>4, <2>5, FlowsStep
<1>6. Settled'
  <2>1. \A s \in Servers : <<"server", s>> \notin Planned'
    BY <1>0, <1>1 DEF PlannedServers
  <2> QED BY <2>1 DEF Settled
<1> QED BY <1>5, <1>6 DEF CircleInv

(* The invariant of the flows only depends on the plan, and on how many    *)
(* ids have been taken from below.                                         *)
LEMMA FlowsStay ==
    ASSUME Order, CircleInv, Frame, plan' = plan, needs' = needs, 1..Taken \subseteq 1..Taken'
    PROVE  CircleInv'
<1>1. inv' = inv /\ asked' = asked /\ Planned' = Planned
  BY DEF Frame, Planned
<1>2. FlowsAre'
  BY <1>1 DEF CircleInv, FlowsAre
<1>3. OneFlow'
  BY <1>1 DEF CircleInv, OneFlow, Single
<1>4. NeedsCome'
  <2>1. \A f, r : Before(f, r)' <=> Before(f, r)
    BY <1>1 DEF Before
  <2>2. \A r : Single(r)' <=> Single(r)
    BY <1>1 DEF Single
  <2>3. \A f, r : Comes(f, r)' <=> Comes(f, r)
    BY <1>1, <2>1, <2>2 DEF Comes
  <2> QED BY <2>3 DEF CircleInv, NeedsCome
<1>5. Settled'
  BY <1>1, ChainsStay DEF CircleInv, Settled
<1> QED BY <1>2, <1>3, <1>4, <1>5 DEF CircleInv

(* Every step of the planning keeps the invariant of the flows.            *)
LEMMA FlowsNext ==
    ASSUME PlanInv, CircleInv, Next
    PROVE  CircleInv'
<1>1. PlanInv' /\ Frame /\ Order /\ Order'
  BY PlanStep, OrderStep DEF PlanInv
<1>2. CASE MigrateResources
  <2>1. Taken' = Taken + 1 /\ Taken \in Nat
    BY <1>1, <1>2, Take DEF MigrateResources, Order
  <2>2. 1..Taken \subseteq 1..Taken'
    BY <2>1
  <2> QED BY <1>1, <1>2, <2>2, FlowsStay DEF MigrateResources
<1>3. ASSUME NEW s \in servers, MigrateServer(s) PROVE CircleInv'
  BY <1>1, <1>3, FlowsOfServer
<1> QED BY <1>1, <1>2, <1>3, FlowsOfIdentity, FlowsOfImage, FlowsOfVolume DEF Next

(* An empty plan has it.                                                   *)
LEMMA BlankFlows == Blank => CircleInv
BY DEF Blank, CircleInv, FlowsAre, OneFlow, NeedsCome, Settled, Planned

(* The same, after a step.                                                 *)
LEMMA BlankFlowsNext == Blank' => CircleInv'
  BY BlankFlows, PTL

(* The first id of those whose flows wait in a circle waits for a later    *)
(* one, for the default tenant of a user of its own.                       *)
LEMMA CircleIs ==
    ASSUME Order, PlannedUsers, CircleInv
    PROVE  CircleOnlyByDefaultTenant
<1> SUFFICES ASSUME Circle
             PROVE  \E i, j \in DOMAIN asked.ids : i < j /\
                        \E u \in Users : /\ <<asked.ids[i], <<"user", u>>>> \in plan
                                         /\ inv.defaultTenant[u] = asked.ids[j]
  BY DEF CircleOnlyByDefaultTenant
<1>0. FlowsAre /\ OneFlow /\ NeedsCome
  BY DEF CircleInv
<1>1. PICK S \in SUBSET {p[1] : p \in plan} :
          S # {} /\ \A f \in S : \E g \in S : Waits(f, g)
  BY DEF Circle
<1> DEFINE places == {k \in DOMAIN asked.ids : asked.ids[k] \in S}
<1>2. DOMAIN asked.ids = 1..Len(asked.ids) /\ Len(asked.ids) \in Nat /\ Taken \in 0..Len(asked.ids)
  <2>1. asked.ids \in Seq(Given)
    BY DEF Order
  <2> QED BY <2>1 DEF Order
<1>3. ASSUME NEW f \in S PROVE \E k \in places : asked.ids[k] = f
  <2>1. PICK p \in plan : f = p[1]
    BY <1>1
  <2>2. PICK k \in 1..Taken : asked.ids[k] = f
    BY <1>0, <2>1 DEF FlowsAre
  <2> QED BY <1>2, <2>2
<1>4. PICK k \in places : \A j \in places : k <= j
  <2>1. places # {} /\ places \in SUBSET Nat
    BY <1>1, <1>2, <1>3
  <2> HIDE DEF places
  <2>2. PICK k \in places : \A j \in places : ~(<<j, k>> \in OpToRel(<, Nat))
    BY <2>1, NatLessThanWellFounded, WFMin
  <2>3. \A j \in places : ~(j < k)
    BY <2>1, <2>2 DEF OpToRel
  <2> QED BY <2>1, <2>3
<1> DEFINE f == asked.ids[k]
<1>5. PICK g \in S : Waits(f, g)
  BY <1>1, <1>4
<1>6. PICK r \in Planned : <<f, r>> \in needs /\ <<f, r>> \notin plan /\ <<g, r>> \in plan /\ f # g
  BY <1>5 DEF Waits
<1>7. PICK j \in places : asked.ids[j] = g
  BY <1>3
<1> HIDE DEF places
<1>8. k < j /\ k \in DOMAIN asked.ids /\ j \in DOMAIN asked.ids
  <2>1. k <= j /\ k # j
    BY <1>4, <1>6, <1>7
  <2> QED BY <1>2, <2>1 DEF places
<1>9. Comes(f, r)
  <2>1. <<f, r>>[1] = f /\ <<f, r>>[2] = r
    OBVIOUS
  <2> QED BY <1>0, <1>6, <2>1 DEF NeedsCome
<1>10. <<g, r>>[1] = g /\ <<g, r>>[2] = r
  OBVIOUS
<1>11. ASSUME NEW u \in Users, r = <<"tenant", inv.defaultTenant[u]>>, <<f, <<"user", u>>>> \in plan
       PROVE  inv.defaultTenant[u] = asked.ids[j]
  <2>1. r[1] = "tenant" /\ r[2] = inv.defaultTenant[u]
    BY <1>11
  <2> QED BY <1>0, <1>6, <1>7, <1>10, <2>1 DEF FlowsAre
<1>12. ~(r[1] = "user" /\ r[2] \notin Users)
  BY <1>6 DEF PlannedUsers
<1>13. ASSUME Single(r), NEW p \in plan, p[2] = r, Before(p[1], f) PROVE FALSE
  <2>1. p[1] = g
    BY <1>0, <1>6, <1>10, <1>13 DEF OneFlow
  <2>2. PICK h \in DOMAIN asked.ids : asked.ids[h] = g /\ h < k
    BY <1>8, <1>13, <2>1 DEF Before
  <2>3. h \in places
    BY <2>2 DEF places
  <2> QED BY <1>2, <1>4, <1>8, <2>2, <2>3
<1> QED BY <1>6, <1>8, <1>9, <1>11, <1>12, <1>13 DEF Comes

(* What the invariant says of a plan that is complete.                     *)
LEMMA AllTaken ==
    ASSUME Order, Done
    PROVE  /\ Taken = Len(asked.ids) /\ servers = {} /\ Taken \in Nat
           /\ DOMAIN asked.ids = 1..Taken /\ asked.ids \in Seq(Given)
           /\ \A s : Passed(s) = {k \in 1..Taken : asked.ids[k] = inv.tenantOf[s]}
           /\ Range(asked.ids) = {asked.ids[k] : k \in 1..Taken}
<1>1. asked.ids \in Seq(Given) /\ queue = <<>> /\ servers = {}
  BY DEF Order, Done
<1>2. Len(asked.ids) \in Nat /\ Taken = Len(asked.ids) /\ DOMAIN asked.ids = 1..Len(asked.ids)
  BY <1>1 DEF Taken
<1>3. \A s : Passed(s) = {k \in 1..Taken : asked.ids[k] = inv.tenantOf[s]}
  BY <1>1 DEF Passed
<1>4. Range(asked.ids) = {asked.ids[k] : k \in 1..Taken}
  BY <1>2 DEF Range
<1> QED BY <1>1, <1>2, <1>3, <1>4

(* In a complete plan the invariant leaves the known gaps and duplicates.  *)
LEMMA CompletePlan == PlanInv => OnlyKnownFlaws
<1> SUFFICES ASSUME PlanInv, Done PROVE Missing = KnownGaps /\ twice = KnownDuplicates
  BY DEF OnlyKnownFlaws
<1>0. /\ Order /\ Stored /\ PlannedServers /\ PlannedUsers /\ PlannedImages /\ Supplied
      /\ OwnersNeeded /\ TwiceAre
  BY DEF PlanInv
<1>1. /\ Taken = Len(asked.ids) /\ servers = {} /\ Taken \in Nat
      /\ DOMAIN asked.ids = 1..Taken /\ asked.ids \in Seq(Given)
      /\ \A s : Passed(s) = {k \in 1..Taken : asked.ids[k] = inv.tenantOf[s]}
      /\ Range(asked.ids) = {asked.ids[k] : k \in 1..Taken}
  BY <1>0, AllTaken
<1>2. BaseImages = Bases
  BY <1>1 DEF BaseImages, Bases
<1>3. ASSUME NEW b \in Bases PROVE b \in Images
  <2>1. CASE asked.class = "images" /\ b \in {asked.ids[k] : k \in 1..Taken}
    <3>1. asked.ids \in Seq(Images)
      BY <1>1, <2>1 DEF Given, IdsOf
    <3> QED BY <1>1, <2>1, <3>1
  <2>2. CASE \E s \in Servers : b = inv.imageOf[s]
    BY <1>0, <2>2, InventoryIs DEF Inventory
  <2> QED BY <1>3, <2>1, <2>2 DEF Bases
<1>4. ASSUME NEW r \in Missing PROVE r \in KnownGaps
  <2>1. r \in Needed /\ r \notin Planned /\ ~(r \in Placeholders /\ r \in store)
    BY <1>4 DEF Missing, Needed
  <2>2. Gap(r)
    BY <1>0, <2>1 DEF Supplied
  <2> QED BY <1>2, <2>1, <2>2 DEF Gap, KnownGaps
<1>5. ASSUME NEW r \in KnownGaps PROVE r \in Missing
  <2>1. CASE \E u \in Users : /\ <<"user", u>> \in Planned /\ inv.defaultTenant[u] # None
                              /\ r = <<"tenant", inv.defaultTenant[u]>> /\ r \notin Planned
    <3>1. PICK u \in Users : /\ <<"user", u>> \in Planned /\ inv.defaultTenant[u] # None
                             /\ r = <<"tenant", inv.defaultTenant[u]>> /\ r \notin Planned
      BY <2>1
    <3>2. <<"user", u>>[1] = "user" /\ <<"user", u>>[2] = u
      OBVIOUS
    <3>3. r \in Needed
      BY <1>0, <3>1, <3>2 DEF PlannedUsers
    <3>4. r \notin Placeholders
      BY <3>1 DEF Placeholders, public, nobody
    <3> QED BY <3>1, <3>3, <3>4 DEF Missing, Needed
  <2>2. CASE \E i \in BaseImages \cap inv.private : r = <<"user", inv.ownerOf[i]>>
    <3>1. PICK i \in Bases \cap inv.private : r = <<"user", inv.ownerOf[i]>>
      BY <1>2, <2>2
    <3>2. inv.ownerOf[i] \in Tenants
      BY <1>0, <1>3, <3>1, InventoryIs DEF Inventory
    <3>3. r \in Needed
      BY <1>0, <3>1 DEF OwnersNeeded, ImageOwner
    <3>4. r \notin Placeholders
      BY <3>1, <3>2, PlanAssumption DEF Placeholders, public, nobody
    <3>5. r \notin Planned
      <4>1. r[1] = "user" /\ r[2] = inv.ownerOf[i]
        BY <3>1
      <4>2. inv.ownerOf[i] \notin Users
        BY <3>2, PlanAssumption
      <4> QED BY <1>0, <4>1, <4>2 DEF PlannedUsers
    <3> QED BY <3>3, <3>4, <3>5 DEF Missing, Needed
  <2> QED BY <1>5, <2>1, <2>2 DEF KnownGaps
<1>6. twice = KnownDuplicates
  <2>1. \A s : DupServer(s) <=>
            /\ asked.class = "resources"
            /\ \E i, j \in DOMAIN asked.ids :
                   i # j /\ asked.ids[i] = inv.tenantOf[s] /\ asked.ids[j] = inv.tenantOf[s]
    <3> TAKE s
    <3>1. \A k : k \in Passed(s) <=> k \in DOMAIN asked.ids /\ asked.ids[k] = inv.tenantOf[s]
      BY <1>1
    <3> QED BY <3>1 DEF DupServer
  <2>2. Duplicates = KnownDuplicates
    BY <1>2, <2>1 DEF Duplicates, KnownDuplicates, DupImage
  <2> QED BY <1>0, <2>2 DEF TwiceAre
<1> QED BY <1>4, <1>5, <1>6

(* A complete plan of identities has the assignments of all tenants.       *)
LEMMA CompleteIdentity == PlanInv => AssignmentsKept
<1> SUFFICES ASSUME PlanInv, Done, asked.class = "identity", NEW i \in DOMAIN asked.ids
             PROVE  \A g \in {h \in Visible(inv.grants) : h[3] = asked.ids[i]} :
                        \/ <<"user_role", g>> \in Planned
                        \/ g[1] = AuthUser
                        \/ \E j \in 1..(i - 1) : g[1] \in ListedUsers(asked.ids[j])
  BY DEF AssignmentsKept
<1>1. i \in 1..Taken
  BY AllTaken DEF PlanInv
<1> QED BY <1>1 DEF PlanInv, Identities

-----------------------------------------------------------------------------
(* The command.                                                            *)

Phases == {"parse", "connect", "maintain", "select", "plan", "planned", "over"}

(* What main knows in each phase.                                          *)
Main ==
    /\ cmd \in Commands
    /\ phase \in Phases
    /\ phase \in {"parse", "connect", "maintain", "select"} => Blank /\ asked.ids = <<>>
    /\ phase # "over" => exit = None /\ done = {}
    /\ phase = "maintain" => ~Migrates
    /\ phase \in {"select", "plan"} => Migrates
    /\ Migrates /\ phase \in {"connect", "select", "plan", "planned"} => cmd.class \in Classes
    /\ Migrates /\ phase \in {"plan", "planned"} =>
           asked.class = cmd.class /\ asked.ids \in Selected /\ cmd.filter # <<"ids", <<>>>>
    /\ phase = "planned" => Done

CommandInv == PlanInv /\ Main /\ AskedForIsDone

(* The ids of the command line, which may be none, are sequences.          *)
LEMMA SomeIdsAreSequences ==
    ASSUME NEW S, NEW q \in UNION {[1..n -> S] : n \in 0..MaxIds}
    PROVE  q \in Seq(S)
<1>1. PICK n \in 0..MaxIds : q \in [1..n -> S]
  OBVIOUS
<1>2. n \in Nat
  BY <1>1, PlanAssumption
<1> QED BY <1>1, <1>2

(* The words that a migration may come with.                               *)
LEMMA FilterIs ==
    ASSUME cmd \in Commands, Migrates, cmd.class \in Classes
    PROVE  \/ /\ cmd.filter[1] = "ids"
              /\ cmd.filter[2] \in Seq(IdsOf(cmd.class) \cup Strays)
           \/ cmd.filter[1] = "tenant"
           \/ cmd.filter[1] = "host"
<1> DEFINE of == IdsOf(cmd.class) \cup Strays
<1>1. cmd.filter \in Filters(cmd.class)
  <2>1. cmd \in Migrations
    BY DEF Commands, Migrates
  <2>2. PICK class \in Classes \cup {"servers"} :
            cmd \in [action : {"migrate"}, class : {class}, filter : Filters(class),
                     dump : BOOLEAN, setup : BOOLEAN,
                     disk : IF class = "resources" THEN Implementations \cup {"other"} ELSE {"image"}]
    BY <2>1 DEF Migrations
  <2> QED BY <2>2
<1>2. CASE \E q \in UNION {[1..n -> of] : n \in 0..MaxIds} : cmd.filter = <<"ids", q>>
  BY <1>2, SomeIdsAreSequences
<1>3. CASE \E t \in Tenants \cup Strays : cmd.filter = <<"tenant", t>>
  BY <1>3
<1>4. CASE cmd.filter = <<"host", None>>
  BY <1>4
<1> QED BY <1>1, <1>2, <1>3, <1>4 DEF Filters

(* A listing of some resources has each of them, once.                     *)
LEMMA ListingIs ==
    ASSUME NEW S, IsFiniteSet(S), NEW q \in Listings(S)
    PROVE  q \in Seq(S) /\ IsInjective(q) /\ Range(q) = S
<1>1. q \in [1..Cardinality(S) -> S] /\ IsInjective(q)
  BY DEF Listings
<1>2. Cardinality(S) \in Nat
  BY FS_CardinalityType
<1>3. q \in Injection(1..Cardinality(S), S)
  BY <1>1 DEF Injection
<1>4. IsFiniteSet(1..Cardinality(S)) /\ Cardinality(1..Cardinality(S)) = Cardinality(S)
  BY <1>2, FS_Interval
<1>5. q \in Surjection(1..Cardinality(S), S)
  BY <1>3, <1>4, FS_Injection
<1> QED BY <1>1, <1>2, <1>5 DEF Surjection, Range

(* The ids that a filter stands for.                                       *)
LEMMA SelectedIs ==
    ASSUME cmd \in Commands, Migrates, cmd.class \in Classes, NEW ids \in Selected
    PROVE  /\ ids \in Seq(IdsOf(cmd.class))
           /\ Listed(cmd.class) => IsInjective(ids)
           /\ cmd.filter[1] = "ids" /\ Listed(cmd.class) =>
                  Range(ids) = Range(cmd.filter[2]) \cap IdsOf(cmd.class)
           /\ cmd.filter[1] = "ids" /\ ~Listed(cmd.class) => ids = cmd.filter[2]
           /\ cmd.filter[1] = "tenant" /\ cmd.class = "images" => Range(ids) = Owned(cmd.filter[2])
           /\ ~Groupable => ids = <<>>
<1>0. /\ cmd.class = "images" => Listed(cmd.class) /\ IdsOf(cmd.class) = Images
      /\ Listed(cmd.class) => IdsOf(cmd.class) \in {Images, Volumes}
      /\ ~Listed(cmd.class) => IdsOf(cmd.class) \cup Strays = IdsOf(cmd.class)
  BY DEF Listed, IdsOf
<1> DEFINE known == IdsOf(cmd.class)
<1> HIDE DEF known
<1>1. CASE cmd.filter[1] = "ids" /\ Listed(cmd.class)
  <2> DEFINE S == Range(cmd.filter[2]) \cap known
  <2>1. ids \in Listings(S)
    BY <1>1 DEF Selected, known
  <2>2. IsFiniteSet(S)
    <3>1. IsFiniteSet(known)
      BY <1>0, <1>1, CommandAssumption DEF known
    <3> QED BY <3>1, FS_Subset
  <2> HIDE DEF S
  <2>3. ids \in Seq(S) /\ IsInjective(ids) /\ Range(ids) = S
    BY <2>1, <2>2, ListingIs
  <2>4. ids \in Seq(known)
    BY <2>3 DEF S
  <2> QED BY <1>1, <2>3, <2>4 DEF S, known, Groupable
<1>2. CASE cmd.filter[1] = "tenant" /\ cmd.class = "images"
  <2> DEFINE owned == Owned(cmd.filter[2])
  <2>1. ids \in Listings(owned)
    BY <1>2 DEF Selected
  <2>2. IsFiniteSet(owned) /\ owned \subseteq Images
    <3>1. owned \in SUBSET Images
      BY DEF Owned
    <3> QED BY <3>1, FS_Subset, CommandAssumption
  <2> HIDE DEF owned
  <2>3. ids \in Seq(owned) /\ IsInjective(ids) /\ Range(ids) = owned
    BY <2>1, <2>2, ListingIs
  <2>4. ids \in Seq(Images)
    BY <2>2, <2>3
  <2> QED BY <1>0, <1>2, <2>3, <2>4 DEF owned, Groupable
<1>3. CASE cmd.filter[1] # "ids" /\ ~(cmd.filter[1] = "tenant" /\ cmd.class = "images")
  <2>1. ids = <<>>
    BY <1>3 DEF Selected
  <2>2. IsInjective(<<>>)
    BY DEF IsInjective
  <2> QED BY <1>3, <2>1, <2>2
<1>4. CASE cmd.filter[1] = "ids" /\ ~Listed(cmd.class)
  <2>1. ids = cmd.filter[2]
    BY <1>4 DEF Selected
  <2>2. ids \in Seq(IdsOf(cmd.class))
    BY <1>0, <1>4, <2>1, FilterIs
  <2> QED BY <1>4, <2>1, <2>2 DEF Groupable
<1> QED BY <1>1, <1>2, <1>3, <1>4

(* A complete plan has what the operator means, and is empty when the      *)
(* filter tells nothing of the class.                                      *)
LEMMA MeantIsPlanned ==
    ASSUME PlanInv, Main, phase = "planned", Migrates
    PROVE  IF Groupable THEN Meant \subseteq Planned ELSE Planned = {}
<1>0. /\ Order /\ PlannedServers /\ PlannedImages /\ PlannedVolumes /\ Identities /\ Begin /\ Done
      /\ cmd \in Commands /\ cmd.class \in Classes
      /\ asked.class = cmd.class /\ asked.ids \in Selected
  BY DEF PlanInv, Main
<1>1. /\ Taken = Len(asked.ids) /\ servers = {} /\ Taken \in Nat
      /\ DOMAIN asked.ids = 1..Taken /\ asked.ids \in Seq(Given)
      /\ \A s : Passed(s) = {k \in 1..Taken : asked.ids[k] = inv.tenantOf[s]}
      /\ Range(asked.ids) = {asked.ids[k] : k \in 1..Taken}
  BY <1>0, AllTaken
<1>2. CASE ~Groupable
  <2>1. asked.ids = <<>>
    BY <1>0, <1>2, SelectedIs
  <2>2. Taken = 0
    BY <1>1, <2>1
  <2> QED BY <1>0, <1>2, <2>2 DEF Begin, Planned
<1>3. CASE Groupable
  <2> DEFINE ids == IF cmd.filter[1] = "ids" THEN Range(cmd.filter[2])
                    ELSE {i \in Images : inv.ownerOf[i] = cmd.filter[2]}
             taken == {asked.ids[k] : k \in 1..Taken}
  <2>1. /\ ~Listed(cmd.class) => ids = taken
        /\ Listed(cmd.class) => ids \cap IdsOf(cmd.class) = taken
    <3>1. CASE cmd.filter[1] = "ids"
      BY <1>0, <1>1, <3>1, SelectedIs
    <3>2. CASE cmd.filter[1] # "ids"
      <4>1. cmd.filter[1] = "tenant" /\ cmd.class = "images"
        BY <1>3, <3>2 DEF Groupable
      <4>2. Range(asked.ids) = Owned(cmd.filter[2])
        BY <1>0, <4>1, SelectedIs
      <4> QED BY <1>1, <3>2, <4>1, <4>2 DEF Owned, Listed, IdsOf
    <3> QED BY <3>1, <3>2
  <2>2. CASE cmd.class = "resources"
    <3>1. Meant = {<<"server", s>> : s \in {r \in Servers : inv.tenantOf[r] \in ids}}
      BY <2>2 DEF Meant
    <3>2. ids = taken
      BY <2>1, <2>2 DEF Listed
    <3> HIDE DEF ids
    <3>3. ASSUME NEW s \in Servers, inv.tenantOf[s] \in ids PROVE <<"server", s>> \in Planned
      BY <1>0, <1>1, <2>2, <3>2, <3>3 DEF PlannedServers
    <3> QED BY <1>3, <3>1, <3>3
  <2>3. CASE cmd.class = "identity"
    <3>1. Meant = {<<"tenant", t>> : t \in ids} \cup
                  {<<"user", u>> : u \in (UNION {ListedUsers(t) : t \in ids}) \ {AuthUser}}
      BY <2>3 DEF Meant
    <3>2. ids = taken
      BY <2>1, <2>3 DEF Listed
    <3> HIDE DEF ids
    <3>3. ASSUME NEW t \in ids
          PROVE  /\ <<"tenant", t>> \in Planned
                 /\ \A u \in ListedUsers(t) \ {AuthUser} : <<"user", u>> \in Planned
      BY <1>0, <2>3, <3>2, <3>3 DEF Identities
    <3>4. ASSUME NEW r \in Meant PROVE r \in Planned
      <4>1. CASE \E t \in ids : r = <<"tenant", t>>
        BY <3>3, <4>1
      <4>2. CASE \E t \in ids : \E u \in ListedUsers(t) \ {AuthUser} : r = <<"user", u>>
        BY <3>3, <4>2
      <4> QED BY <3>1, <3>4, <4>1, <4>2
    <3> QED BY <1>3, <3>4
  <2>4. CASE cmd.class = "images"
    <3>1. Meant = {<<"image", i>> : i \in ids \cap Images}
      BY <2>4 DEF Meant
    <3>2. ids \cap Images = taken
      BY <2>1, <2>4 DEF Listed, IdsOf
    <3> HIDE DEF ids
    <3>3. ASSUME NEW i \in ids \cap Images PROVE <<"image", i>> \in Planned
      <4>1. i \in Bases
        BY <1>0, <2>4, <3>2 DEF Bases
      <4> QED BY <1>0, <4>1 DEF PlannedImages
    <3> QED BY <1>3, <3>1, <3>3
  <2>5. CASE cmd.class = "volumes"
    <3>1. Meant = {<<"volume", v>> : v \in ids \cap Volumes}
      BY <2>5 DEF Meant
    <3>2. ids \cap Volumes = taken
      BY <2>1, <2>5 DEF Listed, IdsOf
    <3> HIDE DEF ids
    <3>3. ASSUME NEW v \in ids \cap Volumes PROVE <<"volume", v>> \in Planned
      BY <1>0, <2>5, <3>2 DEF PlannedVolumes
    <3> QED BY <1>3, <3>1, <3>3
  <2> QED BY <1>0, <2>2, <2>3, <2>4, <2>5 DEF Classes
<1> QED BY <1>2, <1>3

(* What a command has done when it is over, from what it has when it ends. *)
LEMMA OverWith ==
    ASSUME PlanInv', phase' = "over", cmd' \in Commands,
           Migrates' /\ ~cmd'.dump => exit' # "ok"
    PROVE  CommandInv'
<1>1. Main'
  BY DEF Main, Phases
<1>2. AskedForIsDone'
  BY DEF AskedForIsDone, Migrates
<1> QED BY <1>1, <1>2 DEF CommandInv

(* A command that goes on has done nothing yet.                            *)
LEMMA GoesOn ==
    ASSUME PlanInv', Main', phase' # "over"
    PROVE  CommandInv'
<1>1. exit' = None
  BY DEF Main
<1>2. AskedForIsDone'
  BY <1>1, CommandAssumption DEF AskedForIsDone
<1> QED BY <1>2 DEF CommandInv

(* A command that argparse accepts goes on with an empty plan.             *)
LEMMA ParseStep == CommandInv /\ Parse => CommandInv'
<1> SUFFICES ASSUME CommandInv, Parse PROVE CommandInv'
  OBVIOUS
<1>1. UNCHANGED vars /\ cmd' = cmd /\ cmd \in Commands
  BY DEF Parse, Exit, Enter, CommandInv, Main
<1>2. PlanInv'
  BY <1>1, PlanStutter DEF CommandInv
<1>3. CASE phase' = "over" /\ exit' = "usage"
  BY <1>1, <1>2, <1>3, OverWith
<1>4. CASE phase' = "connect" /\ (Migrates => cmd.class \in Classes) /\ exit' = exit /\ done' = done
  <2>1. Blank' /\ asked'.ids = <<>>
    BY <1>1 DEF Parse, CommandInv, Main, Blank, vars, Given, IdsOf
  <2>2. Main'
    BY <1>1, <1>4, <2>1 DEF Parse, CommandInv, Main, Phases, Migrates
  <2> QED BY <1>2, <1>4, <2>2, GoesOn
<1> QED BY <1>3, <1>4 DEF Parse, Exit, Enter

(* A command that is connected does, too, or plans nothing.                *)
LEMMA ConnectStep == CommandInv /\ Connect => CommandInv'
<1> SUFFICES ASSUME CommandInv, Connect PROVE CommandInv'
  OBVIOUS
<1>1. UNCHANGED vars /\ cmd' = cmd /\ cmd \in Commands
  BY DEF Connect, Exit, Enter, CommandInv, Main
<1>2. PlanInv'
  BY <1>1, PlanStutter DEF CommandInv
<1>3. CASE phase' = "over" /\ exit' = "error"
  BY <1>1, <1>2, <1>3, OverWith
<1>4. CASE /\ \/ phase' = "maintain" /\ ~Migrates
              \/ phase' = "planned" /\ ~Migrates
              \/ phase' = "select" /\ Migrates
           /\ exit' = exit /\ done' = done
  <2>1. Blank' /\ asked'.ids = <<>>
    BY <1>1 DEF Connect, CommandInv, Main, Blank, vars, Given, IdsOf
  <2>2. Done'
    BY <2>1 DEF Blank, Done
  <2>3. Main'
    BY <1>1, <1>4, <2>1, <2>2 DEF Connect, CommandInv, Main, Phases, Migrates
  <2> QED BY <1>2, <1>4, <2>3, GoesOn
<1>5. cmd.action \in {"migrate", "cleanup", "setup", "evacuate", "reassign"}
  BY <1>1 DEF Commands, Migrations
<1> QED BY <1>3, <1>4, <1>5 DEF Connect, Exit, Enter, Migrates

(* The filter is resolved: what is planned next is what it stands for.     *)
LEMMA Resolved ==
    ASSUME CommandInv, Select
    PROVE  \/ cmd.filter = <<"ids", <<>>>> /\ UNCHANGED vars
           \/ /\ cmd.filter # <<"ids", <<>>>> /\ Blank'
              /\ asked'.class = cmd.class /\ asked'.ids \in Selected
<1>0. /\ Blank /\ Migrates /\ cmd.class \in Classes /\ cmd \in Commands
  BY DEF Select, CommandInv, Main
<1>1. CASE cmd.filter = <<"ids", <<>>>>
  BY <1>1 DEF Select, vars
<1>2. CASE cmd.filter # <<"ids", <<>>>>
  <2>1. PICK ids \in Selected :
            asked' = Request(cmd.class, ids, cmd.disk) /\ queue' = ids
    BY <1>2 DEF Select
  <2>2. /\ inv' = inv /\ servers' = servers /\ store' = store /\ plan' = plan
        /\ needs' = needs /\ twice' = twice
    BY <1>2 DEF Select
  <2>3. asked'.class = cmd.class /\ asked'.ids = ids
    BY <2>1 DEF Request
  <2>4. /\ ids \in Seq(IdsOf(cmd.class))
        /\ Listed(cmd.class) => IsInjective(ids)
    BY <1>0, SelectedIs
  <2>5. Blank'
    BY <1>0, <2>1, <2>2, <2>3, <2>4 DEF Blank, Given, IdsOf
  <2> QED BY <1>2, <2>3, <2>5
<1> QED BY <1>1, <1>2

(* The choice of the ids keeps the invariant.                              *)
LEMMA SelectStep == CommandInv /\ Select => CommandInv'
<1> SUFFICES ASSUME CommandInv, Select PROVE CommandInv'
  OBVIOUS
<1>0. /\ Migrates /\ cmd.class \in Classes /\ cmd \in Commands
      /\ exit = None /\ done = {} /\ PlanInv
  BY DEF Select, CommandInv, Main
<1>1. CASE cmd.filter = <<"ids", <<>>>>
  <2>1. /\ UNCHANGED vars /\ cmd' = cmd /\ phase' = "over" /\ exit' = "usage"
    BY <1>1 DEF Select, Exit, vars
  <2> QED BY <1>0, <2>1, PlanStutter, OverWith
<1>2. CASE cmd.filter # <<"ids", <<>>>>
  <2>1. /\ phase' = "plan" /\ cmd' = cmd /\ exit' = exit /\ done' = done
        /\ inv' = inv
    BY <1>2 DEF Select, Enter
  <2>2. Blank' /\ asked'.class = cmd.class /\ asked'.ids \in Selected
    BY <1>2, Resolved
  <2>3. PlanInv'
    BY <2>2, BlankPlanNext
  <2>4. Selected' = Selected
    BY <2>1 DEF Selected, Owned
  <2>5. Main'
    BY <1>0, <1>2, <2>1, <2>2, <2>4 DEF Main, Phases, Migrates
  <2> QED BY <2>1, <2>3, <2>5, GoesOn
<1> QED BY <1>1, <1>2

(* So does a step of the planning.                                         *)
LEMMA PlanningStep == CommandInv /\ Plan => CommandInv'
<1> SUFFICES ASSUME CommandInv, Plan PROVE CommandInv'
  OBVIOUS
<1>1. /\ PlanInv' /\ Frame
  BY PlanStep, OrderStep DEF Plan, CommandInv, PlanInv
<1>2. phase' = "plan" /\ cmd' = cmd /\ exit' = exit /\ done' = done /\ phase = "plan"
  BY DEF Plan, commandVars
<1>3. Selected' = Selected
  BY <1>1, <1>2 DEF Frame, Selected, Owned
<1>4. Main'
  BY <1>1, <1>2, <1>3 DEF CommandInv, Main, Phases, Migrates, Frame
<1> QED BY <1>1, <1>2, <1>4, GoesOn

(* So does the end of the planning.                                        *)
LEMMA MadeStep == CommandInv /\ PlanIsMade => CommandInv'
<1> SUFFICES ASSUME CommandInv, PlanIsMade PROVE CommandInv'
  OBVIOUS
<1>1. /\ UNCHANGED vars /\ phase = "plan" /\ phase' = "planned" /\ Done
      /\ cmd' = cmd /\ exit' = exit /\ done' = done
  BY DEF PlanIsMade, Planning, Enter
<1>2. PlanInv'
  BY <1>1, PlanStutter DEF CommandInv
<1>3. Selected' = Selected /\ Done'
  BY <1>1 DEF Selected, Owned, Done, vars
<1>4. Main'
  BY <1>1, <1>3 DEF CommandInv, Main, Phases, Migrates, vars
<1> QED BY <1>1, <1>2, <1>4, GoesOn

(* The flow is run: what is planned has been copied when it succeeds.      *)
LEMMA RunStep == CommandInv /\ Run => CommandInv'
<1> SUFFICES ASSUME CommandInv, Run PROVE CommandInv'
  OBVIOUS
<1>1. /\ UNCHANGED vars /\ phase = "planned" /\ ~cmd.dump /\ cmd' = cmd /\ phase' = "over"
      /\ cmd \in Commands /\ PlanInv /\ Main
  BY DEF Run, CommandInv, Main
<1>2. PlanInv'
  BY <1>1, PlanStutter
<1>3. CASE exit' = "error"
  BY <1>1, <1>2, <1>3, OverWith
<1>4. CASE exit' = "ok" /\ done' = Planned
  <2>1. Main'
    BY <1>1, <1>4 DEF Main, Phases
  <2>2. CASE ~Migrates
    BY <1>1, <1>2, <1>4, <2>2, OverWith DEF Migrates
  <2>3. CASE Migrates
    <3>1. IF Groupable THEN Meant \subseteq Planned ELSE Planned = {}
      BY <1>1, <2>3, MeantIsPlanned
    <3>2. Groupable' = Groupable /\ Meant' = Meant /\ Migrates' = Migrates
      BY <1>1 DEF Groupable, Meant, Migrates, vars, ListedUsers, Owned
    <3>3. Planned # {}
      BY <2>3 DEF Run, Empty
    <3>4. AskedForIsDone'
      BY <1>1, <1>4, <3>1, <3>2, <3>3 DEF AskedForIsDone
    <3> QED BY <1>2, <2>1, <3>4 DEF CommandInv
  <2> QED BY <2>2, <2>3
<1> QED BY <1>3, <1>4 DEF Run

(* The other ways in which a command ends.                                 *)
LEMMA EndStep ==
    ASSUME CommandInv, Fault \/ Maintain \/ NoSuchPlugin \/ NoSuchTenant \/ Refuse \/ Dump
    PROVE  CommandInv'
<1>1. UNCHANGED vars /\ cmd' = cmd /\ phase' = "over" /\ cmd \in Commands
  BY DEF Fault, Maintain, NoSuchPlugin, NoSuchTenant, Refuse, Dump, Exit, CommandInv, Main
<1>2. PlanInv'
  BY <1>1, PlanStutter DEF CommandInv
<1>3. phase # "over"
  BY DEF Fault, Maintain, NoSuchPlugin, NoSuchTenant, Refuse, Dump
<1>5. Migrates' <=> Migrates
  BY <1>1 DEF Migrates
<1>6. CASE Fault \/ NoSuchPlugin \/ NoSuchTenant
  BY <1>1, <1>2, <1>6, OverWith DEF Fault, NoSuchPlugin, NoSuchTenant, Exit
<1>7. CASE Maintain
  BY <1>1, <1>2, <1>5, <1>7, OverWith DEF Maintain, Exit, CommandInv, Main
<1>8. CASE Refuse
  BY <1>1, <1>2, <1>8, OverWith DEF Refuse, Exit
<1>9. CASE Dump
  BY <1>1, <1>2, <1>5, <1>9, OverWith DEF Dump, Exit
<1> QED BY <1>6, <1>7, <1>8, <1>9

(* No ids are a sequence of any ids.                                       *)
LEMMA NoIds == ASSUME NEW S PROVE <<>> \in Seq(S)
OBVIOUS

(* The inductive invariant of the command.                                 *)
THEOREM CommandInvariant == CommandSpec => []CommandInv
<1>1. CommandInit => CommandInv
  <2> SUFFICES ASSUME CommandInit PROVE CommandInv
    OBVIOUS
  <2>1. asked.ids = <<>> /\ asked.class = "resources"
    BY DEF CommandInit, Request
  <2>2. Blank
    <3>1. asked.ids \in Seq(Given)
      BY <2>1, NoIds
    <3> QED BY <2>1, <3>1 DEF CommandInit, Blank, Listed
  <2>3. PlanInv
    BY <2>2, BlankPlan
  <2>4. Main
    BY <2>1, <2>2 DEF CommandInit, Main, Phases
  <2>5. AskedForIsDone
    BY CommandAssumption DEF CommandInit, AskedForIsDone
  <2> QED BY <2>3, <2>4, <2>5 DEF CommandInv
<1>2. CommandInv /\ UNCHANGED allVars => CommandInv'
  <2> SUFFICES ASSUME CommandInv, UNCHANGED allVars PROVE CommandInv'
    OBVIOUS
  <2>1. UNCHANGED vars /\ UNCHANGED commandVars
    BY DEF allVars
  <2>2. PlanInv'
    BY <2>1, PlanStutter DEF CommandInv
  <2>3. Main'
    BY <2>1 DEF CommandInv, Main, vars, commandVars, Blank, Given, IdsOf, Migrates, Selected, Owned, Done
  <2>4. AskedForIsDone'
    <3>1. Groupable' = Groupable /\ Meant' = Meant /\ Migrates' = Migrates
      BY <2>1 DEF Groupable, Meant, Migrates, vars, commandVars, ListedUsers, Owned
    <3> QED BY <2>1, <3>1 DEF CommandInv, AskedForIsDone, commandVars
  <2> QED BY <2>2, <2>3, <2>4 DEF CommandInv
<1>3. CommandInv /\ [CommandNext]_allVars => CommandInv'
  BY <1>2, ParseStep, ConnectStep, SelectStep, PlanningStep, MadeStep, RunStep, EndStep
  DEF CommandNext
<1> QED BY <1>1, <1>3, PTL DEF CommandSpec

(* A complete plan lacks the default tenants of users that are not asked   *)
(* for and the owners of private images, it has the servers of a tenant    *)
(* given twice and the kernels of two images twice, and it has no other    *)
(* flaw, whatever the source cloud holds and in whatever order nova lists  *)
(* its servers.                                                            *)
THEOREM PlansAreComplete == CommandSpec => []OnlyKnownFlaws
<1>1. CommandInv => OnlyKnownFlaws
  BY CompletePlan DEF CommandInv
<1> QED BY <1>1, CommandInvariant, PTL

(* A server that is planned comes with every visible role of its user in   *)
(* its tenant, also when the user or the role was planned before.          *)
THEOREM RolesKept == CommandSpec => []OwnersKeepTheirRoles
<1>1. CommandInv => OwnersKeepTheirRoles
  BY DEF CommandInv, PlanInv
<1> QED BY <1>1, CommandInvariant, PTL

(* The plan of identities has the visible roles in every tenant asked for, *)
(* except those of pumphouse's own user and of users of an earlier tenant. *)
THEOREM AssignmentsAreKept == CommandSpec => []AssignmentsKept
<1>1. CommandInv => AssignmentsKept
  BY CompleteIdentity DEF CommandInv
<1> QED BY <1>1, CommandInvariant, PTL

(* A migration that reports success has moved something, and with it all   *)
(* that the filter means and the source cloud has, unknown ids or not.     *)
THEOREM PromisesAreKept == CommandSpec => []AskedForIsDone
<1>1. CommandInv => AskedForIsDone
  BY DEF CommandInv
<1> QED BY <1>1, CommandInvariant, PTL

(* The invariant of the flows, for the command.                            *)
THEOREM FlowsInvariant == CommandSpec => []CircleInv
<1>1. CommandInit => CircleInv
  <2> SUFFICES ASSUME CommandInit PROVE CircleInv
    OBVIOUS
  <2>1. asked.ids = <<>> /\ asked.class = "resources"
    BY DEF CommandInit, Request
  <2>2. asked.ids \in Seq(Given)
    BY <2>1, NoIds
  <2>3. Blank
    BY <2>1, <2>2 DEF CommandInit, Blank, Listed
  <2> QED BY <2>3, BlankFlows
<1>2. CommandInv /\ CircleInv /\ [CommandNext]_allVars => CircleInv'
  <2> SUFFICES ASSUME CommandInv, CircleInv, [CommandNext]_allVars PROVE CircleInv'
    OBVIOUS
  <2>1. CASE UNCHANGED vars
    <3>1. Frame /\ plan' = plan /\ needs' = needs /\ Taken' = Taken
      BY <2>1 DEF vars, Frame, Taken
    <3>2. 1..Taken \subseteq 1..Taken'
      BY <3>1
    <3> QED BY <3>1, <3>2, FlowsStay DEF CommandInv, PlanInv
  <2>2. CASE Select
    BY <2>1, <2>2, Resolved, BlankFlowsNext
  <2>3. CASE Plan
    BY <2>3, FlowsNext DEF Plan, CommandInv
  <2>4. CASE CommandNext /\ ~Select /\ ~Plan
    <3>1. UNCHANGED vars
      BY <2>4 DEF CommandNext, Parse, Fault, Connect, Maintain, NoSuchPlugin, PlanIsMade,
                  NoSuchTenant, Refuse, Dump, Run
    <3> QED BY <2>1, <3>1
  <2> QED BY <2>1, <2>2, <2>3, <2>4 DEF allVars
<1> QED BY <1>1, <1>2, CommandInvariant, PTL DEF CommandSpec

(* Flows of several ids wait for each other only when a user that comes    *)
(* with an earlier id belongs to a tenant that is given later.             *)
THEOREM CirclesAreKnown == CommandSpec => []CircleOnlyByDefaultTenant
<1>1. CommandInv /\ CircleInv => CircleOnlyByDefaultTenant
  BY CircleIs DEF CommandInv, PlanInv
<1> QED BY <1>1, CommandInvariant, FlowsInvariant, PTL

==============================================================================
