---------------------------- MODULE MigrationPlan ----------------------------
(***************************************************************************)
(* How a migration is planned: the builders that turn what the source      *)
(* cloud holds into the flow that taskflow runs.                           *)
(*                                                                         *)
(* A builder adds the tasks that copy one resource, and names tie them     *)
(* together: a task provides its own name and requires the names of        *)
(* others.  All builders share context.store, and by a key they keep there *)
(* they see that a resource is in the plan already.  Nothing else makes    *)
(* sure that in the end every name is provided, and provided once.         *)
(*                                                                         *)
(* A resource is a pair <<kind, id>>; it stands for its key in the store   *)
(* and for the names its chain of tasks (retrieve, then ensure) provides.  *)
(***************************************************************************)
EXTENDS Naturals, Sequences, Functions

CONSTANTS
    Tenants, Users, Roles, Servers, Images, Volumes,
    Strays,        \* ids that the source cloud does not know
    Goods,         \* ids of flavors, security groups, networks, addresses
    HiddenRoles,   \* roles whose names begin with an underscore
    AuthUser,      \* the user pumphouse itself logs in as
    None,          \* no default tenant, no kernel
    Inventories,   \* what the source cloud may hold, see Inventory
    MaxIds         \* bound: how many ids the operator gives

(* What nova, keystone and glance of the source cloud answer: of a server  *)
(* its tenant, user, image, flavor, security groups and, per network, its  *)
(* addresses, a fixed one first, and no fixed one in two networks; of a    *)
(* user the default tenant; the roles granted; the private images, and of  *)
(* an image the tenant that owns it and the kernel it boots with, which is *)
(* not what servers are made from.                                         *)
Inventory(source) ==
    /\ source.tenantOf \in [Servers -> Tenants]
    /\ source.userOf \in [Servers -> Users]
    /\ source.imageOf \in [Servers -> Images]
    /\ source.flavorOf \in [Servers -> Goods]
    /\ source.groupsOf \in [Servers -> SUBSET Goods]
    /\ \A s \in Servers : \A label \in DOMAIN source.addresses[s] :
        /\ label \in Goods
        /\ source.addresses[s][label] \in
               Seq([type : {"fixed", "floating"}, addr : Goods])
        /\ source.addresses[s][label][1].type = "fixed"
    /\ \A s, r \in Servers : \A l \in DOMAIN source.addresses[s] :
        \A m \in DOMAIN source.addresses[r] \ {l} :
            \A a \in Range(source.addresses[s][l]) : \A b \in Range(source.addresses[r][m]) :
                a.type = "fixed" /\ b.type = "fixed" => a.addr # b.addr
    /\ source.defaultTenant \in [Users -> Tenants \cup {None}]
    /\ source.grants \subseteq Users \X Roles \X Tenants
    /\ source.private \subseteq Images
    /\ source.ownerOf \in [Images -> Tenants]
    /\ source.kernelOf \in [Images -> Images \cup {None}]
    /\ \A s \in Servers, i \in Images : source.kernelOf[i] # source.imageOf[s]

(* Keystone tells users and tenants apart by their ids, and gives no id    *)
(* that is a word; an unknown id is nothing's.                             *)
ASSUME PlanAssumption ==
    /\ HiddenRoles \subseteq Roles
    /\ None \notin Tenants \cup Images
    /\ Users \cap Tenants = {}
    /\ {"public", "none"} \cap (Users \cup Tenants) = {}
    /\ Strays \cap (Tenants \cup Images \cup Volumes) = {}
    /\ MaxIds \in Nat
    /\ \A source \in Inventories : Inventory(source)

VARIABLES
    inv,       \* the inventory of the source cloud
    asked,     \* what the operator asks for: class, ids, and disk plugin
    queue,     \* ids that are still to be planned
    servers,   \* servers of the tenant in hand that are still to be planned
    store,     \* keys of context.store
    plan,      \* <<flow, resource>> for each chain of the flow
    needs,     \* <<flow, resource>> for each name that a chain requires
    twice      \* resources that more than one chain provides

vars == <<inv, asked, queue, servers, store, plan, needs, twice>>

-----------------------------------------------------------------------------
(* The chains of tasks, one operator for each builder: the resource and    *)
(* what its tasks require besides each other.                              *)

Chain(resource, required) == [is |-> resource, needs |-> required]

TenantChain(t) == Chain(<<"tenant", t>>, {})

(* migrate_user: EnsureUser, or EnsureOrphanUser, which needs no tenant.   *)
UserChain(u) ==
    Chain(<<"user", u>>, {<<"tenant", t>> : t \in {inv.defaultTenant[u]} \ {None}})

RoleChain(r) == Chain(<<"role", r>>, {})

MembershipChain(g) ==
    Chain(<<"user_role", g>>, {<<"user", g[1]>>, <<"role", g[2]>>, <<"tenant", g[3]>>})

SecGroupChain(s, group) ==
    Chain(<<"secgroup", group>>,
          {<<"tenant", inv.tenantOf[s]>>, <<"user", inv.userOf[s]>>})

FlavorChain(f) == Chain(<<"flavor", f>>, {})

(* migrate_network, with the two tasks that list the networks of a cloud.  *)
NetworkChains(label, t) ==
    {Chain(<<"network", label>>, {<<"networks", "all">>, <<"tenant", t>>}),
     Chain(<<"networks", "all">>, {})}

NicChain(label, addr) == Chain(<<"fixed_ip", addr>>, {<<"network", label>>})

FloatingIpChain(addr) == Chain(<<"floating_ip", addr>>, {})

(* The name that stands for the user of every public image: a value in the *)
(* store, which no task provides.                                          *)
public == <<"user", "public">>

(* The name that stands for the user of every volume, in the same way.     *)
nobody == <<"user", "none">>

Placeholders == {public, nobody}

(* migrate_detached_volume, from the retrieval to the new volume.          *)
VolumeChain(v) == Chain(<<"volume", v>>, {nobody})

(* Mutant: an image is copied after the tenant that owns it.               *)
ImageOwnerTenant(i) == IF i \in inv.private THEN <<"tenant", inv.ownerOf[i]>> ELSE public

(* migrate_image takes the owner that glance reports for the user's id.    *)
ImageOwner(i) == IF i \in inv.private THEN <<"user", inv.ownerOf[i]>> ELSE public

(* migrate_image also adds the kernel, whoever has added it before.  What  *)
(* it does for a kernel it does for a ramdisk.                             *)
ImageChains(i) ==
    LET kernels == {<<"image", k>> : k \in {inv.kernelOf[i]} \ {None}}
    IN  {Chain(<<"image", i>>, {ImageOwner(i)} \cup kernels)} \cup
        {Chain(k, {ImageOwner(i)}) : k \in kernels}

(* Mutant: the key for public images is forgotten.                         *)
ImageKeysNone(i) == {}

ImageKeys(i) == IF i \in inv.private THEN {} ELSE {public}

Addresses(s, type) ==
    UNION {{<<label, a.addr>> : a \in
                {b \in Range(inv.addresses[s][label]) : b.type = type}} :
           label \in DOMAIN inv.addresses[s]}

(* reprovision_server and restore_floating_ips: what the server is booted  *)
(* with, and for a floating ip the nic of the first address in its network.*)
ServerChain(s) ==
    Chain(<<"server", s>>,
        {<<"flavor", inv.flavorOf[s]>>, <<"user", inv.userOf[s]>>,
         <<"tenant", inv.tenantOf[s]>>} \cup
        {<<"fixed_ip", p[2]>> : p \in Addresses(s, "fixed")} \cup
        {<<"floating_ip", p[2]>> : p \in Addresses(s, "floating")} \cup
        {<<"fixed_ip", inv.addresses[s][p[1]][1].addr>> : p \in Addresses(s, "floating")} \cup
        {<<"image", i>> : i \in {j \in {inv.imageOf[s]} : asked.disk = "image"}})

-----------------------------------------------------------------------------
(* The builders.  Add adds the chains of once whose key is not in the      *)
(* store yet, and those of always without a look at it.                    *)

Planned == {p[2] : p \in plan}

Add(flow, once, always, keys) ==
    LET new == {c \in once : c.is \notin store} \cup always
        names == {c.is : c \in new}
    IN  /\ plan' = plan \cup ({flow} \X names)
        /\ twice' = twice \cup (names \cap Planned)
        /\ needs' = needs \cup ({flow} \X UNION {c.needs : c \in new})
        /\ store' = store \cup names \cup keys

GrantsOf(u, t) == {g \in inv.grants : g[1] = u /\ g[3] = t}

Visible(grants) == {g \in grants : g[2] \notin HiddenRoles}

(* Mutant: roles are only looked at when the user is added, as             *)
(* migrate_identity does.                                                  *)
ServerIdentityOnce(s) ==
    LET u == inv.userOf[s]
        t == inv.tenantOf[s]
    IN  {TenantChain(t), UserChain(u)} \cup
        {RoleChain(g[2]) : g \in GrantsOf(u, t)} \cup
        {MembershipChain(g) : g \in {h \in Visible(GrantsOf(u, t)) : <<"user", u>> \notin store}}

(* migrate_server_identity: the roles of the server's user in the server's *)
(* tenant, the hidden ones too, but no membership for those.               *)
ServerIdentity(s) ==
    LET u == inv.userOf[s]
        t == inv.tenantOf[s]
    IN  {TenantChain(t), UserChain(u)} \cup
        {RoleChain(g[2]) : g \in GrantsOf(u, t)} \cup
        {MembershipChain(g) : g \in Visible(GrantsOf(u, t))}

(* migrate_nic for each address of the server.  Once it has the address it *)
(* does not look at the network, which came with the address.              *)
ServerNics(s) ==
    {NicChain(p[1], p[2]) : p \in Addresses(s, "fixed")} \cup
    {FloatingIpChain(p[2]) : p \in Addresses(s, "floating")} \cup
    (UNION {NetworkChains(p[1], inv.tenantOf[s]) : p \in Addresses(s, "fixed")})

(* What migrate_server looks up in the store before it adds it.            *)
SharedChains(s) ==
    ServerIdentity(s) \cup ServerNics(s) \cup
    {SecGroupChain(s, g) : g \in inv.groupsOf[s]} \cup {FlavorChain(inv.flavorOf[s])}

(* The image is looked up, too, but once it is not there its kernel is not.*)
NewImage(s) ==
    {i \in {inv.imageOf[s]} : asked.disk = "image" /\ <<"image", i>> \notin store}

(* migrate_resources looks for a key of the server, but for one that no    *)
(* builder ever puts into the store.                                       *)
OwnChains(s) == {ServerChain(s)} \cup (UNION {ImageChains(i) : i \in NewImage(s)})

MigrateServer(s) ==
    /\ servers' = servers \ {s}
    /\ Add(inv.tenantOf[s], SharedChains(s), OwnChains(s),
           UNION {ImageKeys(i) : i \in NewImage(s)})
    /\ UNCHANGED <<inv, asked, queue>>

-----------------------------------------------------------------------------
(* What the operator asks for: one of the classes, with ids.  Images and   *)
(* volumes come in the order in which glance and cinder list them, each    *)
(* once and none that is unknown; tenants come as they are given.          *)
Listed(class) == class \in {"images", "volumes"}

IdsOf(class) ==
    CASE class = "images" -> Images
      [] class = "volumes" -> Volumes
      [] OTHER -> Tenants \cup Strays

Asked ==
    UNION {[class : {class},
            ids : {q \in UNION {[1..n -> IdsOf(class)] : n \in 1..MaxIds} :
                       Listed(class) => IsInjective(q)},
            disk : IF class = "resources" THEN {"image", "snapshot"} ELSE {"image"}] :
           class \in {"resources", "identity", "images", "volumes"}}

Init ==
    /\ inv \in Inventories
    /\ asked \in Asked
    /\ queue = asked.ids
    /\ servers = {}
    /\ store = {}
    /\ plan = {}
    /\ needs = {}
    /\ twice = {}

TakeNext(class) ==
    /\ asked.class = class
    /\ queue # <<>>
    /\ servers = {}
    /\ queue' = Tail(queue)
    /\ UNCHANGED <<inv, asked>>

(* migrate_resources: nova lists the servers of the tenant, in some order; *)
(* an unknown tenant has none.                                             *)
MigrateResources ==
    /\ TakeNext("resources")
    /\ servers' = {s \in Servers : inv.tenantOf[s] = Head(queue)}
    /\ UNCHANGED <<store, plan, needs, twice>>

ListedUsers(t) == {g[1] : g \in {h \in inv.grants : h[3] = t}}

(* Mutant: a user is left to the tenant it belongs to.                     *)
NewUsersAtHome(t) ==
    {u \in ListedUsers(t) \ {AuthUser} : <<"user", u>> \notin store /\ inv.defaultTenant[u] = t}

(* The users a tenant adds: not pumphouse's own, none that is there.       *)
NewUsers(t) == {u \in ListedUsers(t) \ {AuthUser} : <<"user", u>> \notin store}

(* migrate_identity: keystone lists the users of a tenant that it knows;   *)
(* for another one it raises an error, and nothing is planned any more.    *)
MigrateIdentity ==
    /\ TakeNext("identity")
    /\ Head(queue) \in Tenants
    /\ LET t == Head(queue)
           granted == UNION {Visible(GrantsOf(u, t)) : u \in NewUsers(t)}
       IN  Add(t,
               {TenantChain(t)} \cup {UserChain(u) : u \in NewUsers(t)} \cup
                   {MembershipChain(g) : g \in granted} \cup
                   {RoleChain(g[2]) : g \in granted},
               {}, {})
    /\ UNCHANGED servers

MigrateImage ==
    /\ TakeNext("images")
    /\ Add(Head(queue), {}, ImageChains(Head(queue)), ImageKeys(Head(queue)))
    /\ UNCHANGED servers

MigrateVolume ==
    /\ TakeNext("volumes")
    /\ Add(Head(queue), {}, {VolumeChain(Head(queue))}, {nobody})
    /\ UNCHANGED servers

Next ==
    \/ MigrateResources
    \/ \E s \in servers : MigrateServer(s)
    \/ MigrateIdentity
    \/ MigrateImage
    \/ MigrateVolume

Spec == Init /\ [][Next]_vars

-----------------------------------------------------------------------------
(* Properties.                                                             *)

Done == queue = <<>> /\ servers = {}

Kinds == {"tenant", "user", "role", "user_role", "secgroup", "flavor",
          "network", "networks", "fixed_ip", "floating_ip", "image", "server",
          "volume"}

Names ==
    Tenants \cup Users \cup Roles \cup Servers \cup Images \cup Volumes \cup Goods \cup
    {"public", "none", "all"} \cup (Users \X Roles \X Tenants)

Flows == Tenants \cup Images \cup Volumes

(* The state is well typed; a chain that requires a name made of nothing,  *)
(* such as the tenant of a user that has none, is not.                     *)
TypeOK ==
    /\ Inventory(inv)
    /\ asked.class \in {"resources", "identity", "images", "volumes"}
    /\ Range(queue) \subseteq Range(asked.ids)
    /\ servers \subseteq Servers
    /\ store \subseteq Kinds \X Names
    /\ plan \subseteq Flows \X (Kinds \X Names)
    /\ needs \subseteq Flows \X (Kinds \X Names)
    /\ twice \subseteq Planned

(* Names that are required and that neither a task nor the store supplies: *)
(* taskflow refuses to run such a flow.                                    *)
Missing == {n[2] : n \in needs} \ (Planned \cup (store \cap Placeholders))

BaseImages ==
    (IF asked.class = "images" THEN Range(asked.ids) ELSE {}) \cup
    {inv.imageOf[s] : s \in
        {t \in Servers : <<"server", t>> \in Planned /\ asked.disk = "image"}}

(* What a plan lacks: the default tenants of its users that nothing else   *)
(* brings along, and a user for each private image, looked for under an id *)
(* that is really that of a tenant (image.py:163).                         *)
KnownGaps ==
    ({<<"tenant", inv.defaultTenant[u]>> : u \in
        {v \in Users : <<"user", v>> \in Planned /\ inv.defaultTenant[v] # None}}
        \ Planned) \cup
    {<<"user", inv.ownerOf[i]>> : i \in BaseImages \cap inv.private}

(* What is added twice: the servers of a tenant that is given twice and a  *)
(* kernel that two images share; taskflow refuses such a flow.             *)
KnownDuplicates ==
    {<<"server", s>> : s \in {t \in Servers :
        /\ asked.class = "resources"
        /\ \E i, j \in DOMAIN asked.ids :
            i # j /\ asked.ids[i] = inv.tenantOf[t] /\ asked.ids[j] = inv.tenantOf[t]}} \cup
    {<<"image", k>> : k \in {l \in Images :
        \E i \in BaseImages : \E j \in BaseImages \ {i} :
            inv.kernelOf[i] = l /\ l \in {j, inv.kernelOf[j]}}}

(* Whatever order the builders run in, a complete plan lacks exactly the   *)
(* known gaps and no builder adds a resource that is there but the known   *)
(* duplicates: all other names that the chains of servers, nics, groups    *)
(* and memberships require are provided, once.                             *)
OnlyKnownFlaws == Done => Missing = KnownGaps /\ twice = KnownDuplicates

(* A server comes with every visible role its user has in its tenant, also *)
(* when the user is in the plan for a server of another tenant already.    *)
OwnersKeepTheirRoles ==
    \A s \in Servers : <<"server", s>> \in Planned =>
        {<<"user_role", g>> : g \in Visible(GrantsOf(inv.userOf[s], inv.tenantOf[s]))}
            \subseteq Planned

(* An assignment in a tenant whose identity was migrated is only left      *)
(* behind when its user is pumphouse's own or came with an earlier tenant. *)
AssignmentsKept ==
    Done /\ asked.class = "identity" =>
        \A i \in DOMAIN asked.ids :
            \A g \in {h \in Visible(inv.grants) : h[3] = asked.ids[i]} :
                \/ <<"user_role", g>> \in Planned
                \/ g[1] = AuthUser
                \/ \E j \in 1..(i - 1) : g[1] \in ListedUsers(asked.ids[j])

(* taskflow orders the flows of two ids by the names they exchange.        *)
Waits(f, g) ==
    /\ f # g
    /\ \E r \in Planned : <<f, r>> \in needs /\ <<f, r>> \notin plan /\ <<g, r>> \in plan

(* It refuses flows that wait for each other, in a circle: each of some    *)
(* flows waits for another one of them.                                    *)
Circle ==
    \E S \in SUBSET {p[1] : p \in plan} :
        S # {} /\ \A f \in S : \E g \in S : Waits(f, g)

(* The flows of several ids wait for each other in one case only: a user   *)
(* that comes with an earlier id belongs to a tenant that is given later.  *)
CircleOnlyByDefaultTenant ==
    Done /\ Circle =>
        \E i, j \in DOMAIN asked.ids : i < j /\
            \E u \in Users : /\ <<asked.ids[i], <<"user", u>>>> \in plan
                             /\ inv.defaultTenant[u] = asked.ids[j]

==============================================================================
