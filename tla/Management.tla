----------------------------- MODULE Management -----------------------------
(***************************************************************************)
(* cleanup and setup of a cloud: what POST /reset does, and, by themselves,*)
(* the commands `pump cleanup` and `pump setup`.  Cleanup removes, kind by *)
(* kind, what has a name with pumphouse's prefix; setup creates images,    *)
(* flavors, a network, floating ips and a tenant with a user, a volume and *)
(* a server.  Every request may fail, which ends the reset where it is;    *)
(* the next one begins anew.                                               *)
(***************************************************************************)
EXTENDS Naturals, Sequences

CONSTANTS
    Config,      \* configurations to explore, see ConfigType
    World,       \* what the cloud may hold at first, see Resource
    MaxResets,   \* bound: resets that are begun
    MaxErrors    \* bound: requests that fail

VARIABLES
    config,      \* the configuration, which does not change
    cloud,       \* what the cloud holds
    going,       \* servers nova is about to remove
    deleting,    \* volumes cinder was asked to delete, and has not or never will
    stage,       \* where the reset is in Stages; 0 when none is running
    todo,        \* what the loop it is in still has to remove
    waiting,     \* the server it has asked nova to remove, and polls
    resets,      \* how many were begun
    ref,         \* the reset that the servers of the workloads come from
    why,         \* why the last reset failed, "none" if it did not
    errors

mvars ==
    <<config, cloud, going, deleting, stage, todo, waiting, resets, ref, why, errors>>

CleanupStages ==
    <<"server", "flavor", "volume", "image", "secgroup", "fip", "port", "subnet",
      "qnet", "network", "user", "role", "tenant", "service">>

SetupStages ==
    <<"plan", "image", "flavor", "network", "fip", "tenant", "admin", "user",
      "volume", "server", "address">>

Stages == CleanupStages \o SetupStages

(* A name is generated by a reset, or given in the configuration, or built *)
(* in (the network of FlatDHCP, the addresses), or someone else's.         *)
Name == ({"generated"} \X (1..MaxResets)) \cup ({"given", "builtin", "other"} \X {0})

(* "qnet" is a network of neutron, "network" one of nova, and a "service"  *)
(* a compute service that is disabled.                                     *)
Resource ==
    [kind : {CleanupStages[i] : i \in 1..Len(CleanupStages)}, name : Name,
     by : 0..MaxResets]

(* workloads and populate: are tenants, images and volumes listed in it,   *)
(* with names that carry the prefix, and how many tenants and servers for  *)
(* each?  Is there anything to clean up, to set up?  events is what        *)
(* cleanup and setup report to: the web API's socket or the log of pump.   *)
ConfigType ==
    [tenants : {"generated", "given"}, images : {"generated", "given"},
     volumes : BOOLEAN, prefixed : BOOLEAN, count : Nat \X Nat,
     network : {"FlatDHCP", "VLAN", "unknown"}, cleanup : BOOLEAN,
     setup : BOOLEAN, events : {"socket", "log"}]

ASSUME ManagementAssumption ==
    /\ Config \subseteq ConfigType
    /\ \A c \in Config : c.cleanup \/ c.events = "log"
    /\ World \subseteq SUBSET Resource
    /\ MaxResets \in Nat
    /\ MaxErrors \in Nat

Cause == {"none", "fault", "timeout", "gone", "emit", "neutron", "plugin",
          "conflict", "address", "stale", "volume"}

ManagementTypeOK ==
    /\ config \in Config
    /\ cloud \subseteq Resource
    /\ going \subseteq cloud
    /\ deleting \subseteq cloud
    /\ stage \in 0..Len(Stages)
    /\ todo \subseteq Resource
    /\ waiting \subseteq Resource
    /\ resets \in 0..MaxResets
    /\ ref \in 0..MaxResets
    /\ why \in Cause
    /\ errors \in 0..MaxErrors

ManagementInit ==
    /\ config \in Config
    /\ cloud \in World
    /\ going = {}
    /\ deleting \in SUBSET {r \in cloud : r.kind = "volume"}
    /\ stage = 0
    /\ todo = {}
    /\ waiting = {}
    /\ resets = 0
    /\ ref = 0
    /\ why = "none"
    /\ errors = 0

-----------------------------------------------------------------------------
IsPrefixed(r) ==
    \/ r.name[1] = "generated"
    \/ r.name[1] = "given" /\ config.prefixed

(* Mutant: floating ips go when they are told apart by name.               *)
DoomedByName(r) == IsPrefixed(r) \/ r.kind \in {"port", "subnet", "qnet", "service"}

(* Floating ips and everything of neutron go, whoever they belong to.      *)
Doomed(r) ==
    IsPrefixed(r) \/ r.kind \in {"fip", "port", "subnet", "qnet", "service"}

Cleaning == stage \in 1..Len(CleanupStages)

At(s) == stage > Len(CleanupStages) /\ Stages[stage] = s

Listed(i) ==
    IF i \in 1..Len(CleanupStages)
    THEN {r \in cloud : r.kind = Stages[i] /\ Doomed(r)} ELSE {}

Advance ==
    LET next == IF stage = Len(Stages) \/ (stage = Len(CleanupStages) /\ ~config.setup)
                THEN 0 ELSE stage + 1
    IN  stage' = next /\ todo' = Listed(next)

Abort(cause) ==
    /\ stage' = 0
    /\ todo' = {}
    /\ waiting' = {}
    /\ why' = cause

(* The events of the command line fail when they are formatted.            *)
Emitted(cause) == IF config.events = "log" THEN "emit" ELSE cause

-----------------------------------------------------------------------------
BeginReset ==
    LET first == IF config.cleanup THEN 1 ELSE Len(CleanupStages) + 1 IN
    /\ stage = 0
    /\ resets < MaxResets
    /\ resets' = resets + 1
    /\ stage' = first
    /\ todo' = Listed(first)
    /\ why' = "none"
    /\ UNCHANGED <<config, cloud, going, deleting, waiting, ref, errors>>

(* Mutant: cleanup returns when there is nothing of a kind.                *)
NextKindReturns ==
    /\ Cleaning
    /\ todo = {}
    /\ stage' = IF config.setup THEN Len(CleanupStages) + 1 ELSE 0
    /\ UNCHANGED <<config, cloud, going, deleting, todo, waiting, resets, ref, why, errors>>

NextKind ==
    /\ Cleaning
    /\ todo = {}
    /\ Advance
    /\ UNCHANGED <<config, cloud, going, deleting, waiting, resets, ref, why, errors>>

(* One turn of a loop of cleanup.  What is told of a network of neutron    *)
(* uses an attribute that it does not have.                                *)
Remove(r) ==
    LET told == r.kind \notin {"port", "subnet"}
        cause == IF r.kind = "qnet" THEN "neutron"
                 ELSE IF told THEN Emitted("none") ELSE "none"
    IN
    /\ Cleaning
    /\ r \in todo /\ r.kind \notin {"server", "volume"}
    /\ cloud' = cloud \ {r}
    /\ IF cause = "none" THEN todo' = todo \ {r} /\ UNCHANGED <<stage, waiting, why>>
       ELSE Abort(cause)
    /\ UNCHANGED <<config, going, deleting, resets, ref, errors>>

(* cinder deletes a volume later, or fails to, and nobody waits for it.  It *)
(* may refuse one that it was asked for before, and does when that is gone *)
(* since it was listed.                                                    *)
RemoveVolume(r) ==
    /\ Cleaning
    /\ r \in todo /\ r.kind = "volume"
    /\ \/ /\ r \in cloud
          /\ deleting' = deleting \cup {r}
          /\ IF Emitted("none") = "none"
             THEN todo' = todo \ {r} /\ UNCHANGED <<stage, waiting, why>>
             ELSE Abort("emit")
       \/ /\ r \in deleting \/ r \notin cloud
          /\ Abort("volume")
          /\ UNCHANGED deleting
    /\ UNCHANGED <<config, cloud, going, resets, ref, errors>>

(* Its floating ips are taken from a server and it is asked to go; nova    *)
(* refuses when an earlier reset's request has been carried out meanwhile. *)
RemoveServer(r) ==
    /\ Cleaning
    /\ r \in todo /\ r.kind = "server" /\ waiting = {}
    /\ IF r \in cloud
       THEN waiting' = {r} /\ going' = going \cup {r} /\ UNCHANGED <<stage, todo, why>>
       ELSE Abort("gone") /\ UNCHANGED going
    /\ UNCHANGED <<config, cloud, deleting, resets, ref, errors>>

(* wait_for ends when nova does not find the server.                       *)
ServerIsGone ==
    /\ waiting # {} /\ waiting \cap cloud = {}
    /\ IF Emitted("none") = "none"
       THEN todo' = todo \ waiting /\ waiting' = {} /\ UNCHANGED <<stage, why>>
       ELSE Abort("emit")
    /\ UNCHANGED <<config, cloud, going, deleting, resets, ref, errors>>

(* wait_for gives up after a minute.                                       *)
ServerStays ==
    /\ waiting # {} /\ waiting \subseteq cloud
    /\ Abort("timeout")
    /\ UNCHANGED <<config, cloud, going, deleting, resets, ref, errors>>

NovaRemoves ==
    /\ \E r \in going : cloud' = cloud \ {r} /\ going' = going \ {r}
    /\ UNCHANGED <<config, deleting, stage, todo, waiting, resets, ref, why, errors>>

CinderRemoves ==
    /\ \E r \in deleting : cloud' = cloud \ {r} /\ deleting' = deleting \ {r}
    /\ UNCHANGED <<config, going, stage, todo, waiting, resets, ref, why, errors>>

-----------------------------------------------------------------------------
(* generate_images_list and the like make names with a random number.      *)
Given(how) == IF how = "given" THEN <<"given", 0>> ELSE <<"generated", resets>>

NameOf(kind) ==
    CASE kind \in {"image", "flavor"} -> Given(config.images)
      [] kind \in {"tenant", "user"} -> Given(config.tenants)
      [] kind = "network" -> IF config.network = "VLAN" THEN <<"generated", 1>>
                             ELSE <<"builtin", 0>>
      [] kind = "fip" -> <<"builtin", 0>>
      [] OTHER -> <<"generated", resets>>

Taken(kind) == \E r \in cloud : r.kind = kind /\ r.name = NameOf(kind)

New(kind) == [kind |-> kind, name |-> NameOf(kind), by |-> resets]

(* The addresses are 172.16.0.136 and so on, for every server once for     *)
(* each tenant.                                                            *)
MaxAddresses == 256 - 136
Addresses == config.count[1] * (config.count[1] * config.count[2])

Refusal(kind) ==
    CASE kind = "fip" /\ Addresses > MaxAddresses -> "address"
      [] kind \notin {"image", "volume"} /\ Taken(kind) -> "conflict"
      [] OTHER -> "none"

(* glance and cinder take a name any number of times; other names are      *)
(* taken once.                                                             *)
Make(kind) ==
    /\ At(kind)
    /\ IF Refusal(kind) # "none"
       THEN Abort(Refusal(kind)) /\ UNCHANGED cloud
       ELSE /\ cloud' = cloud \cup {New(kind)}
            /\ IF Emitted("none") = "none" THEN Advance /\ UNCHANGED <<waiting, why>>
               ELSE Abort("emit")
    /\ UNCHANGED <<config, going, deleting, resets, ref, errors>>

(* No turn of the loop: volumes only if they are listed, and the network   *)
(* of FlatDHCP only once.                                                  *)
MakeNone ==
    /\ \/ At("volume") /\ ~config.volumes
       \/ At("network") /\ config.network = "FlatDHCP" /\ Taken("network")
    /\ Advance
    /\ UNCHANGED <<config, cloud, going, deleting, waiting, resets, ref, why, errors>>

(* The servers that are generated for a tenant of the workloads are stored *)
(* in it, and so found there by the next reset of the same process.  A     *)
(* network manager that nobody has registered ends the setup.              *)
PlanSetup ==
    /\ At("plan")
    /\ ref' = IF config.tenants = "given" /\ ref # 0 /\ config.events = "socket"
              THEN ref ELSE resets
    /\ IF config.network = "unknown" THEN Abort("plugin")
       ELSE Advance /\ UNCHANGED <<waiting, why>>
    /\ UNCHANGED <<config, cloud, going, deleting, resets, errors>>

(* The name of a server's image and flavor comes from the reset that       *)
(* planned it.                                                             *)
SetupServer ==
    LET name == IF config.images = "given" THEN <<"given", 0>> ELSE <<"generated", ref>>
        there == \A kind \in {"image", "flavor"} :
                     \E r \in cloud : r.kind = kind /\ r.name = name
    IN
    /\ At("server")
    /\ IF there
       THEN cloud' = cloud \cup {New("server")} /\ Advance /\ UNCHANGED <<waiting, why>>
       ELSE Abort("stale") /\ UNCHANGED cloud
    /\ UNCHANGED <<config, going, deleting, resets, ref, errors>>

(* become_admin_in_tenant and the rules of the default group, and the      *)
(* floating ip of the server.                                              *)
SetupRest ==
    /\ At("admin") \/ At("address")
    /\ IF At("address") /\ Emitted("none") # "none" THEN Abort("emit")
       ELSE Advance /\ UNCHANGED <<waiting, why>>
    /\ UNCHANGED <<config, cloud, going, deleting, resets, ref, errors>>

MadeHere == {"image", "flavor", "network", "fip", "tenant", "user", "volume"}

MakeOne ==
    \E kind \in MadeHere :
        /\ kind = "volume" => config.volumes
        /\ kind = "network" => ~(config.network = "FlatDHCP" /\ Taken("network"))
        /\ Make(kind)

(* A request fails; what it asked for may have been done, or what was made *)
(* never comes up.                                                         *)
RequestFails ==
    /\ stage # 0
    /\ errors < MaxErrors
    /\ errors' = errors + 1
    /\ Abort("fault")
    /\ \/ UNCHANGED <<cloud, deleting>>
       \/ /\ \/ \E r \in todo : /\ r.kind \notin {"server", "volume"}
                               /\ cloud' = cloud \ {r}
             \/ \E kind \in MadeHere : /\ At(kind) /\ Refusal(kind) = "none"
                                       /\ cloud' = cloud \cup {New(kind)}
             \/ At("server") /\ cloud' = cloud \cup {New("server")}
          /\ UNCHANGED deleting
       \/ \E r \in todo \cap cloud : /\ r.kind = "volume"
                                    /\ deleting' = deleting \cup {r}
                                    /\ UNCHANGED cloud
    /\ UNCHANGED <<config, going, resets, ref>>

(* The program is stopped and started: what it keeps in memory is gone.    *)
Restart ==
    /\ errors < MaxErrors
    /\ errors' = errors + 1
    /\ ref' = 0
    /\ IF stage = 0 THEN UNCHANGED <<stage, todo, waiting, why>> ELSE Abort("fault")
    /\ UNCHANGED <<config, cloud, going, deleting, resets>>

ResetStep ==
    \/ NextKind
    \/ \E r \in todo : Remove(r) \/ RemoveVolume(r) \/ RemoveServer(r)
    \/ ServerIsGone
    \/ ServerStays
    \/ PlanSetup
    \/ MakeOne
    \/ MakeNone
    \/ SetupServer
    \/ SetupRest

ManagementNext ==
    BeginReset \/ ResetStep \/ RequestFails \/ Restart \/ NovaRemoves \/ CinderRemoves

ManagementSpec == ManagementInit /\ [][ManagementNext]_mvars
-----------------------------------------------------------------------------
(* A reset that reports no failure leaves nothing of the earlier ones, nor *)
(* of one that was cut off anywhere, but for volumes that cinder was asked *)
(* to delete and does not report on; and what it has set up is all that    *)
(* cleanup will find the next time (management.py:61, :106, :402).         *)
NoLeftovers ==
    (stage = 0 /\ resets > 0 /\ why = "none") =>
        \A r \in cloud \ deleting : Doomed(r) => r.by = resets

(* A reset that was not cut short by a failing request or by a server that *)
(* nova keeps fails for few reasons: servers planned by an earlier reset   *)
(* refer to its images (management.py:432), given names without the prefix *)
(* are taken the second time, or by who was there before, a server that an *)
(* earlier reset gave up goes between being listed and being deleted       *)
(* (management.py:80), there are not so many addresses (management.py:236),*)
(* the network manager is not known, a network of neutron stops the cleanup*)
(* (management.py:160), or cinder refuses a volume that it is deleting, has*)
(* failed to delete or has deleted by now (management.py:106).             *)
ResetFailuresExplained ==
    /\ why = "stale" =>
           config.tenants = "given" /\ config.images = "generated" /\ ref < resets
    /\ why = "conflict" =>
           /\ ~config.prefixed
           /\ resets > 1 \/ \E r \in UNION World : r.name[1] = "given"
           /\ "given" \in {config.tenants, config.images}
    /\ why = "gone" => resets > 1
    /\ why = "volume" => resets > 1 \/ \E r \in UNION World : r.kind = "volume"
    /\ why = "address" => Addresses > MaxAddresses
    /\ why = "plugin" => config.network = "unknown"
    /\ why = "neutron" => \E r \in UNION World : r.kind = "qnet"

(* "If you need to clean your source or target cloud up, run migration     *)
(* script with `cleanup` command" (README.md:166): when no request failed  *)
(* and no server stayed, nothing that has the prefix is left, or cinder is *)
(* asked to delete it.                                                     *)
CleanupCleans ==
    /\ stage = 0 /\ resets > 0 /\ ~config.setup
    /\ errors = 0 /\ why \notin {"timeout", "gone", "volume"}
    => \A r \in cloud \ deleting : ~IsPrefixed(r)
=============================================================================
