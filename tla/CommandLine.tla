----------------------------- MODULE CommandLine -----------------------------
(***************************************************************************)
(* The command pump, from the operator's words to the exit code: it reads  *)
(* the command, connects to the clouds, finds out what the filter means,   *)
(* plans the flow (MigrationPlan) and dumps or runs it.  Every exception   *)
(* ends the program; nothing catches one.                                  *)
(*                                                                         *)
(* What evacuate and reassign run, and what cleanup and setup do, have     *)
(* modules of their own.                                                   *)
(***************************************************************************)
EXTENDS MigrationPlan, FiniteSets

CONSTANT Letters   \* how many ids a dump has names for; 25 in the code

ASSUME CommandAssumption ==
    /\ Letters \in Nat
    /\ IsFiniteSet(Images) /\ IsFiniteSet(Volumes)
    /\ None \notin {"ok", "usage", "refused", "error"}

VARIABLES
    cmd,       \* the operator's words
    phase,     \* how far main has come
    exit,      \* how it ended
    done       \* the resources of a flow that was run to its end

commandVars == <<cmd, phase, exit, done>>

allVars == <<vars, commandVars>>

Classes == {"resources", "identity", "images", "volumes"}

Implementations == {"image", "snapshot"}   \* of the plugin migrate_disk

(* --ids, which may be followed by no id at all, --tenant or --host; none  *)
(* of the ids need to be known in the source cloud.                        *)
Filters(class) ==
    {<<"ids", q>> : q \in UNION {[1..n -> IdsOf(class) \cup Strays] : n \in 0..MaxIds}} \cup
    {<<"tenant", t>> : t \in Tenants \cup Strays} \cup {<<"host", None>>}

(* The class that stands when none is given is not among the choices.  The *)
(* plugin is what the configuration file says.                             *)
Migrations ==
    UNION {[action : {"migrate"}, class : {class}, filter : Filters(class),
            dump : BOOLEAN, setup : BOOLEAN,
            disk : IF class = "resources" THEN Implementations \cup {"other"} ELSE {"image"}] :
           class \in Classes \cup {"servers"}}

Commands ==
    Migrations \cup
    [action : {"cleanup"}, target : {"source", "destination"}, dump : BOOLEAN] \cup
    [action : {"setup", "evacuate", "reassign"}, dump : BOOLEAN]

Request(class, ids, disk) == [class |-> class, ids |-> ids, disk |-> disk]

CommandInit ==
    /\ cmd \in Commands
    /\ inv \in Inventories
    /\ phase = "parse"
    /\ exit = None
    /\ done = {}
    /\ asked = Request("resources", <<>>, "image")
    /\ queue = <<>>
    /\ servers = {}
    /\ store = {}
    /\ plan = {}
    /\ needs = {}
    /\ twice = {}

Enter(next) == phase' = next /\ UNCHANGED <<cmd, exit, done>>

Exit(result) == phase' = "over" /\ exit' = result /\ UNCHANGED <<cmd, done>>

Migrates == cmd.action = "migrate"

(* argparse: a class that is no choice, also when it is the default.       *)
Parse ==
    /\ phase = "parse"
    /\ IF Migrates /\ cmd.class \notin Classes
       THEN Exit("usage")
       ELSE Enter("connect")
    /\ UNCHANGED vars

(* The configuration lacks a section, a driver cannot be loaded or a cloud *)
(* does not let pumphouse in; or a cloud does not answer while it plans.   *)
Fault ==
    /\ phase \in {"connect", "select", "plan"}
    /\ Exit("error")
    /\ UNCHANGED vars

(* The clients are made.  migrate --setup hands management.setup its       *)
(* arguments one place off: it fails when it looks for the plugin of the   *)
(* networks, before it creates anything.                                   *)
Connect ==
    /\ phase = "connect"
    /\ IF Migrates /\ cmd.setup
       THEN Exit("error")
       ELSE Enter(CASE cmd.action \in {"cleanup", "setup"} -> "maintain"
                    [] cmd.action \in {"evacuate", "reassign"} -> "planned"
                    [] Migrates -> "select")
    /\ UNCHANGED vars

(* cleanup and setup do not look at --dump.  Telling of the first thing    *)
(* they did raises an exception (Management); they only end well when      *)
(* there is nothing to do.                                                 *)
Maintain ==
    /\ phase = "maintain"
    /\ Exit("ok") \/ Exit("error")
    /\ UNCHANGED vars

-----------------------------------------------------------------------------
(* The filter, and the plan.                                               *)

(* Mutant: glance only lists what everybody may see.                       *)
OwnedPublic(t) == {i \in Images \ inv.private : inv.ownerOf[i] = t}

Owned(t) == {i \in Images : inv.ownerOf[i] = t}

(* The orders in which a cloud may list some resources.                    *)
Listings(S) == {q \in [1..Cardinality(S) -> S] : IsInjective(q)}

(* get_ids_by_tenant, get_ids_by_host: what the filter stands for.  Images *)
(* and volumes are those of the source cloud whose id was given.  Of the   *)
(* classes there are, only images can be told by tenant, and none by host; *)
(* that there is nothing then is only worth a warning.                     *)
Selected ==
    CASE cmd.filter[1] = "ids" /\ Listed(cmd.class) ->
             Listings(Range(cmd.filter[2]) \cap IdsOf(cmd.class))
      [] cmd.filter[1] = "ids" /\ ~Listed(cmd.class) -> {cmd.filter[2]}
      [] cmd.filter[1] = "tenant" /\ cmd.class = "images" -> Listings(Owned(cmd.filter[2]))
      [] OTHER -> {<<>>}

Select ==
    /\ phase = "select"
    /\ IF cmd.filter = <<"ids", <<>>>>
       THEN Exit("usage") /\ UNCHANGED <<asked, queue>>
       ELSE /\ Enter("plan")
            /\ \E ids \in Selected :
                 /\ asked' = Request(cmd.class, ids, cmd.disk)
                 /\ queue' = ids
    /\ UNCHANGED <<inv, servers, store, plan, needs, twice>>

PluginFound == servers = {} \/ asked.disk \in Implementations

Plan ==
    /\ phase = "plan"
    /\ PluginFound
    /\ Next
    /\ UNCHANGED commandVars

(* Plugin.select raises on the first server.                               *)
NoSuchPlugin ==
    /\ phase = "plan"
    /\ ~PluginFound
    /\ Exit("error")
    /\ UNCHANGED vars

(* keystone does not know the tenant whose users it is to list.            *)
NoSuchTenant ==
    /\ phase = "plan"
    /\ asked.class = "identity"
    /\ queue # <<>> /\ Head(queue) \in Strays
    /\ Exit("error")
    /\ UNCHANGED vars

Planning == phase = "plan" /\ Done

PlanIsMade == Planning /\ Enter("planned") /\ UNCHANGED vars

-----------------------------------------------------------------------------
(* The flow is refused, dumped or run.                                     *)

Inconsistent == twice # {} \/ Circle

(* Evacuations and reassignments always have a task.                       *)
Empty == Migrates /\ Planned = {}

(* taskflow refuses to put tasks together that provide the same name or    *)
(* wait for each other, and to run a flow that lacks a name or has no task.*)
Refuse ==
    /\ phase = "planned"
    /\ Inconsistent \/ (~cmd.dump /\ (Missing # {} \/ Empty))
    /\ Exit("refused")
    /\ UNCHANGED vars

(* The ids that a dump abbreviates, those in the names of flows included.  *)
Abbreviated ==
    Range(asked.ids) \cup
    {r[2] : r \in {q \in (Planned \cup {n[2] : n \in needs}) \ Placeholders :
        q[1] \in {"tenant", "user", "role", "flavor", "image", "server", "volume"}}}

(* dump_flow gives each id a letter, and has none for the ones after Y:    *)
(* the dump then ends in the middle of the file.                           *)
Dump ==
    /\ phase = "planned" /\ cmd.dump
    /\ IF Cardinality(Abbreviated) > Letters THEN Exit("error") ELSE Exit("ok")
    /\ UNCHANGED vars

(* run_flow: the flow succeeds, or fails with a part of it done.           *)
Run ==
    /\ phase = "planned" /\ ~cmd.dump
    /\ ~Inconsistent /\ Missing = {} /\ ~Empty
    /\ \/ exit' = "ok" /\ done' = Planned
       \/ exit' = "error" /\ UNCHANGED done
    /\ phase' = "over"
    /\ UNCHANGED <<vars, cmd>>

CommandNext ==
    \/ Parse \/ Fault \/ Connect \/ Maintain
    \/ Select \/ Plan \/ NoSuchPlugin \/ NoSuchTenant \/ PlanIsMade
    \/ Refuse \/ Dump \/ Run

CommandSpec == CommandInit /\ [][CommandNext]_allVars

-----------------------------------------------------------------------------
(* Properties.                                                             *)

(* The state is well typed, that of the plan as well, and the program has  *)
(* an exit code when it is over.                                           *)
CommandTypeOK ==
    /\ TypeOK
    /\ cmd \in Commands
    /\ phase \in {"parse", "connect", "maintain", "select", "plan", "planned", "over"}
    /\ exit \in {"ok", "usage", "refused", "error", None}
    /\ exit = None <=> phase # "over"
    /\ done \subseteq Planned

(* The filters that tell something of the class.                           *)
Groupable == cmd.filter[1] = "ids" \/ (cmd.filter[1] = "tenant" /\ cmd.class = "images")

(* What the operator means, as far as the source cloud has it.             *)
Meant ==
    LET ids == IF cmd.filter[1] = "ids" THEN Range(cmd.filter[2])
               ELSE {i \in Images : inv.ownerOf[i] = cmd.filter[2]}
    IN  CASE cmd.class = "resources" -> {<<"server", s>> : s \in {r \in Servers : inv.tenantOf[r] \in ids}}
          [] cmd.class = "identity" ->
                 {<<"tenant", t>> : t \in ids} \cup
                 {<<"user", u>> : u \in (UNION {ListedUsers(t) : t \in ids}) \ {AuthUser}}
          [] cmd.class = "images" -> {<<"image", i>> : i \in ids \cap Images}
          [] cmd.class = "volumes" -> {<<"volume", v>> : v \in ids \cap Volumes}

(* When a migration that was not dumped reports success, something was     *)
(* moved, and with it all that the filter means: the servers, users,       *)
(* images or volumes that the source cloud has under the ids.  So neither  *)
(* a filter that tells nothing of the class nor ids that all are unknown   *)
(* end in a success, and an unknown tenant of the class identity does not  *)
(* either; an unknown id among others of another class is passed over.     *)
AskedForIsDone ==
    Migrates /\ ~cmd.dump /\ exit = "ok" => Groupable /\ done # {} /\ Meant \subseteq done

==============================================================================
