-------------------------- MODULE MCServerMigration --------------------------
(* Servers of one tenant that share the flavor and the user.  Of the       *)
(* meta-resources, the synchronization point waits for the flavor, which   *)
(* stands for the image too, and the later tasks also need the user, which *)
(* stands for the tenant and the nics too.  All floating ips are those of  *)
(* the first server.                                                       *)
EXTENDS ServerMigration

CONSTANTS s1, s2, flavor, user, ip

MCOwner == [f \in Fip |-> s1]
MCSyncNeeds == [s \in Server |-> {flavor}]
MCUploadNeeds == [s \in Server |-> {user} \cap Meta]
MCBootNeeds == [s \in Server |-> Meta]
MCFipNeeds == [f \in Fip |-> {user} \cap Meta]
=============================================================================
