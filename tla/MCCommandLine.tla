---------------------------- MODULE MCCommandLine ----------------------------
(* The command line over two families of inventories, both with two servers*)
(* on one network, the first with a floating ip.  One family of            *)
(* inventories varies tenants, users, default tenants and grants, another  *)
(* images, their owners and kernels.  The first server is always in t1.    *)
EXTENDS CommandLine, TLC

CONSTANTS t1, t2, u1, u2, admin, member, hidden, s1, s2, v1, stray, i1, i2, kernel,
          flavor, net, ip1, ip2, fip, group1, group2

MCAddresses ==
    [s \in Servers |-> net :> IF s = s1
        THEN <<[type |-> "fixed", addr |-> ip1], [type |-> "floating", addr |-> fip]>>
        ELSE <<[type |-> "fixed", addr |-> ip2]>>]

MCInventory(tenantOf, userOf, default, grants, imageOf, private, kernelOf) ==
    [tenantOf |-> tenantOf, userOf |-> userOf, imageOf |-> imageOf,
     flavorOf |-> [s \in Servers |-> flavor],
     groupsOf |-> [s \in Servers |-> {IF tenantOf[s] = t1 THEN group1 ELSE group2}],
     addresses |-> MCAddresses,
     defaultTenant |-> default @@ (admin :> None),
     grants |-> grants \cup {<<u1, hidden, t2>>, <<admin, member, t1>>},
     private |-> private,
     ownerOf |-> [i \in Images |-> IF i = i2 THEN t2 ELSE t1],
     kernelOf |-> kernelOf @@ (kernel :> None)]

MCTenantOf == {f \in [Servers -> Tenants] : f[s1] = t1}

MCInventories ==
    {MCInventory(tenantOf, userOf, default, grants, [s \in Servers |-> i1],
                 {}, [i \in {i1, i2} |-> None]) :
        tenantOf \in MCTenantOf, userOf \in [Servers -> {u1, u2}],
        default \in [{u1, u2} -> Tenants \cup {None}],
        grants \in SUBSET ({u1, u2} \X {member} \X Tenants)} \cup
    {MCInventory(tenantOf, (s1 :> u1 @@ s2 :> u2), [u \in {u1, u2} |-> t1],
                 {<<u1, member, t1>>, <<u2, member, t1>>}, imageOf, private, kernelOf) :
        tenantOf \in MCTenantOf, imageOf \in [Servers -> {i1, i2}],
        private \in SUBSET {i1, i2}, kernelOf \in [{i1, i2} -> {kernel, None}]}

==============================================================================
