SPECIFICATION CommandSpec
CONSTANTS
    t1 = t1
    t2 = t2
    u1 = u1
    u2 = u2
    admin = admin
    member = member
    hidden = hidden
    s1 = s1
    s2 = s2
    v1 = v1
    stray = stray
    i1 = i1
    i2 = i2
    kernel = kernel
    flavor = flavor
    net = net
    ip1 = ip1
    ip2 = ip2
    fip = fip
    group1 = group1
    group2 = group2
    None = None
    AuthUser = admin
    Tenants = {t1, t2}
    Users = {u1, u2, admin}
    Roles = {member, hidden}
    HiddenRoles = {hidden}
    Servers = {s1, s2}
    Images = {i1, i2, kernel}
    Volumes = {v1}
    Strays = {stray}
    Goods = {flavor, net, ip1, ip2, fip, group1, group2}
    Inventories <- MCInventories
    MaxIds = 2
    Letters = 6
INVARIANTS
    OnlyKnownFlaws
    OwnersKeepTheirRoles
    AssignmentsKept
    CircleOnlyByDefaultTenant
    AskedForIsDone
\* A command ends.
CHECK_DEADLOCK FALSE
