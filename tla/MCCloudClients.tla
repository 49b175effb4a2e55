--------------------------- MODULE MCCloudClients ---------------------------
(* Constants for CloudClients: configurations that differ in what can go   *)
(* wrong, and a source cloud with leftovers of a user and of an earlier    *)
(* use of the program.                                                     *)
EXTENDS CloudClients

Web ==
    [tenants |-> "generated", images |-> "generated", volumes |-> FALSE,
     prefixed |-> TRUE, count |-> <<2, 2>>, network |-> "FlatDHCP",
     cleanup |-> TRUE, setup |-> TRUE, events |-> "socket"]

MCConfig ==
    {Web,
     [Web EXCEPT !.tenants = "given", !.network = "VLAN"],
     [Web EXCEPT !.images = "given", !.prefixed = FALSE, !.volumes = TRUE],
     [Web EXCEPT !.count = <<6, 4>>],
     [Web EXCEPT !.network = "unknown"],
     [Web EXCEPT !.setup = FALSE],
     [Web EXCEPT !.volumes = TRUE]}

Left(kind, name) == [kind |-> kind, name |-> name, by |-> 0]
Other == <<"other", 0>>

MCWorld ==
    {{Left("image", Other), Left("server", Other), Left("fip", Other)},
     {Left("image", Other), Left("server", <<"generated", 1>>), Left("port", Other),
      Left("service", Other)},
     {Left("image", Other), Left("volume", <<"generated", 1>>)},
     {Left("qnet", Other), Left("tenant", <<"generated", 1>>)}}
=============================================================================
