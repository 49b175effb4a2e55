---------------------------- MODULE MCManagement ----------------------------
(* Constants for Management by itself: the commands of pump on the source  *)
(* cloud, after an earlier use.                                            *)
EXTENDS Management

Pump ==
    [tenants |-> "generated", images |-> "generated", volumes |-> FALSE,
     prefixed |-> TRUE, count |-> <<2, 2>>, network |-> "FlatDHCP",
     cleanup |-> TRUE, setup |-> FALSE, events |-> "log"]

MCConfig == {Pump, [Pump EXCEPT !.cleanup = FALSE, !.setup = TRUE]}

MCWorld ==
    {{[kind |-> kind, name |-> <<"given", 0>>, by |-> 0] :
         kind \in {"server", "flavor", "image", "user", "tenant"}}}
=============================================================================
