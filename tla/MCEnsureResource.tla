-------------------------- MODULE MCEnsureResource --------------------------
(* Two migrations of one tenant, or of two that share resources.           *)
EXTENDS EnsureResource

MCFlow == {"f", "g"}
MCTenant == {"t", "t2"}
MCUser == {"u"}
MCRole == {"r"}
MCGroup == {"default"}
MCThing == {<<"flavor", "tiny">>, <<"network", "net">>, <<"fip", "ip">>}

Tn == <<"tenant", "t">>
Tn2 == <<"tenant", "t2">>
Us == <<"user", "u">>
Ro == <<"role", "r">>
Gr == <<"grant", <<"u", "r", "t">>>>
Sg == <<"secgroup", "default">>

Situation(home, plan, there, kept) ==
    [home |-> [u \in MCUser |-> home], owner |-> [g \in MCGroup |-> <<"u", "t">>],
     plan |-> plan, there |-> there, kept |-> kept,
     rule |-> [g \in MCGroup |-> <<"plain", "plain">>]]

With(situation, rule) == [situation EXCEPT !.rule = [g \in MCGroup |-> rule]]

Both(plan) == [f \in MCFlow |-> plan]

(* Identity and the group of a server's user: at home, away from home,     *)
(* without a home, a user known to the destination, a group nova has made, *)
(* a rule whose source is a group, one that is refused.                    *)
IdentityWorld ==
    {Situation("t", Both({Tn, Us, Ro, Gr, Sg}), {Tn, Ro}, TRUE),
     Situation("t", Both({Tn, Us, Sg}), {Sg}, TRUE),
     Situation("t", [f \in MCFlow |-> IF f = "f" THEN {Tn, Us, Ro, Gr} ELSE {Ro}],
               {}, TRUE),
     Situation("t2", [f \in MCFlow |-> IF f = "f" THEN {Tn, Tn2, Us, Ro, Gr, Sg}
                                       ELSE {Tn2, Us}], {Tn, Ro}, TRUE),
     Situation(NoTenant, Both({Tn, Us, Ro, Gr}), {Tn, Ro}, TRUE),
     With(Situation("t", Both({Tn, Us, Sg}), {Tn}, TRUE), <<"plain", "sourced">>),
     With(Situation("t", Both({Tn, Us, Sg}), {Tn}, TRUE), <<"refused", "plain">>),
     Situation("t", Both({Tn, Us, Ro, Gr, Sg}), {Tn, Us, Ro}, TRUE)}

(* What does not depend on identity.                                       *)
ThingWorld ==
    {Situation("t", Both({Tn, <<"network", "net">>}), there, kept) :
         kept \in BOOLEAN, there \in SUBSET {<<"network", "net">>}}
    \cup {Situation("t", Both({<<"flavor", "tiny">>, <<"fip", "ip">>}), {}, TRUE)}

MCWorld == IdentityWorld \cup ThingWorld
=============================================================================
