------------------------------ MODULE Handover ------------------------------
(***************************************************************************)
(* What the migration of a tenant promises about each of its servers, with *)
(* tasks, requests and polls left out (doc/RESOURCES.md, "Migration path"  *)
(* of instances): the original is stopped, a copy is launched, and only    *)
(* then is the original removed.  An attempt may be aborted at any time;   *)
(* from then on originals may be woken, and copies come up late.           *)
(***************************************************************************)

CONSTANT Server

VARIABLES
    original,   \* "running", "stopped" or "removed", for each server
    copied,     \* the servers a copy of which runs in the destination cloud
    aborted     \* the current attempt has failed

contractVars == <<original, copied, aborted>>

Init ==
    /\ original = [s \in Server |-> "running"]
    /\ copied = {}
    /\ aborted = FALSE

Change(s, from, to) ==
    /\ original[s] = from
    /\ original' = [original EXCEPT ![s] = to]
    /\ UNCHANGED <<copied, aborted>>

Stop(s) == Change(s, "running", "stopped")

Wake(s) == aborted /\ Change(s, "stopped", "running")

(* Only the first copy of a server changes anything here.                  *)
Launch(s) ==
    /\ original[s] = "stopped" \/ aborted
    /\ copied' = copied \cup {s}
    /\ UNCHANGED <<original, aborted>>

Remove(s) == s \in copied /\ Change(s, "stopped", "removed")

Abort == aborted' = TRUE /\ UNCHANGED <<original, copied>>

(* The request to remove fails although it is carried out.                 *)
RemoveAndAbort(s) ==
    /\ s \in copied
    /\ original[s] = "stopped"
    /\ original' = [original EXCEPT ![s] = "removed"]
    /\ aborted' = TRUE
    /\ UNCHANGED copied

Next ==
    \/ \E s \in Server :
          Stop(s) \/ Wake(s) \/ Launch(s) \/ Remove(s) \/ RemoveAndAbort(s)
    \/ Abort

Spec == Init /\ [][Next]_contractVars

=============================================================================
