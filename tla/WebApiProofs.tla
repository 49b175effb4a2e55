---------------------------- MODULE WebApiProofs ----------------------------
(* Proofs about the web API: requests that meet on one server, for any     *)
(* number of requests, faults and crashes; and the clients of a cloud and  *)
(* the resets, for any number of greenlets, resets, faults and restarts,   *)
(* and for every configuration.                                            *)
EXTENDS ConcurrentRequests, CloudClients, FiniteSetTheorems, TLAPS

-----------------------------------------------------------------------------
(* Requests that meet.                                                     *)

(* The order of the tasks, one by one.                                     *)
LEMMA AfterIs ==
    /\ After["announce"] = "retrieve"
    /\ After["retrieve"] = "suspend"
    /\ After["suspend"] = "boot"
    /\ After["boot"] = "fip"
    /\ After["fip"] = "terminate"
    /\ After["terminate"] = "terminate"
BY DEF After

-----------------------------------------------------------------------------
(* Types.                                                                  *)

(* Every step keeps the types.                                             *)
LEMMA TypeStep ==
    ASSUME TypeOK, [Next]_vars
    PROVE  TypeOK'
<1>. USE FaultAssumption DEF TypeOK, Task, Over
<1>1. ASSUME NEW p \in Request, Post(p) PROVE TypeOK'
  BY <1>1 DEF Post, Becomes
<1>2. ASSUME NEW p \in Request, Announce(p) PROVE TypeOK'
  BY <1>2, AfterIs DEF Announce, Runs, Proceed
<1>3. ASSUME NEW p \in Request, Retrieve(p) PROVE TypeOK'
  BY <1>3, AfterIs DEF Retrieve, Runs, Proceed, Fail, Becomes
<1>4. ASSUME NEW p \in Request, SuspendRequest(p) PROVE TypeOK'
  BY <1>4 DEF SuspendRequest, Runs, Becomes, Fail
<1>5. ASSUME NEW p \in Request, SuspendObserved(p) PROVE TypeOK'
  BY <1>5, AfterIs DEF SuspendObserved, Proceed
<1>6. ASSUME NEW p \in Request, BootRequest(p) PROVE TypeOK'
  BY <1>6 DEF BootRequest, Runs, Becomes
<1>7. ASSUME NEW p \in Request, BootObserved(p) PROVE TypeOK'
  BY <1>7, AfterIs DEF BootObserved, Proceed
<1>8. ASSUME NEW p \in Request, RestoreFloatingIp(p) PROVE TypeOK'
  BY <1>8, AfterIs DEF RestoreFloatingIp, Runs, Proceed, Fail, Becomes
<1>9. ASSUME NEW p \in Request, TerminateRequest(p) PROVE TypeOK'
  BY <1>9 DEF TerminateRequest, Runs, Becomes, Fail
<1>10. ASSUME NEW p \in Request, ResumeRequest(p) PROVE TypeOK'
  BY <1>10 DEF ResumeRequest, Becomes
<1>11. ASSUME NEW p \in Request, ResumeObserved(p) PROVE TypeOK'
  BY <1>11 DEF ResumeObserved, Becomes
<1>12. ASSUME NEW p \in Request, WaitGivesUp(p) PROVE TypeOK'
  BY <1>12 DEF WaitGivesUp, Becomes, Fail
<1>13. ASSUME NEW p \in Request, Fault(p) PROVE TypeOK'
  BY <1>13 DEF Fault, Runs, Becomes, Fail
<1>14. ASSUME NEW p \in Request, DestinationNova(p) PROVE TypeOK'
  BY <1>14 DEF DestinationNova
<1>15. CASE SourceNova
  BY <1>15 DEF SourceNova, SrcMove
<1>16. CASE Crash
  BY <1>16 DEF Crash
<1>17. CASE UNCHANGED vars
  BY <1>17 DEF vars
<1>. QED
  BY <1>1, <1>2, <1>3, <1>4, <1>5, <1>6, <1>7, <1>8, <1>9, <1>10, <1>11, <1>12, <1>13, <1>14, <1>15, <1>16, <1>17 DEF Next, Progress

(* Requests, clouds and the address stay well typed, however many requests *)
(* there are.                                                              *)
THEOREM TypeCorrect == Spec => []TypeOK
<1>1. Init => TypeOK
  BY FaultAssumption DEF Init, TypeOK, Task, Over
<1>2. TypeOK /\ [Next]_vars => TypeOK'
  BY TypeStep
<1>. QED  BY <1>1, <1>2, PTL DEF Spec

-----------------------------------------------------------------------------
(* What a request knows without looking at the others: how far it is, what *)
(* became of its copy, and whether its rollback can have woken the server. *)

NotBooted(q) ==
    \/ mode[q] = "idle"
    \/ mode[q] \in {"run", "await"} /\ at[q] \in {"announce", "retrieve", "suspend"}
    \/ Runs(q, "boot")

Local(q) ==
    /\ mode[q] = "idle" => at[q] = "announce"
    /\ mode[q] = "await" => at[q] \in {"suspend", "boot"}
    /\ NotBooted(q) => dst[q] = "NONE"
    /\ mode[q] = "run" /\ at[q] \in {"fip", "terminate"} => dst[q] = "ACTIVE"
    /\ Runs(q, "terminate") => holder = q
    /\ holder = q => dst[q] = "ACTIVE"
    /\ q \in woke => mode[q] \in {"await_active", "failed", "lost"}

Orderly == \A q \in Request : Local(q)

(* Every step keeps what each request knows of itself.                     *)
LEMMA OrderlyStep ==
    ASSUME TypeOK, Orderly, [Next]_vars
    PROVE  Orderly'
<1>. USE DEF TypeOK, Task, Over, Orderly, Local, NotBooted, Runs, Nobody
<1>. USE RequestAssumption
<1>1. ASSUME NEW p \in Request, Post(p) PROVE Orderly'
  BY <1>1 DEF Post, Becomes
<1>2. ASSUME NEW p \in Request, Announce(p) PROVE Orderly'
  BY <1>2, AfterIs DEF Announce, Proceed
<1>3. ASSUME NEW p \in Request, Retrieve(p) PROVE Orderly'
  BY <1>3, AfterIs DEF Retrieve, Proceed, Fail, Becomes
<1>4. ASSUME NEW p \in Request, SuspendRequest(p) PROVE Orderly'
  BY <1>4 DEF SuspendRequest, Becomes, Fail
<1>5. ASSUME NEW p \in Request, SuspendObserved(p) PROVE Orderly'
  BY <1>5, AfterIs DEF SuspendObserved, Proceed
<1>6. ASSUME NEW p \in Request, BootRequest(p) PROVE Orderly'
  BY <1>6 DEF BootRequest, Becomes
<1>7. ASSUME NEW p \in Request, BootObserved(p) PROVE Orderly'
  BY <1>7, AfterIs DEF BootObserved, Proceed
<1>8. ASSUME NEW p \in Request, RestoreFloatingIp(p) PROVE Orderly'
  BY <1>8, AfterIs DEF RestoreFloatingIp, Proceed, Fail, Becomes
<1>9. ASSUME NEW p \in Request, TerminateRequest(p) PROVE Orderly'
  BY <1>9 DEF TerminateRequest, Becomes, Fail
<1>10. ASSUME NEW p \in Request, ResumeRequest(p) PROVE Orderly'
  BY <1>10 DEF ResumeRequest, Becomes
<1>11. ASSUME NEW p \in Request, ResumeObserved(p) PROVE Orderly'
  BY <1>11 DEF ResumeObserved, Becomes
<1>12. ASSUME NEW p \in Request, WaitGivesUp(p) PROVE Orderly'
  BY <1>12 DEF WaitGivesUp, Becomes, Fail
<1>13. ASSUME NEW p \in Request, Fault(p) PROVE Orderly'
  BY <1>13 DEF Fault, Becomes, Fail
<1>14. ASSUME NEW p \in Request, DestinationNova(p) PROVE Orderly'
  BY <1>14 DEF DestinationNova
<1>15. CASE SourceNova
  BY <1>15 DEF SourceNova, SrcMove
<1>16. CASE Crash
  BY <1>16 DEF Crash
<1>17. CASE UNCHANGED vars
  BY <1>17 DEF vars
<1>. QED
  BY <1>1, <1>2, <1>3, <1>4, <1>5, <1>6, <1>7, <1>8, <1>9, <1>10, <1>11, <1>12, <1>13, <1>14, <1>15, <1>16, <1>17 DEF Next, Progress

-----------------------------------------------------------------------------
(* The original.                                                           *)

Deleted == src \in {"DELETING", "GONE"} => holder # Nobody

(* Only a request that holds the address deletes the original.             *)
LEMMA DeletedStep ==
    ASSUME TypeOK, Orderly, Deleted, [Next]_vars
    PROVE  Deleted'
<1>. USE DEF TypeOK, Orderly, Local, Deleted, Nobody
<1>. USE RequestAssumption
<1>1. ASSUME NEW p \in Request, Post(p) PROVE Deleted'
  BY <1>1 DEF Post, Becomes
<1>2. ASSUME NEW p \in Request, Announce(p) PROVE Deleted'
  BY <1>2, AfterIs DEF Announce, Runs, Proceed
<1>3. ASSUME NEW p \in Request, Retrieve(p) PROVE Deleted'
  BY <1>3, AfterIs DEF Retrieve, Runs, Proceed, Fail, Becomes
<1>4. ASSUME NEW p \in Request, SuspendRequest(p) PROVE Deleted'
  BY <1>4 DEF SuspendRequest, Runs, Becomes, Fail
<1>5. ASSUME NEW p \in Request, SuspendObserved(p) PROVE Deleted'
  BY <1>5, AfterIs DEF SuspendObserved, Proceed
<1>6. ASSUME NEW p \in Request, BootRequest(p) PROVE Deleted'
  BY <1>6 DEF BootRequest, Runs, Becomes
<1>7. ASSUME NEW p \in Request, BootObserved(p) PROVE Deleted'
  BY <1>7, AfterIs DEF BootObserved, Proceed
<1>8. ASSUME NEW p \in Request, RestoreFloatingIp(p) PROVE Deleted'
  BY <1>8, AfterIs DEF RestoreFloatingIp, Runs, Proceed, Fail, Becomes
<1>9. ASSUME NEW p \in Request, TerminateRequest(p) PROVE Deleted'
  BY <1>9 DEF TerminateRequest, Runs, Becomes, Fail
<1>10. ASSUME NEW p \in Request, ResumeRequest(p) PROVE Deleted'
  BY <1>10 DEF ResumeRequest, Becomes
<1>11. ASSUME NEW p \in Request, ResumeObserved(p) PROVE Deleted'
  BY <1>11 DEF ResumeObserved, Becomes
<1>12. ASSUME NEW p \in Request, WaitGivesUp(p) PROVE Deleted'
  BY <1>12 DEF WaitGivesUp, Becomes, Fail
<1>13. ASSUME NEW p \in Request, Fault(p) PROVE Deleted'
  BY <1>13 DEF Fault, Runs, Becomes, Fail
<1>14. ASSUME NEW p \in Request, DestinationNova(p) PROVE Deleted'
  BY <1>14 DEF DestinationNova
<1>15. CASE SourceNova
  BY <1>15 DEF SourceNova, SrcMove
<1>16. CASE Crash
  BY <1>16 DEF Crash
<1>17. CASE UNCHANGED vars
  BY <1>17 DEF vars
<1>. QED
  BY <1>1, <1>2, <1>3, <1>4, <1>5, <1>6, <1>7, <1>8, <1>9, <1>10, <1>11, <1>12, <1>13, <1>14, <1>15, <1>16, <1>17 DEF Next, Progress

(* The suspension of q was accepted, and q still goes by it.               *)
Asleep(q) ==
    \/ mode[q] = "await" /\ at[q] \in {"suspend", "boot"}
    \/ mode[q] = "run" /\ at[q] \in {"boot", "fip", "terminate"}

Woken ==
    \A q \in Request :
        Asleep(q) /\ src \in {"ACTIVE", "RESUMING"} => \E p \in woke : p # q

(* Only a rollback wakes the server, and its own request goes on no more.  *)
LEMMA WokenStep ==
    ASSUME TypeOK, Orderly, Woken, [Next]_vars
    PROVE  Woken'
<1>. USE DEF TypeOK, Task, Orderly, Local, Woken, Asleep
<1>1. ASSUME NEW p \in Request, Post(p) PROVE Woken'
  BY <1>1 DEF Post, Becomes
<1>2. ASSUME NEW p \in Request, Announce(p) PROVE Woken'
  BY <1>2, AfterIs DEF Announce, Runs, Proceed
<1>3. ASSUME NEW p \in Request, Retrieve(p) PROVE Woken'
  BY <1>3, AfterIs DEF Retrieve, Runs, Proceed, Fail, Becomes
<1>4. ASSUME NEW p \in Request, SuspendRequest(p) PROVE Woken'
  BY <1>4 DEF SuspendRequest, Runs, Becomes, Fail
<1>5. ASSUME NEW p \in Request, SuspendObserved(p) PROVE Woken'
  BY <1>5, AfterIs DEF SuspendObserved, Proceed
<1>6. ASSUME NEW p \in Request, BootRequest(p) PROVE Woken'
  BY <1>6 DEF BootRequest, Runs, Becomes
<1>7. ASSUME NEW p \in Request, BootObserved(p) PROVE Woken'
  BY <1>7, AfterIs DEF BootObserved, Proceed
<1>8. ASSUME NEW p \in Request, RestoreFloatingIp(p) PROVE Woken'
  BY <1>8, AfterIs DEF RestoreFloatingIp, Runs, Proceed, Fail, Becomes
<1>9. ASSUME NEW p \in Request, TerminateRequest(p) PROVE Woken'
  BY <1>9 DEF TerminateRequest, Runs, Becomes, Fail
<1>10. ASSUME NEW p \in Request, ResumeRequest(p) PROVE Woken'
  BY <1>10 DEF ResumeRequest, Becomes
<1>11. ASSUME NEW p \in Request, ResumeObserved(p) PROVE Woken'
  BY <1>11 DEF ResumeObserved, Becomes
<1>12. ASSUME NEW p \in Request, WaitGivesUp(p) PROVE Woken'
  BY <1>12 DEF WaitGivesUp, Becomes, Fail
<1>13. ASSUME NEW p \in Request, Fault(p) PROVE Woken'
  BY <1>13 DEF Fault, Runs, Becomes, Fail
<1>14. ASSUME NEW p \in Request, DestinationNova(p) PROVE Woken'
  BY <1>14 DEF DestinationNova
<1>15. CASE SourceNova
  BY <1>15 DEF SourceNova, SrcMove
<1>16. CASE Crash
  BY <1>16 DEF Crash, Over
<1>17. CASE UNCHANGED vars
  BY <1>17 DEF vars
<1>. QED
  BY <1>1, <1>2, <1>3, <1>4, <1>5, <1>6, <1>7, <1>8, <1>9, <1>10, <1>11, <1>12, <1>13, <1>14, <1>15, <1>16, <1>17 DEF Next, Progress

-----------------------------------------------------------------------------
(* The copies.  Each stands for an accepted suspension, and after each but *)
(* the last of these a rollback has woken the server.                      *)

Awake == src \in {"ACTIVE", "RESUMING"}

Sleepers == {q \in Request : dst[q] # "NONE" \/ Asleep(q)}

Counted ==
    Cardinality(Sleepers) <= Cardinality(woke) + (IF Awake THEN 0 ELSE 1)

(* A step changes nothing of that, or puts the server to sleep for one     *)
(* more request, or wakes it by one more rollback.                         *)
Quiet ==
    /\ Sleepers' \subseteq Sleepers
    /\ woke' = woke
    /\ Awake' => Awake

Suspends ==
    /\ \E p \in Request : Sleepers' \subseteq Sleepers \cup {p}
    /\ woke' = woke
    /\ Awake /\ ~Awake'

Wakes ==
    /\ Sleepers' \subseteq Sleepers
    /\ \E p \in Request \ woke : woke' = woke \cup {p}
    /\ ~Awake

(* There are no other steps.                                               *)
LEMMA StepKinds ==
    ASSUME TypeOK, Orderly, [Next]_vars
    PROVE  Quiet \/ Suspends \/ Wakes
<1>. USE DEF TypeOK, Task, Orderly, Local, NotBooted, Sleepers, Asleep, Awake
<1>1. ASSUME NEW p \in Request, Post(p) PROVE Quiet \/ Suspends \/ Wakes
  BY <1>1 DEF Post, Becomes, Quiet
<1>2. ASSUME NEW p \in Request, Announce(p) PROVE Quiet \/ Suspends \/ Wakes
  BY <1>2, AfterIs DEF Announce, Runs, Proceed, Quiet
<1>3. ASSUME NEW p \in Request, Retrieve(p) PROVE Quiet \/ Suspends \/ Wakes
  BY <1>3, AfterIs DEF Retrieve, Runs, Proceed, Fail, Becomes, Quiet
<1>4. ASSUME NEW p \in Request, SuspendRequest(p) PROVE Quiet \/ Suspends \/ Wakes
  <2>1. CASE src = "ACTIVE"
    BY <1>4, <2>1 DEF SuspendRequest, Runs, Becomes, Suspends
  <2>2. CASE src # "ACTIVE"
    BY <1>4, <2>2 DEF SuspendRequest, Runs, Becomes, Fail, Quiet
  <2>. QED  BY <2>1, <2>2
<1>5. ASSUME NEW p \in Request, SuspendObserved(p) PROVE Quiet \/ Suspends \/ Wakes
  BY <1>5, AfterIs DEF SuspendObserved, Proceed, Quiet
<1>6. ASSUME NEW p \in Request, BootRequest(p) PROVE Quiet \/ Suspends \/ Wakes
  BY <1>6 DEF BootRequest, Runs, Becomes, Quiet
<1>7. ASSUME NEW p \in Request, BootObserved(p) PROVE Quiet \/ Suspends \/ Wakes
  BY <1>7, AfterIs DEF BootObserved, Proceed, Quiet
<1>8. ASSUME NEW p \in Request, RestoreFloatingIp(p) PROVE Quiet \/ Suspends \/ Wakes
  BY <1>8, AfterIs DEF RestoreFloatingIp, Runs, Proceed, Fail, Becomes, Quiet
<1>9. ASSUME NEW p \in Request, TerminateRequest(p) PROVE Quiet \/ Suspends \/ Wakes
  BY <1>9 DEF TerminateRequest, Runs, Becomes, Fail, Quiet
<1>10. ASSUME NEW p \in Request, ResumeRequest(p) PROVE Quiet \/ Suspends \/ Wakes
  <2>1. CASE src = "SUSPENDED"
    BY <1>10, <2>1 DEF ResumeRequest, Becomes, Wakes
  <2>2. CASE src # "SUSPENDED"
    BY <1>10, <2>2 DEF ResumeRequest, Becomes, Quiet
  <2>. QED  BY <2>1, <2>2
<1>11. ASSUME NEW p \in Request, ResumeObserved(p) PROVE Quiet \/ Suspends \/ Wakes
  BY <1>11 DEF ResumeObserved, Becomes, Quiet
<1>12. ASSUME NEW p \in Request, WaitGivesUp(p) PROVE Quiet \/ Suspends \/ Wakes
  BY <1>12 DEF WaitGivesUp, Becomes, Fail, Quiet
<1>13. ASSUME NEW p \in Request, Fault(p) PROVE Quiet \/ Suspends \/ Wakes
  <2>1. CASE mode[p] = "run" /\ at[p] = "suspend" /\ src' # src
    BY <1>13, <2>1 DEF Fault, Runs, Becomes, Fail, Suspends
  <2>2. CASE mode[p] = "revert" /\ src' # src
    BY <1>13, <2>2 DEF Fault, Runs, Becomes, Fail, Wakes
  <2>3. CASE src' = src \/ src' = "DELETING"
    BY <1>13, <2>3 DEF Fault, Runs, Becomes, Fail, Quiet
  <2>. QED  BY <1>13, <2>1, <2>2, <2>3 DEF Fault, Runs
<1>14. ASSUME NEW p \in Request, DestinationNova(p) PROVE Quiet \/ Suspends \/ Wakes
  BY <1>14 DEF DestinationNova, Quiet
<1>15. CASE SourceNova
  BY <1>15 DEF SourceNova, SrcMove, Quiet
<1>16. CASE Crash
  BY <1>16 DEF Crash, Over, Quiet
<1>17. CASE UNCHANGED vars
  BY <1>17 DEF vars, Quiet
<1>. QED
  BY <1>1, <1>2, <1>3, <1>4, <1>5, <1>6, <1>7, <1>8, <1>9, <1>10, <1>11, <1>12, <1>13, <1>14, <1>15, <1>16, <1>17 DEF Next, Progress

(* Copies and rollbacks stay in balance.                                   *)
LEMMA CountedStep ==
    ASSUME TypeOK, TypeOK', Orderly, Counted, [Next]_vars
    PROVE  Counted'
<1>1. /\ IsFiniteSet(Sleepers) /\ Sleepers \subseteq Request
      /\ IsFiniteSet(Sleepers') /\ IsFiniteSet(woke) /\ IsFiniteSet(woke')
  <2>1. Sleepers \subseteq Request /\ Sleepers' \subseteq Request
    BY DEF Sleepers
  <2>2. woke \subseteq Request /\ woke' \subseteq Request
    BY DEF TypeOK
  <2>. QED  BY <2>1, <2>2, RequestAssumption, FS_Subset
<1>2. /\ Cardinality(Sleepers) \in Nat /\ Cardinality(Sleepers') \in Nat
      /\ Cardinality(woke) \in Nat
  BY <1>1, FS_CardinalityType
<1>3. CASE Quiet
  <2>1. Cardinality(Sleepers') <= Cardinality(Sleepers)
    BY <1>1, <1>3, FS_Subset DEF Quiet
  <2>2. Cardinality(woke') = Cardinality(woke) /\ (Awake' => Awake)
    BY <1>3 DEF Quiet
  <2>. QED  BY <1>2, <2>1, <2>2 DEF Counted
<1>4. CASE Suspends
  <2>1. PICK p \in Request : Sleepers' \subseteq Sleepers \cup {p}
    BY <1>4 DEF Suspends
  <2>2. /\ IsFiniteSet(Sleepers \cup {p})
        /\ Cardinality(Sleepers \cup {p}) \in {Cardinality(Sleepers), Cardinality(Sleepers) + 1}
    BY <1>1, FS_AddElement
  <2>3. Cardinality(Sleepers') <= Cardinality(Sleepers \cup {p})
    BY <2>1, <2>2, FS_Subset
  <2>4. Cardinality(Sleepers') <= Cardinality(Sleepers) + 1
    BY <1>2, <2>2, <2>3
  <2>5. Cardinality(woke') = Cardinality(woke) /\ Awake /\ ~Awake'
    BY <1>4 DEF Suspends
  <2>. QED  BY <1>2, <2>4, <2>5 DEF Counted
<1>5. CASE Wakes
  <2>1. PICK p \in Request \ woke : woke' = woke \cup {p}
    BY <1>5 DEF Wakes
  <2>2. Cardinality(woke') = Cardinality(woke) + 1
    BY <1>1, <2>1, FS_AddElement
  <2>3. Cardinality(Sleepers') <= Cardinality(Sleepers)
    BY <1>1, <1>5, FS_Subset DEF Wakes
  <2>4. ~Awake
    BY <1>5 DEF Wakes
  <2>. QED  BY <1>2, <2>2, <2>3, <2>4 DEF Counted
<1>. QED  BY <1>3, <1>4, <1>5, StepKinds

-----------------------------------------------------------------------------
IInv == TypeOK /\ Orderly /\ Deleted /\ Woken /\ Counted

(* The inductive invariant: what each request knows of itself, and how the *)
(* server's status accounts for all of them.                               *)
THEOREM Invariant == Spec => []IInv
<1>1. Init => IInv
  <2> SUFFICES ASSUME Init PROVE IInv
    OBVIOUS
  <2>1. TypeOK
    BY FaultAssumption DEF Init, TypeOK, Task, Over
  <2>2. Orderly /\ Deleted /\ Woken
    BY RequestAssumption DEF Init, Orderly, Local, NotBooted, Runs, Nobody, Deleted, Woken, Asleep
  <2>3. Sleepers = {} /\ woke = {} /\ Awake
    BY DEF Init, Sleepers, Asleep, Awake
  <2>4. Counted
    BY <2>3, FS_EmptySet DEF Counted
  <2>. QED  BY <2>1, <2>2, <2>4 DEF IInv
<1>2. IInv /\ [Next]_vars => IInv'
  BY TypeStep, OrderlyStep, DeletedStep, WokenStep, CountedStep DEF IInv
<1>. QED  BY <1>1, <1>2, PTL DEF Spec

(* However many requests meet, fail and crash, the original is deleted only*)
(* when a copy runs that has its floating ip.                              *)
THEOREM NoServerIsLost == Spec => []NoServerLost
<1>1. IInv => NoServerLost
  BY DEF IInv, TypeOK, Orderly, Local, Deleted, NoServerLost
<1>. QED  BY <1>1, Invariant, PTL

(* There are never more copies than rollbacks that woke the server, and one*)
(* more.                                                                   *)
THEOREM CopiesAreCounted == Spec => []CopiesCounted
<1>1. IInv => CopiesCounted
  <2> SUFFICES ASSUME IInv PROVE CopiesCounted
    OBVIOUS
  <2> DEFINE copies == {q \in Request : dst[q] # "NONE"}
  <2>1. copies \subseteq Sleepers /\ Sleepers \subseteq Request /\ woke \subseteq Request
    BY DEF Sleepers, IInv, TypeOK
  <2>2. IsFiniteSet(Sleepers) /\ IsFiniteSet(woke) /\ IsFiniteSet(copies)
    BY <2>1, RequestAssumption, FS_Subset
  <2>3. Cardinality(copies) <= Cardinality(Sleepers)
    BY <2>1, <2>2, FS_Subset
  <2>4. /\ Cardinality(copies) \in Nat /\ Cardinality(Sleepers) \in Nat
        /\ Cardinality(woke) \in Nat
    BY <2>2, FS_CardinalityType
  <2>5. Cardinality(Sleepers) <= Cardinality(woke) + 1
    BY <2>4 DEF IInv, Counted
  <2>. QED  BY <2>3, <2>4, <2>5 DEF CopiesCounted
<1>. QED  BY <1>1, Invariant, PTL

(* A server runs beside a copy that is being handed over to only when the  *)
(* rollback of another request has woken it.                               *)
THEOREM OnlyOthersWake == Spec => []WokenByAnother
<1>1. IInv => WokenByAnother
  BY DEF IInv, TypeOK, Task, Orderly, Local, NotBooted, Runs, Woken, Asleep, WokenByAnother
<1>. QED  BY <1>1, Invariant, PTL

-----------------------------------------------------------------------------
(* The clients of a cloud.                                                 *)

(* As much of the types as the proof needs.                                *)
Types ==
    /\ pc \in [Greenlet -> Connecting \cup {"idle", "start", "work", "reset", "done",
                                            "failed", "lost"}]
    /\ own \in [Greenlet -> Nat]
    /\ stored \in Nat
    /\ made \in Nat
    /\ raced \in BOOLEAN

(* Every step keeps the types.                                             *)
LEMMA TypesStep ==
    ASSUME Types, [ClientsNext]_clientVars
    PROVE  Types'
<1>. USE DEF Types, Connecting
<1>1. ASSUME NEW h \in Greenlet, Arrive(h) PROVE Types'
  BY <1>1 DEF Arrive, Goto
<1>2. ASSUME NEW h \in Greenlet, Acquire(h) PROVE Types'
  BY <1>2 DEF Acquire, Goto
<1>3. ASSUME NEW h \in Greenlet, Lookup(h) PROVE Types'
  BY <1>3 DEF Lookup, Goto
<1>4. ASSUME NEW h \in Greenlet, Make1st(h) PROVE Types'
  BY <1>4 DEF Make1st, Goto
<1>5. ASSUME NEW h \in Greenlet, Check(h) PROVE Types'
  BY <1>5 DEF Check, Goto
<1>6. ASSUME NEW h \in Greenlet, Remake(h) PROVE Types'
  BY <1>6 DEF Remake, Goto
<1>7. ASSUME NEW h \in Greenlet, ConnectFails(h) PROVE Types'
  BY <1>7 DEF ConnectFails, Goto
<1>8. ASSUME NEW h \in Greenlet, UseClient(h) PROVE Types'
  BY <1>8 DEF UseClient, Goto
<1>9. ASSUME NEW h \in Greenlet, StartReset(h) PROVE Types'
  BY <1>9 DEF StartReset, Goto
<1>10. ASSUME NEW h \in Greenlet, Working(h) PROVE Types'
  BY <1>10 DEF Working, cvars
<1>11. ASSUME NEW h \in Greenlet, Complete(h) PROVE Types'
  BY <1>11 DEF Complete, Goto
<1>12. ASSUME NEW h \in Greenlet, Faulty(h) PROVE Types'
  BY <1>12 DEF Faulty, cvars
<1>13. CASE ProgramRestarts
  BY <1>13 DEF ProgramRestarts
<1>14. CASE (NovaRemoves \/ CinderRemoves) /\ UNCHANGED cvars
  BY <1>14 DEF cvars
<1>15. CASE UNCHANGED clientVars
  BY <1>15 DEF clientVars, cvars
<1>. QED
  BY <1>1, <1>2, <1>3, <1>4, <1>5, <1>6, <1>7, <1>8, <1>9, <1>10, <1>11, <1>12, <1>13, <1>14, <1>15 DEF ClientsNext, GoOn

(* Without a race, at most one greenlet makes the first client, while none *)
(* is stored, and from then on there is only that one.                     *)
OneMaker ==
    ~raced =>
        /\ made <= 1 /\ stored = made
        /\ \A g \in Greenlet :
            /\ pc[g] = "make" => made = 0 /\ \A h \in Greenlet : pc[h] = "make" => h = g
            /\ pc[g] \in {"check", "remake", "work", "reset"} => own[g] = 1 /\ made = 1

(* Every step keeps to one maker, unless it is the race.                   *)
LEMMA OneMakerStep ==
    ASSUME Types, OneMaker, [ClientsNext]_clientVars
    PROVE  OneMaker'
<1>. USE DEF Types, OneMaker
<1>1. ASSUME NEW h \in Greenlet, Arrive(h) PROVE OneMaker'
  BY <1>1 DEF Arrive, Goto
<1>2. ASSUME NEW h \in Greenlet, Acquire(h) PROVE OneMaker'
  BY <1>2 DEF Acquire, Goto
<1>3. ASSUME NEW h \in Greenlet, Lookup(h) PROVE OneMaker'
  <2>1. SUFFICES ASSUME ~raced' PROVE OneMaker'
    BY DEF OneMaker
  <2>2. ~raced /\ ~(stored = 0 /\ \E g \in Greenlet \ {h} : pc[g] = "make")
    BY <1>3, <2>1 DEF Lookup
  <2>3. stored = 0 => \A g \in Greenlet : pc[g] = "make" => g = h
    BY <2>2
  <2>. QED  BY <1>3, <2>2, <2>3 DEF Lookup, Goto
<1>4. ASSUME NEW h \in Greenlet, Make1st(h) PROVE OneMaker'
  BY <1>4 DEF Make1st, Goto
<1>5. ASSUME NEW h \in Greenlet, Check(h) PROVE OneMaker'
  BY <1>5 DEF Check, Goto
<1>6. ASSUME NEW h \in Greenlet, Remake(h) PROVE OneMaker'
  BY <1>6 DEF Remake, Goto
<1>7. ASSUME NEW h \in Greenlet, ConnectFails(h) PROVE OneMaker'
  BY <1>7 DEF ConnectFails, Goto
<1>8. ASSUME NEW h \in Greenlet, UseClient(h) PROVE OneMaker'
  BY <1>8 DEF UseClient, Goto
<1>9. ASSUME NEW h \in Greenlet, StartReset(h) PROVE OneMaker'
  BY <1>9 DEF StartReset, Goto
<1>10. ASSUME NEW h \in Greenlet, Working(h) PROVE OneMaker'
  BY <1>10 DEF Working, cvars
<1>11. ASSUME NEW h \in Greenlet, Complete(h) PROVE OneMaker'
  BY <1>11 DEF Complete, Goto
<1>12. ASSUME NEW h \in Greenlet, Faulty(h) PROVE OneMaker'
  BY <1>12 DEF Faulty, cvars
<1>13. CASE ProgramRestarts
  BY <1>13 DEF ProgramRestarts
<1>14. CASE (NovaRemoves \/ CinderRemoves) /\ UNCHANGED cvars
  BY <1>14 DEF cvars
<1>15. CASE UNCHANGED clientVars
  BY <1>15 DEF clientVars, cvars
<1>. QED
  BY <1>1, <1>2, <1>3, <1>4, <1>5, <1>6, <1>7, <1>8, <1>9, <1>10, <1>11, <1>12, <1>13, <1>14, <1>15 DEF ClientsNext, GoOn

(* The inductive invariant: who may make a client, and which there is.     *)
THEOREM ClientsInvariant == ClientsSpec => [](Types /\ OneMaker)
<1>1. ClientsInit => Types /\ OneMaker
  <2> SUFFICES ASSUME ClientsInit PROVE Types /\ OneMaker
    OBVIOUS
  <2>1. Types
    BY DEF ClientsInit, Types, Connecting
  <2>2. made = 0 /\ stored = 0 /\ \A g \in Greenlet : pc[g] = "idle"
    BY DEF ClientsInit
  <2>3. OneMaker
    BY <2>2 DEF OneMaker
  <2>. QED  BY <2>1, <2>3
<1>2. Types /\ OneMaker /\ [ClientsNext]_clientVars => (Types /\ OneMaker)'
  BY TypesStep, OneMakerStep
<1>. QED  BY <1>1, <1>2, PTL DEF ClientsSpec

(* However often clients break and are replaced, all greenlets use the     *)
(* identity that was made first.                                           *)
THEOREM IdentityIsKept == ClientsSpec => []OneIdentity
<1>1. Types /\ OneMaker => OneIdentity
  BY DEF Types, OneMaker, OneIdentity
<1>. QED  BY <1>1, ClientsInvariant, PTL

-----------------------------------------------------------------------------
(* The resets of a cloud.                                                  *)

(* The stages, one by one.                                                 *)
LEMMA StagesAre == Len(CleanupStages) = 14 /\ Len(Stages) = 25
BY DEF Stages, CleanupStages, SetupStages

(* What each of them is about.                                             *)
LEMMA KindsAre ==
    /\ Stages[1] = "server" /\ Stages[2] = "flavor" /\ Stages[3] = "volume"
    /\ Stages[4] = "image" /\ Stages[5] = "secgroup" /\ Stages[6] = "fip"
    /\ Stages[7] = "port" /\ Stages[8] = "subnet" /\ Stages[9] = "qnet"
    /\ Stages[10] = "network" /\ Stages[11] = "user" /\ Stages[12] = "role"
    /\ Stages[13] = "tenant" /\ Stages[14] = "service"
    /\ Stages[15] = "plan" /\ Stages[16] = "image" /\ Stages[17] = "flavor"
    /\ Stages[18] = "network" /\ Stages[19] = "fip" /\ Stages[20] = "tenant"
    /\ Stages[21] = "admin" /\ Stages[22] = "user" /\ Stages[23] = "volume"
    /\ Stages[24] = "server" /\ Stages[25] = "address"
BY DEF Stages, CleanupStages, SetupStages

(* Where the guards of the steps hold.                                     *)
LEMMA WhereIs ==
    ASSUME stage \in 0..25
    PROVE  /\ Cleaning <=> stage \in 1..14
           /\ At("plan") <=> stage = 15
           /\ At("image") <=> stage = 16
           /\ At("flavor") <=> stage = 17
           /\ At("network") <=> stage = 18
           /\ At("fip") <=> stage = 19
           /\ At("tenant") <=> stage = 20
           /\ At("admin") <=> stage = 21
           /\ At("user") <=> stage = 22
           /\ At("volume") <=> stage = 23
           /\ At("server") <=> stage = 24
           /\ At("address") <=> stage = 25
<1>1. Cleaning <=> stage \in 1..14
  BY StagesAre DEF Cleaning
<1>2. \A s : At(s) <=> stage \in 15..25 /\ Stages[stage] = s
  BY StagesAre DEF At
<1>3. stage \in 15..25 => stage \in {15, 16, 17, 18, 19, 20, 21, 22, 23, 24, 25}
  OBVIOUS
<1>. QED  BY <1>1, <1>2, <1>3, KindsAre

(* Going on to the next stage.                                             *)
LEMMA AdvanceIs ==
    ASSUME stage \in 1..25, Advance
    PROVE  /\ stage' = IF stage = 25 \/ (stage = 14 /\ ~config.setup)
                       THEN 0 ELSE stage + 1
           /\ stage' \in 1..14 =>
                 todo' = {r \in cloud : r.kind = Stages[stage'] /\ Doomed(r)}
           /\ stage' \notin 1..14 => todo' = {}
BY StagesAre DEF Advance, Listed


(* Where a reset is, and what it may be working on.                        *)
Places ==
    /\ stage # 0 => resets > 0 /\ why = "none"
    /\ why # "none" => resets > 0
    /\ \A r \in going \cup waiting : r.kind = "server"
    /\ \A r \in deleting : r.kind = "volume"
    /\ \A r \in todo : Cleaning /\ r.kind = Stages[stage]
    /\ waiting \subseteq todo
    /\ Cleaning => config.cleanup
    /\ config.events = "log" => stage <= 16
    /\ config.network = "unknown" => stage <= 15
    /\ ref <= resets

(* What cleanup is done with is gone, and setup makes one kind after the   *)
(* other.                                                                  *)
Leftovers ==
    /\ Cleaning => \A r \in cloud \ deleting :
          Doomed(r) => r \in todo \/ \E j \in (stage + 1)..14 : r.kind = Stages[j]
    /\ stage > 14 /\ config.cleanup => \A r \in cloud \ deleting :
          Doomed(r) => r.by = resets /\ \E j \in 15..(stage - 1) : r.kind = Stages[j]
    /\ stage = 0 /\ resets > 0 /\ why = "none" =>
          config.cleanup /\ \A r \in cloud \ deleting : Doomed(r) => r.by = resets

(* What the servers of the workloads refer to.                             *)
Planned ==
    /\ stage > 16 => \E r \in cloud : r.kind = "image" /\ r.name = Given(config.images)
    /\ stage > 17 => \E r \in cloud : r.kind = "flavor" /\ r.name = Given(config.images)
    /\ stage > 15 => ref = resets \/ config.tenants = "given"

(* What is known as long as no reset came before: only a volume that was   *)
(* being deleted at first may go by itself.                                *)
FirstReset ==
    /\ resets = 0 => going = {} /\ cloud \subseteq UNION World
    /\ resets = 1 /\ stage # 0 =>
          /\ going \subseteq waiting
          /\ todo \subseteq UNION World
          /\ \A r \in todo \ waiting : r \in cloud \/ r.kind = "volume"
          /\ \A r \in cloud :
                r \in UNION World \/ \E j \in 15..(stage - 1) : r.kind = Stages[j]

Networks == \A r \in cloud \cup todo : r.kind = "qnet" => r \in UNION World

ResetInv ==
    /\ ManagementTypeOK
    /\ Places
    /\ Leftovers
    /\ Planned
    /\ FirstReset
    /\ Networks
    /\ ResetFailuresExplained

-----------------------------------------------------------------------------
(* The steps, as far as the cloud and the reset are concerned.             *)

(* A greenlet that does not reset anything may count an error.             *)
Unseen ==
    /\ UNCHANGED <<config, cloud, going, deleting, stage, todo, waiting, resets, ref, why>>
    /\ errors' \in {errors, errors + 1}
    /\ errors' # errors => errors < MaxErrors

(* There are no other steps.                                               *)
LEMMA ResetSteps ==
    ASSUME [ClientsNext]_clientVars
    PROVE  \/ BeginReset \/ ResetStep \/ RequestFails \/ Restart
           \/ NovaRemoves \/ CinderRemoves \/ Unseen
<1>1. ASSUME NEW g \in Greenlet,
             \/ Arrive(g) \/ Acquire(g) \/ Lookup(g) \/ Make1st(g) \/ Remake(g)
             \/ UseClient(g) \/ Complete(g)
      PROVE  Unseen
  BY <1>1
     DEF Arrive, Acquire, Lookup, Make1st, Remake, UseClient, Complete, Unseen, mvars
<1>2. ASSUME NEW g \in Greenlet, Check(g) \/ ConnectFails(g) PROVE Unseen
  BY <1>2 DEF Check, ConnectFails, Unseen
<1>3. ASSUME NEW g \in Greenlet, StartReset(g) PROVE BeginReset
  BY <1>3 DEF StartReset
<1>4. ASSUME NEW g \in Greenlet, Working(g) PROVE ResetStep
  BY <1>4 DEF Working
<1>5. ASSUME NEW g \in Greenlet, Faulty(g) PROVE RequestFails
  BY <1>5 DEF Faulty
<1>6. CASE ProgramRestarts
  BY <1>6 DEF ProgramRestarts
<1>7. CASE UNCHANGED clientVars
  BY <1>7 DEF clientVars, mvars, Unseen
<1>. QED
  BY <1>1, <1>2, <1>3, <1>4, <1>5, <1>6, <1>7 DEF ClientsNext, GoOn

(* The reset ends where it is, and says why.                               *)
Falls ==
    /\ stage # 0 /\ stage' = 0 /\ todo' = {} /\ waiting' = {}
    /\ why' \in Cause \ {"none"}
    /\ cloud' \subseteq Resource /\ going \subseteq cloud' /\ deleting' \subseteq cloud'
    /\ \A r \in deleting' : r.kind = "volume"
    /\ \A r \in cloud' : r \in cloud \/ r.kind # "qnet"
    /\ UNCHANGED <<config, going, resets>>
    /\ ref' \in 0..resets
    /\ errors' \in 0..MaxErrors

(* Something of the cloud is removed, or nova or cinder is asked to.       *)
Shrinks ==
    /\ UNCHANGED <<config, stage, resets, ref, why, errors>>
    /\ cloud' \subseteq cloud /\ going' \subseteq cloud' /\ deleting' \subseteq cloud'
    /\ deleting \cap cloud' \subseteq deleting'
    /\ \A r \in going' \cup waiting' : r.kind = "server"
    /\ \A r \in deleting' : r.kind = "volume"
    /\ resets = 0 => going' = {}
    /\ todo' \subseteq todo /\ waiting' \subseteq todo'
    /\ \A r \in todo \ todo' : r \notin cloud' \/ r \in deleting'
    /\ \A r \in cloud \ cloud' : r \in todo \/ r.kind \in {"server", "volume"}
    /\ resets = 1 /\ stage # 0 =>
          /\ going' \subseteq waiting'
          /\ \A r \in todo' \ waiting' : r \in cloud' \/ r.kind = "volume"

(* The reset is done with a kind, of which setup makes one.                *)
GoesOn ==
    /\ stage # 0 /\ Advance /\ todo = {}
    /\ UNCHANGED <<config, going, deleting, waiting, resets, why, errors>>
    /\ config.events = "log" => stage < 16
    /\ config.network = "unknown" => stage < 15
    /\ \/ /\ cloud' = cloud
          /\ stage \notin {16, 17}
       \/ /\ stage > 15
          /\ Stages[stage] \in MadeHere \cup {"server"}
          /\ cloud' = cloud \cup {New(Stages[stage])}
    /\ ref' \in 0..resets
    /\ IF stage = 15 THEN ref' = resets \/ config.tenants = "given" ELSE ref' = ref

Rests ==
    /\ UNCHANGED <<config, cloud, going, deleting, stage, todo, waiting, resets, why>>
    /\ ref' = ref \/ (stage = 0 /\ ref' = 0)
    /\ errors' \in 0..MaxErrors

(* What a name is made of.                                                 *)
LEMMA NewIs ==
    ASSUME ManagementTypeOK, resets > 0, NEW kind \in MadeHere \cup {"server"}
    PROVE  New(kind) \in Resource
<1>1. resets \in 1..MaxResets /\ 1 \in 1..MaxResets
  BY ManagementAssumption DEF ManagementTypeOK
<1>2. kind \in {CleanupStages[i] : i \in 1..Len(CleanupStages)}
  <2>1. /\ CleanupStages[1] = "server" /\ CleanupStages[2] = "flavor"
        /\ CleanupStages[3] = "volume" /\ CleanupStages[4] = "image"
        /\ CleanupStages[6] = "fip" /\ CleanupStages[10] = "network"
        /\ CleanupStages[11] = "user" /\ CleanupStages[13] = "tenant"
    BY DEF CleanupStages
  <2>. QED  BY <2>1, StagesAre DEF MadeHere
<1>3. \A how : Given(how) \in Name
  BY <1>1 DEF Given, Name
<1>4. NameOf(kind) \in Name
  BY <1>1, <1>3 DEF NameOf, Name
<1>5. resets \in 0..MaxResets
  BY DEF ManagementTypeOK
<1>. QED  BY <1>2, <1>4, <1>5 DEF New, Resource

(* The steps of cleanup.                                                   *)
LEMMA CleanupKinds ==
    ASSUME ManagementTypeOK, Places, FirstReset,
           \/ NextKind \/ ServerIsGone \/ ServerStays \/ NovaRemoves \/ CinderRemoves
           \/ \E r \in todo : Remove(r) \/ RemoveVolume(r) \/ RemoveServer(r)
    PROVE  Falls \/ Shrinks \/ GoesOn
<1>1. /\ stage \in 0..25 /\ (Cleaning <=> stage \in 1..14)
      /\ resets \in Nat /\ ref \in 0..resets /\ errors \in 0..MaxErrors
      /\ MaxErrors \in Nat
  BY StagesAre, WhereIs, ManagementAssumption DEF ManagementTypeOK, Places
<1>2. /\ going \subseteq cloud /\ cloud \subseteq Resource /\ deleting \subseteq cloud
      /\ \A r \in going \cup waiting : r.kind = "server"
      /\ \A r \in deleting : r.kind = "volume"
      /\ resets = 0 => going = {}
      /\ waiting \subseteq todo
      /\ \A r \in todo : stage \in 1..14
      /\ stage # 0 => resets > 0
  BY <1>1 DEF ManagementTypeOK, Places, FirstReset
<1>3. ASSUME NextKind PROVE GoesOn
  BY <1>1, <1>2, <1>3 DEF NextKind, GoesOn
<1>4. ASSUME NEW r \in todo, Remove(r) PROVE Falls \/ Shrinks
  <2>1. CASE UNCHANGED stage
    <3>1. /\ cloud' = cloud \ {r} /\ todo' = todo \ {r} /\ waiting' = waiting
          /\ r.kind \notin {"server", "volume"}
          /\ UNCHANGED <<config, stage, resets, ref, why, errors, going, deleting>>
      BY <1>1, <1>2, <1>4, <2>1 DEF Remove, Abort
    <3>2. r \notin going \cup waiting \cup deleting
      BY <3>1 DEF Places
    <3>. QED  BY <1>1, <1>2, <3>1, <3>2 DEF Shrinks, FirstReset
  <2>2. CASE stage' # stage
    <3>1. \E c \in Cause \ {"none"} : Abort(c)
      BY <1>4, <2>2 DEF Remove, Emitted, Cause
    <3>2. /\ cloud' = cloud \ {r} /\ r.kind \notin {"server", "volume"} /\ stage # 0
          /\ UNCHANGED <<config, resets, ref, errors, going, deleting>>
      BY <1>1, <1>4 DEF Remove
    <3>. QED  BY <1>1, <1>2, <3>1, <3>2 DEF Falls, Abort
  <2>. QED  BY <2>1, <2>2
<1>5. ASSUME NEW r \in todo, RemoveServer(r) PROVE Falls \/ Shrinks
  <2>1. CASE r \in cloud
    BY <1>1, <1>2, <1>5, <2>1 DEF RemoveServer, Shrinks, FirstReset
  <2>2. CASE r \notin cloud
    BY <1>1, <1>2, <1>5, <2>2 DEF RemoveServer, Falls, Abort, Cause
  <2>. QED  BY <2>1, <2>2
<1>6. ASSUME ServerIsGone PROVE Falls \/ Shrinks
  <2>1. CASE Emitted("none") = "none"
    BY <1>1, <1>2, <1>6, <2>1 DEF ServerIsGone, Shrinks, FirstReset
  <2>2. CASE Emitted("none") # "none"
    BY <1>1, <1>2, <1>6, <2>2 DEF ServerIsGone, Falls, Abort, Cause
  <2>. QED  BY <2>1, <2>2
<1>7. ASSUME ServerStays PROVE Falls
  BY <1>1, <1>2, <1>7 DEF ServerStays, Falls, Abort, Cause
<1>8. ASSUME NovaRemoves PROVE Shrinks
  <2>1. PICK r \in going : cloud' = cloud \ {r} /\ going' = going \ {r}
    BY <1>8 DEF NovaRemoves
  <2>2. UNCHANGED <<config, deleting, stage, todo, waiting, resets, ref, why, errors>>
    BY <1>8 DEF NovaRemoves
  <2>3. r.kind = "server" /\ r \notin deleting
    BY <1>2, <2>1
  <2>4. resets = 1 /\ stage # 0 =>
            /\ going' \subseteq waiting'
            /\ \A q \in todo' \ waiting' : q \in cloud' \/ q.kind = "volume"
    BY <2>1, <2>2 DEF FirstReset
  <2>. QED  BY <1>1, <1>2, <2>1, <2>2, <2>3, <2>4 DEF Shrinks
<1>9. ASSUME CinderRemoves PROVE Shrinks
  <2>1. PICK r \in deleting : cloud' = cloud \ {r} /\ deleting' = deleting \ {r}
    BY <1>9 DEF CinderRemoves
  <2>2. UNCHANGED <<config, going, stage, todo, waiting, resets, ref, why, errors>>
    BY <1>9 DEF CinderRemoves
  <2>3. r.kind = "volume" /\ r \notin going
    BY <1>2, <2>1
  <2>4. resets = 1 /\ stage # 0 =>
            /\ going' \subseteq waiting'
            /\ \A q \in todo' \ waiting' : q \in cloud' \/ q.kind = "volume"
    BY <2>1, <2>2, <2>3 DEF FirstReset
  <2>. QED  BY <1>1, <1>2, <2>1, <2>2, <2>3, <2>4 DEF Shrinks
<1>10. ASSUME NEW r \in todo, RemoveVolume(r) PROVE Falls \/ Shrinks
  <2>1. /\ r.kind = "volume" /\ stage # 0
        /\ UNCHANGED <<config, cloud, going, resets, ref, errors>>
    BY <1>1, <1>10 DEF RemoveVolume
  <2>2. CASE /\ r \in cloud /\ deleting' = deleting \cup {r}
             /\ todo' = todo \ {r} /\ UNCHANGED <<stage, waiting, why>>
    BY <1>1, <1>2, <2>1, <2>2 DEF Shrinks, FirstReset
  <2>3. CASE r \in cloud /\ deleting' = deleting \cup {r} /\ Abort("emit")
    BY <1>1, <1>2, <2>1, <2>3 DEF Falls, Abort, Cause
  <2>4. CASE UNCHANGED deleting /\ Abort("volume")
    BY <1>1, <1>2, <2>1, <2>4 DEF Falls, Abort, Cause
  <2>. QED  BY <1>10, <2>2, <2>3, <2>4 DEF RemoveVolume
<1>. QED  BY <1>3, <1>4, <1>5, <1>6, <1>7, <1>8, <1>9, <1>10

(* The steps of setup.                                                     *)
LEMMA SetupKinds ==
    ASSUME ManagementTypeOK, Places,
           PlanSetup \/ MakeOne \/ MakeNone \/ SetupServer \/ SetupRest
    PROVE  Falls \/ GoesOn
<1>1. /\ stage \in 0..25 /\ (Cleaning <=> stage \in 1..14)
      /\ resets \in Nat /\ ref \in 0..resets /\ errors \in 0..MaxErrors
      /\ MaxErrors \in Nat
  BY StagesAre, WhereIs, ManagementAssumption DEF ManagementTypeOK, Places
<1>2. /\ going \subseteq cloud /\ cloud \subseteq Resource /\ deleting \subseteq cloud
      /\ \A r \in deleting : r.kind = "volume"
      /\ stage > 14 => todo = {}
      /\ stage # 0 => resets > 0
      /\ config.events = "log" => stage <= 16
      /\ config.network = "unknown" => stage <= 15
  BY <1>1 DEF ManagementTypeOK, Places
<1>3. ASSUME PlanSetup PROVE Falls \/ GoesOn
  <2>1. stage = 15 /\ UNCHANGED <<config, cloud, going, deleting, resets, errors>>
    BY <1>1, <1>3, WhereIs DEF PlanSetup
  <2>2. ref' \in 0..resets /\ (ref' = resets \/ config.tenants = "given")
    BY <1>1, <1>3 DEF PlanSetup
  <2>3. CASE config.network = "unknown"
    BY <1>1, <1>2, <1>3, <2>1, <2>2, <2>3 DEF PlanSetup, Falls, Abort, Cause
  <2>4. CASE config.network # "unknown"
    BY <1>1, <1>2, <1>3, <2>1, <2>2, <2>4 DEF PlanSetup, GoesOn
  <2>. QED  BY <2>3, <2>4
<1>4. ASSUME NEW kind \in MadeHere, Make(kind) PROVE Falls \/ GoesOn
  <2>1. /\ stage \in 15..25 /\ Stages[stage] = kind /\ stage # 15
        /\ UNCHANGED <<config, going, deleting, resets, ref, errors>>
    BY <1>1, <1>4, StagesAre, KindsAre DEF Make, At, MadeHere
  <2>2. New(kind) \in Resource /\ New(kind).kind = kind
    BY <1>2, <2>1, NewIs DEF New
  <2>3. CASE Refusal(kind) # "none"
    <3>1. Abort(Refusal(kind)) /\ UNCHANGED cloud
      BY <1>4, <2>3 DEF Make
    <3>2. Refusal(kind) \in Cause \ {"none"}
      BY <2>3 DEF Refusal, Cause
    <3>. QED  BY <1>1, <1>2, <2>1, <3>1, <3>2 DEF Falls, Abort
  <2>4. CASE Refusal(kind) = "none" /\ Emitted("none") = "none"
    <3>1. cloud' = cloud \cup {New(kind)} /\ Advance /\ UNCHANGED <<waiting, why>>
      BY <1>4, <2>4 DEF Make
    <3>2. config.events # "log"
      BY <2>4 DEF Emitted
    <3>. QED  BY <1>1, <1>2, <2>1, <3>1, <3>2 DEF GoesOn
  <2>5. CASE Refusal(kind) = "none" /\ Emitted("none") # "none"
    <3>1. cloud' = cloud \cup {New(kind)} /\ Abort("emit")
      BY <1>4, <2>5 DEF Make
    <3>2. kind # "qnet"
      BY DEF MadeHere
    <3>. QED  BY <1>1, <1>2, <2>1, <2>2, <3>1, <3>2 DEF Falls, Abort, Cause
  <2>. QED  BY <2>3, <2>4, <2>5
<1>5. ASSUME MakeNone PROVE GoesOn
  <2>1. stage \in {18, 23}
    BY <1>1, <1>5, WhereIs DEF MakeNone
  <2>. QED  BY <1>1, <1>2, <1>5, <2>1 DEF MakeNone, GoesOn
<1>6. ASSUME SetupServer PROVE Falls \/ GoesOn
  <2>1. stage = 24 /\ UNCHANGED <<config, going, deleting, resets, ref, errors>>
    BY <1>1, <1>6, WhereIs DEF SetupServer
  <2>2. CASE cloud' = cloud \cup {New("server")} /\ Advance /\ UNCHANGED <<waiting, why>>
    BY <1>1, <1>2, <2>1, <2>2, KindsAre DEF GoesOn
  <2>3. CASE Abort("stale") /\ UNCHANGED cloud
    BY <1>1, <1>2, <2>1, <2>3 DEF Falls, Abort, Cause
  <2>. QED  BY <1>6, <2>2, <2>3 DEF SetupServer
<1>7. ASSUME SetupRest PROVE Falls \/ GoesOn
  <2>1. stage \in {21, 25} /\ UNCHANGED <<config, cloud, going, deleting, resets, ref, errors>>
    BY <1>1, <1>7, WhereIs DEF SetupRest
  <2>2. CASE Abort("emit")
    BY <1>1, <1>2, <2>1, <2>2 DEF Falls, Abort, Cause
  <2>3. CASE Advance /\ UNCHANGED <<waiting, why>>
    BY <1>1, <1>2, <2>1, <2>3 DEF GoesOn
  <2>. QED  BY <1>7, <2>2, <2>3 DEF SetupRest
<1>. QED  BY <1>3, <1>4, <1>5, <1>6, <1>7 DEF MakeOne

(* What may happen at any time.                                            *)
LEMMA OtherKinds ==
    ASSUME ManagementTypeOK, Places,
           RequestFails \/ Restart \/ Unseen
    PROVE  Falls \/ Rests
<1>1. /\ stage \in 0..25
      /\ resets \in Nat /\ ref \in 0..resets /\ errors \in 0..MaxErrors
      /\ MaxErrors \in Nat
  BY StagesAre, ManagementAssumption DEF ManagementTypeOK, Places
<1>2. /\ going \subseteq cloud /\ cloud \subseteq Resource /\ deleting \subseteq cloud
      /\ \A r \in deleting : r.kind = "volume"
      /\ \A r \in going : r.kind = "server"
      /\ stage # 0 => resets > 0
  BY <1>1 DEF ManagementTypeOK, Places
<1>3. ASSUME RequestFails PROVE Falls
  <2>1. /\ stage # 0 /\ Abort("fault") /\ errors' \in 0..MaxErrors
        /\ UNCHANGED <<config, going, resets, ref>>
    BY <1>1, <1>3 DEF RequestFails
  <2>2. CASE \/ UNCHANGED <<cloud, deleting>>
             \/ \E r \in todo : /\ r.kind \notin {"server", "volume"}
                               /\ cloud' = cloud \ {r} /\ UNCHANGED deleting
             \/ \E r \in todo \cap cloud : /\ r.kind = "volume"
                                          /\ deleting' = deleting \cup {r}
                                          /\ UNCHANGED cloud
    BY <1>1, <1>2, <2>1, <2>2 DEF Falls, Abort, Cause
  <2>3. ASSUME NEW kind \in MadeHere \cup {"server"}, cloud' = cloud \cup {New(kind)},
               UNCHANGED deleting
        PROVE  Falls
    <3>1. New(kind) \in Resource /\ New(kind).kind # "qnet"
      BY <1>2, <2>1, NewIs DEF New, MadeHere
    <3>. QED  BY <1>1, <1>2, <2>1, <2>3, <3>1 DEF Falls, Abort, Cause
  <2>. QED  BY <1>3, <2>2, <2>3 DEF RequestFails
<1>4. ASSUME Restart PROVE Falls \/ Rests
  <2>1. CASE stage = 0
    BY <1>1, <1>4, <2>1 DEF Restart, Rests
  <2>2. CASE stage # 0
    BY <1>1, <1>2, <1>4, <2>2 DEF Restart, Falls, Abort, Cause
  <2>. QED  BY <2>1, <2>2
<1>5. ASSUME Unseen PROVE Rests
  BY <1>1, <1>5 DEF Unseen, Rests
<1>. QED  BY <1>3, <1>4, <1>5

(* There are no other kinds of step.                                       *)
LEMMA ResetKinds ==
    ASSUME ManagementTypeOK, Places, FirstReset, [ClientsNext]_clientVars
    PROVE  BeginReset \/ Falls \/ Shrinks \/ GoesOn \/ Rests
BY ResetSteps, CleanupKinds, SetupKinds, OtherKinds DEF ResetStep

-----------------------------------------------------------------------------
(* The invariant of a reset, part by part.                                 *)

(* Every step keeps the types.                                             *)
LEMMA ManagementTypeStep ==
    ASSUME ResetInv, [ClientsNext]_clientVars
    PROVE  ManagementTypeOK'
<1>1. /\ stage \in 0..25 /\ Len(Stages) = 25
      /\ resets \in 0..MaxResets /\ ref \in 0..resets /\ errors \in 0..MaxErrors
      /\ MaxErrors \in Nat /\ MaxResets \in Nat
      /\ config \in Config /\ why \in Cause
      /\ going \subseteq cloud /\ cloud \subseteq Resource /\ deleting \subseteq cloud
      /\ todo \subseteq Resource /\ waiting \subseteq Resource
  BY StagesAre, ManagementAssumption DEF ManagementTypeOK, Places, ResetInv
<1>2. stage # 0 => resets > 0
  BY DEF ResetInv, Places
<1>3. ASSUME NEW i PROVE Listed(i) \subseteq Resource
  BY <1>1 DEF Listed
<1>4. CASE BeginReset
  <2>1. stage' \in 0..25 /\ todo' \subseteq Resource
    BY <1>3, <1>4, StagesAre DEF BeginReset
  <2>2. resets' \in 0..MaxResets
    BY <1>1, <1>4 DEF BeginReset
  <2>. QED  BY <1>1, <1>4, <2>1, <2>2 DEF BeginReset, ManagementTypeOK, Cause
<1>5. CASE Falls
  BY <1>1, <1>5 DEF Falls, ManagementTypeOK
<1>6. CASE Shrinks
  BY <1>1, <1>6 DEF Shrinks, ManagementTypeOK
<1>7. CASE GoesOn
  <2>1. stage' \in 0..25 /\ todo' \subseteq Resource
    <3>1. stage \in 1..25 /\ Advance
      BY <1>1, <1>7 DEF GoesOn
    <3>2. stage' \in 0..25
      BY <3>1, AdvanceIs
    <3>3. todo' \subseteq Resource
      BY <1>3, <3>1 DEF Advance
    <3>. QED  BY <3>2, <3>3
  <2>2. cloud' \subseteq Resource /\ cloud \subseteq cloud'
    BY <1>1, <1>2, <1>7, NewIs DEF GoesOn, ResetInv
  <2>. QED  BY <1>1, <1>7, <2>1, <2>2 DEF GoesOn, ManagementTypeOK
<1>8. CASE Rests
  BY <1>1, <1>8 DEF Rests, ManagementTypeOK
<1>. QED  BY <1>4, <1>5, <1>6, <1>7, <1>8, ResetKinds DEF ResetInv

(* Every step leaves the reset somewhere it can be.                        *)
LEMMA PlacesStep ==
    ASSUME ResetInv, ManagementTypeOK', [ClientsNext]_clientVars
    PROVE  Places'
<1>1. /\ stage \in 0..25 /\ stage' \in 0..25
      /\ (Cleaning <=> stage \in 1..14)
      /\ resets \in Nat /\ ref \in 0..resets
      /\ config \in Config
  BY StagesAre, WhereIs, ManagementAssumption DEF ManagementTypeOK, Places, ResetInv
<1>2. Cleaning' <=> stage' \in 1..14
  BY StagesAre DEF Cleaning
<1>3. Places
  BY DEF ResetInv
<1>4. CASE BeginReset
  <2>1. /\ stage' = IF config.cleanup THEN 1 ELSE 15
        /\ todo' = Listed(stage') /\ waiting = {}
        /\ UNCHANGED <<config, going, deleting, waiting, ref>>
        /\ resets' = resets + 1 /\ why' = "none"
    <3>1. waiting = {}
      BY <1>1, <1>3, <1>4 DEF BeginReset, Places
    <3>. QED  BY <1>4, <3>1, StagesAre DEF BeginReset
  <2>2. config.cleanup \/ config.events = "log"
    BY <1>1, ManagementAssumption
  <2>3. \A r \in todo' : stage' \in 1..14 /\ r.kind = Stages[stage']
    BY <2>1, StagesAre DEF Listed
  <2>. QED  BY <1>1, <1>2, <1>3, <2>1, <2>2, <2>3 DEF Places
<1>5. CASE Falls
  BY <1>1, <1>2, <1>3, <1>5 DEF Falls, Places
<1>6. CASE Shrinks
  BY <1>1, <1>2, <1>3, <1>6 DEF Shrinks, Places
<1>7. CASE GoesOn
  <2>1. stage \in 1..25 /\ Advance
    BY <1>1, <1>7 DEF GoesOn
  <2>2. /\ stage' = IF stage = 25 \/ (stage = 14 /\ ~config.setup) THEN 0 ELSE stage + 1
        /\ \A r \in todo' : stage' \in 1..14 /\ r.kind = Stages[stage']
    BY <2>1, AdvanceIs
  <2>3. waiting = {} /\ waiting' = {}
    BY <1>3, <1>7 DEF GoesOn, Places
  <2>4. UNCHANGED <<config, going, deleting, resets, why>> /\ ref' \in 0..resets
    BY <1>7 DEF GoesOn
  <2>5. /\ config.events = "log" => stage' <= 16
        /\ config.network = "unknown" => stage' <= 15
    BY <1>1, <1>7, <2>2 DEF GoesOn
  <2>. QED  BY <1>1, <1>2, <1>3, <2>1, <2>2, <2>3, <2>4, <2>5 DEF Places
<1>8. CASE Rests
  BY <1>1, <1>2, <1>3, <1>8 DEF Rests, Places
<1>. QED  BY <1>4, <1>5, <1>6, <1>7, <1>8, ResetKinds DEF ResetInv

(* Only a resource's kind, its name and the configuration tell if it goes. *)
LEMMA DoomedStays ==
    ASSUME config' = config, NEW r
    PROVE  Doomed(r)' <=> Doomed(r)
BY DEF Doomed, IsPrefixed

(* Cleanup goes on when a kind is gone, and setup makes what is new.       *)
LEMMA LeftoversStep ==
    ASSUME ResetInv, ManagementTypeOK', [ClientsNext]_clientVars
    PROVE  Leftovers'
<1>1. /\ stage \in 0..25 /\ stage' \in 0..25 /\ cloud \subseteq Resource
      /\ (Cleaning <=> stage \in 1..14)
      /\ resets \in Nat /\ config \in Config
  BY StagesAre, WhereIs, ManagementAssumption DEF ManagementTypeOK, Places, ResetInv
<1>2. Cleaning' <=> stage' \in 1..14
  BY StagesAre DEF Cleaning
<1>3. Places /\ Leftovers
  BY DEF ResetInv
<1>4. ASSUME NEW r \in cloud PROVE \E j \in 1..14 : r.kind = Stages[j]
  <2>1. PICK i \in 1..14 : r.kind = CleanupStages[i]
    BY <1>1, StagesAre DEF Resource
  <2>. QED  BY <2>1, KindsAre DEF CleanupStages
<1>5. ASSUME NEW r, config' = config PROVE Doomed(r)' <=> Doomed(r)
  BY <1>5, DoomedStays
<1>6. CASE BeginReset
  <2>1. /\ stage' = IF config.cleanup THEN 1 ELSE 15
        /\ todo' = Listed(stage') /\ UNCHANGED <<config, cloud, deleting>>
    BY <1>6, StagesAre DEF BeginReset
  <2>2. CASE config.cleanup
    <3>1. stage' = 1 /\ todo' = {r \in cloud : r.kind = Stages[1] /\ Doomed(r)}
      BY <2>1, <2>2, StagesAre DEF Listed
    <3>2. ASSUME NEW r \in cloud' \ deleting', Doomed(r)'
          PROVE  r \in todo' \/ \E j \in 2..14 : r.kind = Stages[j]
      BY <1>4, <1>5, <2>1, <3>1, <3>2
    <3>. QED  BY <1>2, <3>1, <3>2 DEF Leftovers
  <2>3. CASE ~config.cleanup
    BY <1>2, <2>1, <2>3 DEF Leftovers
  <2>. QED  BY <2>2, <2>3
<1>7. CASE Falls
  BY <1>2, <1>7 DEF Falls, Leftovers
<1>8. CASE Shrinks
  <2>1. /\ UNCHANGED <<config, stage, resets, why>> /\ cloud' \subseteq cloud
        /\ \A r \in todo \ todo' : r \notin cloud' \/ r \in deleting'
        /\ deleting \cap cloud' \subseteq deleting'
    BY <1>8 DEF Shrinks
  <2>. QED  BY <1>1, <1>2, <1>3, <1>5, <2>1 DEF Leftovers
<1>9. CASE GoesOn
  <2>1. /\ stage \in 1..25 /\ Advance /\ todo = {}
        /\ UNCHANGED <<config, deleting, resets, why>>
    BY <1>1, <1>9 DEF GoesOn
  <2>2. /\ stage' = IF stage = 25 \/ (stage = 14 /\ ~config.setup) THEN 0 ELSE stage + 1
        /\ stage' \in 1..14 =>
              todo' = {r \in cloud : r.kind = Stages[stage'] /\ Doomed(r)}
    BY <2>1, AdvanceIs
  <2>3. CASE stage \in 1..14
    <3>1. cloud' = cloud
      BY <1>1, <1>9, <2>3 DEF GoesOn
    <3>2. ASSUME NEW r \in cloud \ deleting, Doomed(r)
          PROVE  \E j \in (stage + 1)..14 : r.kind = Stages[j]
      BY <1>1, <1>3, <2>1, <2>3, <3>2 DEF Leftovers
    <3>3. CASE stage < 14
      <4>1. stage' = stage + 1
        BY <2>2, <2>3, <3>3
      <4>2. ASSUME NEW r \in cloud \ deleting, Doomed(r)
            PROVE  r \in todo' \/ \E j \in (stage' + 1)..14 : r.kind = Stages[j]
        BY <2>2, <2>3, <3>2, <3>3, <4>1, <4>2
      <4>. QED  BY <1>2, <1>5, <2>1, <2>3, <3>1, <3>3, <4>1, <4>2 DEF Leftovers
    <3>4. CASE stage = 14
      <4>1. \A r \in cloud \ deleting : ~Doomed(r)
        BY <3>2, <3>4
      <4>2. config.cleanup
        BY <1>1, <1>3, <2>3 DEF Places
      <4>. QED  BY <1>2, <1>5, <2>1, <2>2, <3>1, <3>4, <4>1, <4>2 DEF Leftovers
    <3>. QED  BY <2>3, <3>3, <3>4
  <2>4. CASE stage \in 15..25
    <3>1. ASSUME NEW r \in cloud' \ deleting, config.cleanup, Doomed(r)
          PROVE  r.by = resets /\ \E j \in 15..stage : r.kind = Stages[j]
      <4>1. CASE r \in cloud
        BY <1>3, <2>4, <3>1, <4>1 DEF Leftovers
      <4>2. CASE r \notin cloud
        BY <1>9, <2>4, <4>2 DEF GoesOn, New
      <4>. QED  BY <4>1, <4>2
    <3>2. CASE stage < 25
      <4>1. stage' = stage + 1 /\ stage' > 14
        BY <2>2, <2>4, <3>2
      <4>. QED  BY <1>2, <1>5, <2>1, <2>4, <3>1, <4>1 DEF Leftovers
    <3>3. CASE stage = 25
      <4>1. config.cleanup
        <5>1. config.events # "log"
          BY <1>3, <3>3 DEF Places
        <5>. QED  BY <1>1, <5>1, ManagementAssumption
      <4>2. stage' = 0
        BY <2>2, <3>3
      <4>. QED  BY <1>2, <1>5, <2>1, <3>1, <4>1, <4>2 DEF Leftovers
    <3>. QED  BY <2>4, <3>2, <3>3
  <2>. QED  BY <2>1, <2>3, <2>4
<1>10. CASE Rests
  BY <1>1, <1>2, <1>3, <1>5, <1>10 DEF Rests, Leftovers
<1>. QED  BY <1>6, <1>7, <1>8, <1>9, <1>10, ResetKinds DEF ResetInv

(* The images and flavors of a reset stay until it has ended.              *)
LEMMA PlannedStep ==
    ASSUME ResetInv, ManagementTypeOK', [ClientsNext]_clientVars
    PROVE  Planned'
<1>1. /\ stage \in 0..25 /\ stage' \in 0..25
      /\ (Cleaning <=> stage \in 1..14)
  BY StagesAre, WhereIs DEF ManagementTypeOK, ResetInv
<1>2. Planned
  BY DEF ResetInv
<1> DEFINE Made(kind) ==
        \E r \in cloud : r.kind = kind /\ r.name = Given(config.images)
<1>3. ASSUME NEW kind, Made(kind), UNCHANGED <<config, resets>>,
             \A r \in cloud \ cloud' : r.kind # kind
      PROVE  Made(kind)'
  BY <1>3 DEF Given
<1>4. CASE BeginReset
  BY <1>4, StagesAre DEF BeginReset, Planned
<1>5. CASE Falls
  BY <1>5 DEF Falls, Planned
<1>6. CASE Shrinks
  <2>1. stage > 14 => \A r \in cloud \ cloud' : r.kind \in {"server", "volume"}
    BY <1>1, <1>6 DEF Shrinks, ResetInv, Places
  <2>2. UNCHANGED <<config, stage, resets, ref>>
    BY <1>6 DEF Shrinks
  <2>3. stage > 16 => Made("image") /\ Made("image")'
    BY <1>1, <1>2, <1>3, <2>1, <2>2 DEF Planned
  <2>4. stage > 17 => Made("flavor") /\ Made("flavor")'
    BY <1>1, <1>2, <1>3, <2>1, <2>2 DEF Planned
  <2>. QED  BY <1>1, <1>2, <2>2, <2>3, <2>4 DEF Planned
<1>7. CASE GoesOn
  <2>1. /\ stage \in 1..25 /\ Advance /\ UNCHANGED <<config, resets>>
        /\ cloud \subseteq cloud'
    BY <1>1, <1>7 DEF GoesOn
  <2>2. stage' = 0 \/ stage' = stage + 1
    BY <2>1, AdvanceIs
  <2>3. stage = 16 => Made("image")'
    <3>1. stage = 16 => cloud' = cloud \cup {New("image")}
      BY <1>7, KindsAre DEF GoesOn
    <3>2. New("image").kind = "image" /\ New("image").name = Given(config.images)
      BY DEF New, NameOf
    <3>3. Given(config.images)' = Given(config.images)
      BY <2>1 DEF Given
    <3>. QED  BY <2>1, <3>1, <3>2, <3>3
  <2>4. stage = 17 => Made("flavor")'
    <3>1. stage = 17 => cloud' = cloud \cup {New("flavor")}
      BY <1>7, KindsAre DEF GoesOn
    <3>2. New("flavor").kind = "flavor" /\ New("flavor").name = Given(config.images)
      BY DEF New, NameOf
    <3>3. Given(config.images)' = Given(config.images)
      BY <2>1 DEF Given
    <3>. QED  BY <2>1, <3>1, <3>2, <3>3
  <2>5. /\ stage > 16 => Made("image")'
        /\ stage > 17 => Made("flavor")'
    BY <1>2, <1>3, <2>1 DEF Planned
  <2>6. stage' > 15 => ref' = resets' \/ config'.tenants = "given"
    BY <1>1, <1>2, <1>7, <2>1, <2>2 DEF GoesOn, Planned
  <2>. QED  BY <1>1, <2>2, <2>3, <2>4, <2>5, <2>6 DEF Planned
<1>8. CASE Rests
  BY <1>1, <1>2, <1>8 DEF Rests, Planned, Given
<1>. QED  BY <1>4, <1>5, <1>6, <1>7, <1>8, ResetKinds DEF ResetInv

(* Before the second reset nova owes nothing to an earlier one.            *)
LEMMA FirstResetStep ==
    ASSUME ResetInv, ManagementTypeOK', [ClientsNext]_clientVars
    PROVE  FirstReset' /\ Networks'
<1>1. /\ stage \in 0..25 /\ stage' \in 0..25
      /\ (Cleaning <=> stage \in 1..14)
      /\ resets \in Nat
  BY StagesAre, WhereIs, ManagementAssumption DEF ManagementTypeOK, ResetInv
<1>2. Places /\ FirstReset /\ Networks
  BY DEF ResetInv
<1>3. CASE BeginReset
  <2>1. /\ UNCHANGED <<config, cloud, going, waiting>> /\ waiting = {} /\ stage = 0
        /\ resets' = resets + 1 /\ todo' \subseteq cloud
    <3>1. waiting = {}
      BY <1>1, <1>2, <1>3 DEF BeginReset, Places
    <3>. QED  BY <1>3, <3>1, StagesAre DEF BeginReset, Listed
  <2>2. CASE resets = 0
    <3>1. going = {} /\ cloud \subseteq UNION World
      BY <1>2, <2>2 DEF FirstReset
    <3>2. resets' = 1
      BY <2>1, <2>2
    <3>. QED  BY <1>2, <2>1, <3>1, <3>2 DEF FirstReset, Networks
  <2>3. CASE resets # 0
    <3>1. resets' # 0 /\ resets' # 1
      BY <1>1, <2>1, <2>3
    <3>. QED  BY <1>2, <2>1, <3>1 DEF FirstReset, Networks
  <2>. QED  BY <2>2, <2>3
<1>4. CASE Falls
  BY <1>1, <1>2, <1>4 DEF Falls, FirstReset, Networks, Places
<1>5. CASE Shrinks
  BY <1>1, <1>2, <1>5 DEF Shrinks, FirstReset, Networks
<1>6. CASE GoesOn
  <2>1. /\ stage \in 1..25 /\ Advance /\ UNCHANGED <<config, resets, going, waiting>>
        /\ waiting = {} /\ resets > 0
        /\ todo' \subseteq cloud /\ cloud \subseteq cloud'
    <3>1. stage \in 1..25 /\ Advance /\ UNCHANGED <<config, resets, going, waiting>>
      BY <1>1, <1>6 DEF GoesOn
    <3>2. waiting = {} /\ resets > 0
      BY <1>2, <1>6 DEF GoesOn, Places
    <3>3. todo' \subseteq cloud
      BY <3>1, AdvanceIs
    <3>. QED  BY <1>6, <3>1, <3>2, <3>3 DEF GoesOn
  <2>2. stage' = 0 \/ stage' = stage + 1
    BY <2>1, AdvanceIs
  <2>3. \/ cloud' = cloud
        \/ /\ stage > 15 /\ Stages[stage] # "qnet"
           /\ cloud' = cloud \cup {New(Stages[stage])}
    BY <1>6 DEF GoesOn, MadeHere
  <2>4. New(Stages[stage]).kind = Stages[stage]
    BY DEF New
  <2>8. resets = 1 => todo' \subseteq UNION World
    <3>1. todo' # {} => stage' \in 1..14
      BY <2>1, AdvanceIs
    <3>2. resets = 1 /\ stage < 15 => cloud \subseteq UNION World
      BY <1>1, <1>2, <2>1 DEF FirstReset
    <3>. QED  BY <1>1, <2>1, <2>2, <3>1, <3>2
  <2>5. ASSUME resets = 1, stage' # 0, NEW r \in cloud'
        PROVE  r \in UNION World \/ \E j \in 15..(stage' - 1) : r.kind = Stages[j]
    <3>1. CASE r \in cloud
      <4>1. r \in UNION World \/ \E j \in 15..(stage - 1) : r.kind = Stages[j]
        BY <1>2, <2>1, <2>5, <3>1 DEF FirstReset
      <4>2. stage' = stage + 1
        BY <2>2, <2>5
      <4>3. \A j \in 15..(stage - 1) : j \in 15..(stage' - 1)
        BY <1>1, <4>2
      <4>. QED  BY <4>1, <4>3
    <3>2. CASE r \notin cloud
      <4>1. stage > 15 /\ r.kind = Stages[stage]
        BY <2>3, <2>4, <2>5, <3>2
      <4>2. stage \in 15..(stage' - 1)
        BY <1>1, <2>2, <2>5, <4>1
      <4>. QED  BY <4>1, <4>2
    <3>. QED  BY <3>1, <3>2
  <2>6. FirstReset'
    BY <1>2, <2>1, <2>5, <2>8 DEF FirstReset
  <2>7. Networks'
    BY <1>2, <2>1, <2>3, <2>4 DEF Networks
  <2>. QED  BY <2>6, <2>7
<1>7. CASE Rests
  BY <1>1, <1>2, <1>7 DEF Rests, FirstReset, Networks
<1>. QED  BY <1>3, <1>4, <1>5, <1>6, <1>7, ResetKinds DEF ResetInv

-----------------------------------------------------------------------------
(* Why a reset falls.                                                      *)

(* Cleanup made room for whatever setup makes, but for a given name that   *)
(* does not carry the prefix.                                              *)
LEMMA TakenByGiven ==
    ASSUME ResetInv, NEW kind \in MadeHere, At(kind), Refusal(kind) = "conflict",
           kind = "network" => ~(config.network = "FlatDHCP" /\ Taken("network"))
    PROVE  /\ ~config.prefixed
           /\ resets > 1 \/ \E r \in UNION World : r.name[1] = "given"
           /\ "given" \in {config.tenants, config.images}
<1>1. /\ stage \in 0..25 /\ (Cleaning <=> stage \in 1..14)
      /\ resets \in Nat /\ config \in Config
  BY StagesAre, WhereIs, ManagementAssumption DEF ManagementTypeOK, ResetInv
<1>2. stage \in 16..25 /\ Stages[stage] = kind
  BY <1>1, StagesAre, KindsAre DEF At, MadeHere
<1>3. kind \notin {"image", "volume"} /\ Taken(kind)
  BY DEF Refusal
<1>4. PICK r \in cloud : r.kind = kind /\ r.name = NameOf(kind)
  BY <1>3 DEF Taken
<1>5. \A j \in 15..(stage - 1) : Stages[j] # kind
  <2>1. stage \in {17, 18, 19, 20, 22}
    BY <1>1, <1>2, <1>3, WhereIs DEF At, MadeHere
  <2>2. ASSUME NEW j \in 15..(stage - 1) PROVE j \in {15, 16, 17, 18, 19, 20, 21}
    BY <2>1
  <2>. QED  BY <1>2, <2>1, <2>2, KindsAre
<1>6. ~Doomed(r)
  <2>1. CASE config.cleanup
    <3>1. r \notin deleting
      BY <1>3, <1>4 DEF ResetInv, Places
    <3>. QED  BY <1>1, <1>2, <1>4, <1>5, <2>1, <3>1 DEF ResetInv, Leftovers
  <2>2. CASE ~config.cleanup
    <3>1. config.events = "log"
      BY <1>1, <2>2, ManagementAssumption
    <3>2. stage = 16
      BY <1>2, <3>1 DEF ResetInv, Places
    <3>. QED  BY <1>2, <1>3, <3>2, KindsAre
  <2>. QED  BY <2>1, <2>2
<1>7. config.network \in {"FlatDHCP", "VLAN"}
  <2>1. config.network \in {"FlatDHCP", "VLAN", "unknown"}
    BY <1>1, ManagementAssumption DEF ConfigType
  <2>2. config.network # "unknown"
    BY <1>2 DEF ResetInv, Places
  <2>. QED  BY <2>1, <2>2
<1>8. kind # "network" /\ kind # "fip"
  <2>1. CASE kind = "network"
    <3>1. config.network = "VLAN"
      BY <1>3, <1>7, <2>1
    <3>2. r.name = <<"generated", 1>>
      BY <1>4, <2>1, <3>1 DEF NameOf
    <3>. QED  BY <1>6, <3>2 DEF Doomed, IsPrefixed
  <2>2. CASE kind = "fip"
    BY <1>4, <1>6, <2>2 DEF Doomed
  <2>. QED  BY <2>1, <2>2
<1>9. r.name = <<"given", 0>> /\ "given" \in {config.tenants, config.images}
  <2>1. kind \in {"flavor", "tenant", "user"}
    BY <1>3, <1>8 DEF MadeHere
  <2>2. \E how \in {config.tenants, config.images} : r.name = Given(how)
    BY <1>4, <2>1 DEF NameOf
  <2>3. PICK how \in {config.tenants, config.images} : r.name = Given(how)
    BY <2>2
  <2>4. how = "given"
    <3>1. how # "given" => r.name = <<"generated", resets>>
      BY <2>3 DEF Given
    <3>. QED  BY <1>6, <3>1 DEF Doomed, IsPrefixed
  <2>. QED  BY <2>3, <2>4 DEF Given
<1>10. ~config.prefixed
  BY <1>6, <1>9 DEF Doomed, IsPrefixed
<1>11. resets > 1 \/ \E q \in UNION World : q.name[1] = "given"
  <2>1. CASE resets = 1
    <3>1. r \in UNION World
      BY <1>2, <1>4, <1>5, <2>1 DEF ResetInv, FirstReset
    <3>. QED  BY <1>9, <3>1
  <2>2. CASE resets # 1
    <3>1. resets > 0
      BY <1>2 DEF ResetInv, Places
    <3>. QED  BY <1>1, <2>2, <3>1
  <2>. QED  BY <2>1, <2>2
<1>. QED  BY <1>9, <1>10, <1>11

(* A server of this reset's plan finds its image and flavor.               *)
LEMMA StaleByEarlier ==
    ASSUME ResetInv, SetupServer, ~Advance
    PROVE  config.tenants = "given" /\ config.images = "generated" /\ ref < resets
<1>1. /\ stage = 24 /\ resets \in Nat /\ ref \in 0..resets /\ config \in Config
  BY StagesAre, WhereIs, ManagementAssumption
     DEF ManagementTypeOK, Places, ResetInv, SetupServer
<1> DEFINE name == IF config.images = "given" THEN <<"given", 0>>
                   ELSE <<"generated", ref>>
<1>2. ~\A kind \in {"image", "flavor"} : \E r \in cloud : r.kind = kind /\ r.name = name
  BY DEF SetupServer
<1>3. name # Given(config.images)
  BY <1>1, <1>2 DEF ResetInv, Planned
<1>4. config.images # "given" /\ ref # resets
  BY <1>3 DEF Given
<1>5. config.images = "generated"
  BY <1>1, <1>4, ManagementAssumption DEF ConfigType
<1>6. config.tenants = "given"
  BY <1>1, <1>4 DEF ResetInv, Planned
<1>. QED  BY <1>1, <1>4, <1>5, <1>6

(* Whatever a reset falls for is one of the reasons, and stays so.         *)
LEMMA ReasonsStep ==
    ASSUME ResetInv, ManagementTypeOK', [ClientsNext]_clientVars
    PROVE  ResetFailuresExplained'
<1>1. /\ stage \in 0..25 /\ resets \in Nat /\ ref \in 0..resets /\ config \in Config
      /\ (Cleaning <=> stage \in 1..14)
      /\ why # "none" => resets > 0
  BY StagesAre, WhereIs, ManagementAssumption DEF ManagementTypeOK, Places, ResetInv
<1>2. ResetFailuresExplained
  BY DEF ResetInv
<1>3. ASSUME why' \in {"none", "fault", "timeout", "emit"} PROVE ResetFailuresExplained'
  BY <1>3 DEF ResetFailuresExplained
<1>4. ASSUME UNCHANGED <<config, resets, why>>, ref' \in {ref, 0}
      PROVE  ResetFailuresExplained'
  BY <1>1, <1>2, <1>4 DEF ResetFailuresExplained, Addresses, MaxAddresses
<1>5. ASSUME UNCHANGED why, stage # 0 PROVE ResetFailuresExplained'
  BY <1>3, <1>5 DEF ResetInv, Places
<1>6. CASE BeginReset
  BY <1>3, <1>6 DEF BeginReset
<1>7. CASE NextKind \/ NovaRemoves \/ CinderRemoves \/ Unseen \/ MakeNone
  <2>1. UNCHANGED <<config, resets, why, ref>>
    BY <1>7 DEF NextKind, NovaRemoves, CinderRemoves, Unseen, MakeNone
  <2>. QED  BY <1>4, <2>1
<1>8. ASSUME NEW r \in todo, Remove(r) PROVE ResetFailuresExplained'
  <2>1. /\ stage # 0 /\ UNCHANGED <<config, resets>>
        /\ why' \in {why, "emit", "none"} \/ (r.kind = "qnet" /\ why' = "neutron")
    BY <1>1, <1>8 DEF Remove, Abort, Emitted
  <2>2. CASE r.kind = "qnet" /\ why' = "neutron"
    <3>1. r \in UNION World
      BY <2>2 DEF ResetInv, Networks
    <3>. QED  BY <2>2, <3>1 DEF ResetFailuresExplained
  <2>. QED  BY <1>3, <1>5, <2>1, <2>2
<1>9. ASSUME NEW r \in todo, RemoveServer(r) PROVE ResetFailuresExplained'
  <2>1. stage # 0 /\ waiting = {} /\ UNCHANGED <<config, resets>>
    BY <1>1, <1>9 DEF RemoveServer
  <2>2. CASE r \notin cloud
    <3>1. why' = "gone"
      BY <1>9, <2>2 DEF RemoveServer, Abort
    <3>2. r \in todo \ waiting /\ r.kind = "server" /\ resets > 0
      BY <1>9, <2>1 DEF RemoveServer, ResetInv, Places
    <3>3. resets # 1
      BY <2>1, <2>2, <3>2 DEF ResetInv, FirstReset
    <3>. QED  BY <1>1, <2>1, <3>1, <3>2, <3>3 DEF ResetFailuresExplained
  <2>3. CASE r \in cloud
    BY <1>5, <1>9, <2>1, <2>3 DEF RemoveServer
  <2>. QED  BY <2>2, <2>3
<1>10. CASE ServerIsGone \/ ServerStays
  <2>1. UNCHANGED <<config, resets, ref>> /\ why' \in {why, "emit", "timeout"}
    BY <1>10 DEF ServerIsGone, ServerStays, Abort
  <2>. QED  BY <1>3, <1>4, <2>1
<1>11. CASE PlanSetup
  <2>1. /\ stage # 0 /\ UNCHANGED <<config, resets>>
        /\ why' = why \/ (why' = "plugin" /\ config.network = "unknown")
    BY <1>1, <1>11, WhereIs DEF PlanSetup, Abort
  <2>. QED  BY <1>5, <2>1 DEF ResetFailuresExplained
<1>12. ASSUME NEW kind \in MadeHere, Make(kind),
              kind = "network" => ~(config.network = "FlatDHCP" /\ Taken("network"))
       PROVE  ResetFailuresExplained'
  <2>1. At(kind) /\ UNCHANGED <<config, resets, ref>>
    BY <1>12 DEF Make
  <2>2. CASE Refusal(kind) = "none"
    <3>1. why' \in {why, "emit"}
      BY <1>12, <2>2 DEF Make, Abort
    <3>. QED  BY <1>3, <1>4, <2>1, <3>1
  <2>3. CASE Refusal(kind) # "none"
    <3>1. why' = Refusal(kind)
      BY <1>12, <2>3 DEF Make, Abort
    <3>2. CASE Refusal(kind) = "address"
      <4>1. Addresses > MaxAddresses
        BY <3>2 DEF Refusal
      <4>. QED
        BY <2>1, <3>1, <3>2, <4>1 DEF ResetFailuresExplained, Addresses, MaxAddresses
    <3>3. CASE Refusal(kind) = "conflict"
      BY <1>12, <2>1, <3>1, <3>3, TakenByGiven DEF ResetFailuresExplained
    <3>4. Refusal(kind) \in {"address", "conflict"}
      BY <2>3 DEF Refusal
    <3>. QED  BY <3>2, <3>3, <3>4
  <2>. QED  BY <2>2, <2>3
<1>13. CASE SetupServer
  <2>1. UNCHANGED <<config, resets, ref>>
    BY <1>13 DEF SetupServer
  <2>2. CASE Advance
    <3>1. why' \in {why, "stale"} /\ stage = 24
      BY <1>1, <1>13, WhereIs DEF SetupServer, Abort
    <3>2. why' = why
      <4>1. stage' = 25
        BY <2>2, <3>1, AdvanceIs
      <4>. QED  BY <1>13, <4>1 DEF SetupServer, Abort
    <3>. QED  BY <1>4, <2>1, <3>2
  <2>3. CASE ~Advance
    <3>1. why' = "stale"
      BY <1>13, <2>3 DEF SetupServer, Abort
    <3>2. config.tenants = "given" /\ config.images = "generated" /\ ref < resets
      BY <1>13, <2>3, StaleByEarlier
    <3>. QED  BY <2>1, <3>1, <3>2 DEF ResetFailuresExplained
  <2>. QED  BY <2>2, <2>3
<1>14. CASE SetupRest
  <2>1. UNCHANGED <<config, resets, ref>> /\ why' \in {why, "emit"}
    BY <1>14 DEF SetupRest, Abort
  <2>. QED  BY <1>3, <1>4, <2>1
<1>15. CASE RequestFails
  BY <1>3, <1>15 DEF RequestFails, Abort
<1>16. CASE Restart
  <2>1. UNCHANGED <<config, resets>> /\ ref' = 0 /\ why' \in {why, "fault"}
    BY <1>16 DEF Restart, Abort
  <2>. QED  BY <1>3, <1>4, <2>1
<1>17. ASSUME NEW r \in todo, RemoveVolume(r) PROVE ResetFailuresExplained'
  <2>1. stage # 0 /\ r.kind = "volume" /\ UNCHANGED <<config, resets>>
    BY <1>1, <1>17 DEF RemoveVolume
  <2>2. CASE why' \in {why, "emit"}
    BY <1>3, <1>5, <2>1, <2>2
  <2>3. CASE why' = "volume"
    <3>1. resets = 1 => r \in UNION World
      BY <2>1 DEF ResetInv, FirstReset
    <3>2. resets > 0
      BY <2>1 DEF ResetInv, Places
    <3>3. resets > 1 \/ \E q \in UNION World : q.kind = "volume"
      BY <1>1, <2>1, <3>1, <3>2
    <3>. QED  BY <2>1, <2>3, <3>3 DEF ResetFailuresExplained
  <2>. QED  BY <1>17, <2>2, <2>3 DEF RemoveVolume, Abort
<1>. QED
  BY <1>6, <1>7, <1>8, <1>9, <1>10, <1>11, <1>12, <1>13, <1>14, <1>15, <1>16, <1>17,
     ResetSteps
     DEF ResetStep, MakeOne

-----------------------------------------------------------------------------
(* The inductive invariant of the resets: where one is, what cleanup has   *)
(* done away with and setup has made, what the servers refer to, what is   *)
(* known in the first reset, and why the last one fell.                    *)
THEOREM ResetInvariant == ClientsSpec => []ResetInv
<1>1. ClientsInit => ResetInv
  <2> SUFFICES ASSUME ClientsInit PROVE ResetInv
    OBVIOUS
  <2>1. /\ config \in Config /\ cloud \in World /\ going = {} /\ stage = 0
        /\ todo = {} /\ waiting = {} /\ resets = 0 /\ ref = 0 /\ why = "none"
        /\ errors = 0
    BY DEF ClientsInit, ManagementInit
  <2>5. deleting \subseteq cloud /\ \A r \in deleting : r.kind = "volume"
    BY DEF ClientsInit, ManagementInit
  <2>2. ManagementTypeOK
    BY <2>1, <2>5, StagesAre, ManagementAssumption DEF ManagementTypeOK, Cause
  <2>3. Places /\ Leftovers /\ Planned
    BY <2>1, <2>5, WhereIs DEF Places, Leftovers, Planned
  <2>4. FirstReset /\ Networks /\ ResetFailuresExplained
    BY <2>1 DEF FirstReset, Networks, ResetFailuresExplained
  <2>. QED  BY <2>2, <2>3, <2>4 DEF ResetInv
<1>2. ResetInv /\ [ClientsNext]_clientVars => ResetInv'
  <2> SUFFICES ASSUME ResetInv, [ClientsNext]_clientVars PROVE ResetInv'
    OBVIOUS
  <2>1. ManagementTypeOK'
    BY ManagementTypeStep
  <2>. QED
    BY <2>1, PlacesStep, LeftoversStep, PlannedStep, FirstResetStep, ReasonsStep
       DEF ResetInv
<1>. QED  BY <1>1, <1>2, PTL DEF ClientsSpec

(* A reset that reports no failure, whoever asked for it and whatever was  *)
(* cut off before, leaves nothing of the earlier ones.                     *)
THEOREM ResetsLeaveNothing == ClientsSpec => []NoLeftovers
<1>1. ResetInv => NoLeftovers
  BY DEF ResetInv, Leftovers, NoLeftovers
<1>. QED  BY <1>1, ResetInvariant, PTL

(* A reset that is cut short neither by a failing request nor by a server  *)
(* that stays fails for the reasons that are listed, and for no other.     *)
THEOREM FailuresHaveCauses == ClientsSpec => []ResetFailuresExplained
<1>1. ResetInv => ResetFailuresExplained
  BY DEF ResetInv
<1>. QED  BY <1>1, ResetInvariant, PTL

=============================================================================
