---------------------------- MODULE CloudClients ----------------------------
(***************************************************************************)
(* The client of one cloud in the web API, and the greenlets that use it.  *)
(* A request that migrates, evacuates, reassigns or lists connects: it     *)
(* takes the client that is stored, or makes one if there is none or if    *)
(* the stored one does not answer.  POST /reset spawns a greenlet that     *)
(* connects as well and then cleans the cloud up and sets it up again      *)
(* (Management), holding a lock of the cloud all the while.  Greenlets     *)
(* switch at every request, so also between reading the stored client and  *)
(* storing a new one.                                                      *)
(*                                                                         *)
(* A client's identity keeps the hashes of passwords that were fetched; it *)
(* is handed from a broken client to the one that takes its place.  Clients*)
(* are told apart by their identities here.                                *)
(***************************************************************************)
EXTENDS Management, FiniteSets

CONSTANTS Resetter, Connector    \* greenlets

ASSUME GreenletAssumption == Resetter \cap Connector = {} /\ "nobody" \notin Resetter

VARIABLES
    pc,          \* where each greenlet is
    stored,      \* the identity of the stored client, 0 if there is none
    own,         \* the identity of the client a greenlet has or makes
    made,        \* the number of identities that were made
    raced,       \* did two greenlets ever make the first client at a time?
    lock,        \* who holds _reset_lock
    started,     \* resets that were told to start
    completed    \* greenlets that told that their reset is completed

cvars == <<pc, stored, own, made, raced, lock, started, completed>>
clientVars == <<mvars, cvars>>

Greenlet == Resetter \cup Connector
Free == "nobody"
Connecting == {"lookup", "make", "check", "remake"}

ClientsTypeOK ==
    /\ ManagementTypeOK
    /\ pc \in [Greenlet -> Connecting \cup {"idle", "start", "work", "reset", "done",
                                           "failed", "lost"}]
    /\ stored \in 0..made
    /\ own \in [Greenlet -> 0..made]
    /\ made \in 0..Cardinality(Greenlet) * (MaxErrors + 1)
    /\ raced \in BOOLEAN
    /\ lock \in Resetter \cup {Free}
    /\ started \subseteq Resetter
    /\ completed \subseteq Resetter

ClientsInit ==
    /\ ManagementInit
    /\ pc = [g \in Greenlet |-> "idle"]
    /\ stored = 0
    /\ own = [g \in Greenlet |-> 0]
    /\ made = 0
    /\ raced = FALSE
    /\ lock = Free
    /\ started = {}
    /\ completed = {}

-----------------------------------------------------------------------------
Goto(g, where) == pc' = [pc EXCEPT ![g] = where]

(* handlers.reset spawns the greenlet of each cloud and tells "reset       *)
(* start"; a handler of another request spawns one that connects.          *)
Arrive(g) ==
    /\ pc[g] = "idle"
    /\ Goto(g, IF g \in Resetter THEN "start" ELSE "lookup")
    /\ started' = IF g \in Resetter THEN started \cup {g} ELSE started
    /\ UNCHANGED <<mvars, stored, own, made, raced, lock, completed>>

Acquire(g) ==
    /\ g \in Resetter /\ pc[g] = "start" /\ lock = Free
    /\ lock' = g
    /\ Goto(g, "lookup")
    /\ UNCHANGED <<mvars, stored, own, made, raced, started, completed>>

Lookup(g) ==
    /\ pc[g] = "lookup"
    /\ own' = [own EXCEPT ![g] = stored]
    /\ Goto(g, IF stored = 0 THEN "make" ELSE "check")
    /\ raced' = (raced \/ (stored = 0 /\ \E h \in Greenlet \ {g} : pc[h] = "make"))
    /\ UNCHANGED <<mvars, stored, made, lock, started, completed>>

(* service.make(): a client with an identity of its own is stored, whatever*)
(* has been stored meanwhile.                                              *)
Make1st(g) ==
    /\ pc[g] = "make"
    /\ made' = made + 1
    /\ stored' = made'
    /\ own' = [own EXCEPT ![g] = made']
    /\ Goto(g, "work")
    /\ UNCHANGED <<mvars, raced, lock, started, completed>>

(* ping: one of four requests fails, or there is no image to look at.      *)
Check(g) ==
    /\ pc[g] = "check"
    /\ \/ /\ \E r \in cloud : r.kind = "image"
          /\ Goto(g, "work")
          /\ UNCHANGED errors
       \/ /\ \/ UNCHANGED errors /\ \A r \in cloud : r.kind # "image"
             \/ errors < MaxErrors /\ errors' = errors + 1
          /\ Goto(g, "remake")
    /\ UNCHANGED <<config, cloud, going, deleting, stage, todo, waiting, resets, ref, why>>
    /\ UNCHANGED <<stored, own, made, raced, lock, started, completed>>

(* Mutant: the client that takes the place of a broken one starts afresh.  *)
RemakeAfresh(g) ==
    /\ pc[g] = "remake"
    /\ made' = made + 1
    /\ stored' = made'
    /\ own' = [own EXCEPT ![g] = made']
    /\ Goto(g, "work")
    /\ UNCHANGED <<mvars, raced, lock, started, completed>>

(* service.make(identity=client.identity)                                  *)
Remake(g) ==
    /\ pc[g] = "remake"
    /\ stored' = own[g]
    /\ Goto(g, "work")
    /\ UNCHANGED <<mvars, own, made, raced, lock, started, completed>>

(* Mutant: the lock is not released when connecting fails.                 *)
ConnectFailsLocked(g) ==
    /\ pc[g] \in {"make", "remake"}
    /\ errors < MaxErrors /\ errors' = errors + 1
    /\ Goto(g, "failed")
    /\ UNCHANGED <<config, cloud, going, deleting, stage, todo, waiting, resets, ref, why>>
    /\ UNCHANGED <<stored, own, made, raced, lock, started, completed>>

(* make raises: the greenlet ends, which nobody is told of.                *)
ConnectFails(g) ==
    /\ pc[g] \in {"make", "remake"}
    /\ errors < MaxErrors /\ errors' = errors + 1
    /\ Goto(g, "failed")
    /\ lock' = IF lock = g THEN Free ELSE lock
    /\ UNCHANGED <<config, cloud, going, deleting, stage, todo, waiting, resets, ref, why>>
    /\ UNCHANGED <<stored, own, made, raced, started, completed>>

(* What a handler does with the client is modelled by the other modules.   *)
UseClient(g) ==
    /\ g \in Connector /\ pc[g] = "work"
    /\ Goto(g, "done")
    /\ UNCHANGED <<mvars, stored, own, made, raced, lock, started, completed>>

(* Service.reset: cleanup and setup; whatever they raise is logged.        *)
StartReset(g) ==
    /\ g \in Resetter /\ pc[g] = "work" /\ BeginReset
    /\ Goto(g, "reset")
    /\ UNCHANGED <<stored, own, made, raced, lock, started, completed>>

Complete(g) ==
    /\ pc[g] = "reset" /\ stage = 0
    /\ completed' = completed \cup {g}
    /\ lock' = Free
    /\ Goto(g, "done")
    /\ UNCHANGED <<mvars, stored, own, made, raced, started>>

Faulty(g) == pc[g] = "reset" /\ RequestFails /\ UNCHANGED cvars

Working(g) == pc[g] = "reset" /\ ResetStep /\ UNCHANGED cvars

(* What the program knows is gone, and so are its greenlets.               *)
ProgramRestarts ==
    /\ Restart
    /\ pc' = [g \in Greenlet |-> IF pc[g] \in {"idle", "done", "failed"} THEN pc[g]
                                 ELSE "lost"]
    /\ stored' = 0
    /\ own' = [g \in Greenlet |-> 0]
    /\ made' = 0
    /\ raced' = FALSE
    /\ lock' = Free
    /\ UNCHANGED <<started, completed>>

GoOn(g) ==
    \/ Acquire(g)
    \/ Lookup(g)
    \/ Make1st(g)
    \/ Check(g)
    \/ Remake(g)
    \/ ConnectFails(g)
    \/ UseClient(g)
    \/ StartReset(g)
    \/ Working(g)
    \/ Complete(g)

ClientsNext ==
    \/ \E g \in Greenlet : Arrive(g) \/ GoOn(g) \/ Faulty(g)
    \/ ProgramRestarts
    \/ (NovaRemoves \/ CinderRemoves) /\ UNCHANGED cvars

(* The program goes on with each greenlet; nova and cinder promise nothing.*)
Fairness == \A g \in Greenlet : WF_clientVars(GoOn(g))

ClientsSpec == ClientsInit /\ [][ClientsNext]_clientVars /\ Fairness
-----------------------------------------------------------------------------
(* All greenlets use one identity and so one cache of hashes, however often*)
(* clients break, unless two of them had met no client at the same time:   *)
(* then each makes one, and who is later wins (hooks.py:36-47).            *)
OneIdentity ==
    ~raced =>
        /\ made <= 1
        /\ \A g \in Greenlet : pc[g] \in {"work", "reset"} => own[g] = stored

(* Every request for a reset comes to an end: nobody keeps the lock, also  *)
(* not who could not connect (hooks.py:99-102).                            *)
ResetsEnd ==
    \A g \in Resetter :
        g \in started ~> (g \in completed \/ pc[g] \in {"failed", "lost"})

=============================================================================
