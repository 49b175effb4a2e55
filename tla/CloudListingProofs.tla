-------------------------- MODULE CloudListingProofs --------------------------
(* Proofs about the view of the clouds, for any number of servers, of      *)
(* requests for the view, and of faults.                                   *)
EXTENDS CloudListing, TLAPS

(* The lists, one by one.                                                  *)
LEMMA ListsAre ==
    /\ Len(Lists) = 11
    /\ Lists[1] = <<"source", "tenant">>        /\ Lists[2] = <<"source", "server">>
    /\ Lists[3] = <<"source", "other">>         /\ Lists[4] = <<"source", "floating_ip">>
    /\ Lists[5] = <<"source", "hypervisor">>    /\ Lists[6] = <<"source", "service">>
    /\ Lists[7] = <<"destination", "tenant">>   /\ Lists[8] = <<"destination", "server">>
    /\ Lists[9] = <<"destination", "other">>    /\ Lists[10] = <<"destination", "floating_ip">>
    /\ Lists[11] = <<"destination", "hypervisor">>
BY DEF Lists

(* While the clouds are listed the position is one of eleven.              *)
LEMMA Positions ==
    ASSUME at \in 0..Len(Lists), at # 0
    PROVE  at \in 1..11 /\ Len(Lists) = 11
BY ListsAre

(* What is added to the view by the list that is fetched.                  *)
Entries ==
    CASE at = 1 -> {Entry("source", "tenant", "tenant")}
      [] at = 2 -> {Original(s) : s \in {t \in Servers : source[t] # "gone"}}
      [] at = 4 -> {Entry("source", "floating_ip", s) : s \in {t \in Servers : source[t] # "gone"}}
      [] at = 6 -> IF hypervisors THEN {Entry("source", host, "host")} ELSE {}
      [] at = 7 -> {e \in {Tenant} : tenant}
      [] at = 8 -> {Copy(s) : s \in {t \in Servers : destination[t] # "none"}}
      [] at = 10 -> {Address(s) : s \in bound}
      [] OTHER -> {}

(* Fetching a list adds its entries to the view, or fails and adds none.   *)
LEMMA ListStep ==
    ASSUME at \in 0..Len(Lists), List
    PROVE  /\ at \in 1..11
           /\ NotListed \/ Listed(Entries)
           /\ at = 2 => ghosts' = {s \in Servers : /\ source[s] = "deleting"
                                                   /\ task[s] # "tell_deleted"}
           /\ at = 5 => hypervisors' = (host # "removed")
           /\ at # 2 => ghosts' = ghosts
           /\ at # 5 => hypervisors' = hypervisors
           /\ UNCHANGED <<cloudVars, taskVars, told, listings, faults>>
<1>1. at \in 1..11
  BY Positions, ListsAre DEF List, ListSourceServers, ListHypervisors, ListTenants, ListCopies,
     ListOthers, ListFloatingIps, ListHost, Fetches
<1>2. UNCHANGED <<cloudVars, taskVars, told, listings, faults>>
  BY DEF List
<1>3. CASE ListSourceServers /\ UNCHANGED hypervisors
  <2>1. at = 2
    BY <1>1, <1>3, ListsAre DEF ListSourceServers, Fetches
  <2>2. Entries = {Original(s) : s \in {t \in Servers : source[t] # "gone"}}
    BY <2>1 DEF Entries
  <2>. QED  BY <1>1, <1>2, <1>3, <2>1, <2>2 DEF ListSourceServers
<1>4. CASE ListHypervisors /\ UNCHANGED ghosts
  <2>1. (at = 5 /\ hypervisors' = (host # "removed")) \/ (at = 11 /\ UNCHANGED hypervisors)
    BY <1>1, <1>4, ListsAre DEF ListHypervisors, Fetches
  <2>2. Listed({})
    BY <1>4 DEF ListHypervisors
  <2>3. Entries = {}
    BY <2>1 DEF Entries
  <2>. QED  BY <1>1, <1>2, <1>4, <2>1, <2>2, <2>3
<1>5. CASE (ListTenants \/ ListCopies \/ ListOthers \/ ListFloatingIps \/ ListHost)
           /\ UNCHANGED <<hypervisors, ghosts>>
  <2>1. CASE ListTenants
    <3>1. ASSUME at = 1 PROVE Listed(Entries)
      BY <1>1, <2>1, <3>1, ListsAre DEF ListTenants, Fetches, Entries
    <3>2. ASSUME at = 7 PROVE Listed(Entries)
      BY <1>1, <2>1, <3>2, ListsAre DEF ListTenants, Fetches, Entries
    <3>3. at \in {1, 7}
      BY <1>1, <2>1, ListsAre DEF ListTenants, Fetches
    <3>4. at \in {1, 7} /\ Listed(Entries)
      BY <3>1, <3>2, <3>3
    <3>. QED  BY <1>1, <1>2, <1>5, <3>4
  <2>2. CASE ListCopies
    <3>1. at = 8
      BY <1>1, <2>2, ListsAre DEF ListCopies, Fetches
    <3>. QED  BY <1>1, <1>2, <1>5, <2>2, <3>1 DEF ListCopies, Entries
  <2>3. CASE ListOthers
    <3>1. at \in {3, 9}
      BY <1>1, <2>3, ListsAre DEF ListOthers
    <3>2. Entries = {}
      BY <3>1 DEF Entries
    <3>. QED  BY <1>1, <1>2, <1>5, <2>3, <3>1, <3>2 DEF ListOthers
  <2>4. CASE ListFloatingIps
    <3>1. ASSUME at = 4 PROVE Listed(Entries)
      BY <1>1, <2>4, <3>1, ListsAre DEF ListFloatingIps, Fetches, Entries
    <3>2. ASSUME at = 10 PROVE Listed(Entries)
      BY <1>1, <2>4, <3>2, ListsAre DEF ListFloatingIps, Fetches, Entries
    <3>3. at \in {4, 10}
      BY <1>1, <2>4, ListsAre DEF ListFloatingIps, Fetches
    <3>4. at \in {4, 10} /\ Listed(Entries)
      BY <3>1, <3>2, <3>3
    <3>. QED  BY <1>1, <1>2, <1>5, <3>4
  <2>5. CASE ListHost
    <3>1. at = 6
      BY <1>1, <2>5, ListsAre DEF ListHost, Fetches
    <3>. QED  BY <1>1, <1>2, <1>5, <2>5, <3>1 DEF ListHost, Entries
  <2>. QED  BY <1>5, <2>1, <2>2, <2>3, <2>4, <2>5
<1>. QED  BY <1>3, <1>4, <1>5 DEF List

-----------------------------------------------------------------------------
(* The migration.                                                          *)

(* As much of the types as the proofs need.                                *)
Types ==
    /\ source \in [Servers -> {"there", "deleting", "gone"}]
    /\ destination \in [Servers -> {"none", "building", "there"}]
    /\ task \in [Servers -> {"boot", "await", "associate", "tell_associated",
                             "terminate", "tell_deleted", "done", "failed"}]
    /\ bound \subseteq Servers
    /\ at \in 0..Len(Lists)

(* Every step keeps the state well typed.                                  *)
LEMMA TypesStep ==
    ASSUME Types, [Next]_vars
    PROVE  Types'
<1>. USE ListsAre DEF Types
<1>1. CASE Ask
  BY <1>1 DEF Ask, cloudVars
<1>2. CASE List
  <2>1. at' \in 0..11
    BY <1>2, ListStep DEF Listed, NotListed
  <2>. QED  BY <1>2, <2>1, ListStep DEF cloudVars, taskVars
<1>3. CASE Fault
  BY <1>3 DEF Fault, NotListed, cloudVars, taskVars
<1>4. CASE EnsureTenant
  BY <1>4 DEF EnsureTenant, AnswerLost, Answer, Loses, listVars
<1>5. CASE TellOfTenant
  BY <1>5 DEF TellOfTenant, Tell, cloudVars, listVars
<1>6. CASE ChangeHost
  BY <1>6 DEF ChangeHost, AnswerLost, Loses, Entry, listVars
<1>7. CASE TellOfHost
  BY <1>7 DEF TellOfHost, Tell, cloudVars, listVars
<1>8. ASSUME NEW x \in Servers, BootRequest(x) PROVE Types'
  BY <1>8 DEF BootRequest, Goto, AnswerLost, Answer, Loses, listVars
<1>9. ASSUME NEW x \in Servers, BootObserved(x) PROVE Types'
  BY <1>9 DEF BootObserved, Goto, Tell, Loses, cloudVars, listVars
<1>10. ASSUME NEW x \in Servers, BootFails(x) PROVE Types'
  BY <1>10 DEF BootFails, Goto, Loses, cloudVars, listVars
<1>11. ASSUME NEW x \in Servers, Associate(x) PROVE Types'
  BY <1>11 DEF Associate, Goto, AnswerLost, Answer, Loses, listVars
<1>12. ASSUME NEW x \in Servers, TellOfAddress(x) PROVE Types'
  BY <1>12 DEF TellOfAddress, Goto, Tell, cloudVars, listVars
<1>13. ASSUME NEW x \in Servers, Terminate(x) PROVE Types'
  BY <1>13 DEF Terminate, Goto, AnswerLost, Answer, Loses, listVars
<1>14. ASSUME NEW x \in Servers, TellOfDeletion(x) PROVE Types'
  BY <1>14 DEF TellOfDeletion, Goto, Tell, cloudVars, listVars
<1>15. ASSUME NEW x \in Servers, NovaBuilds(x) PROVE Types'
  BY <1>15 DEF NovaBuilds, taskVars, listVars
<1>16. ASSUME NEW x \in Servers, NovaDeletes(x) PROVE Types'
  BY <1>16 DEF NovaDeletes, taskVars, listVars
<1>17. CASE UNCHANGED vars
  BY <1>17 DEF vars, cloudVars, taskVars, listVars
<1>. QED
  BY <1>1, <1>2, <1>3, <1>4, <1>5, <1>6, <1>7, <1>8, <1>9, <1>10, <1>11, <1>12, <1>13, <1>14, <1>15, <1>16, <1>17 DEF Next

(* A server leaves the source after its copy was made in the destination.  *)
Life ==
    \A s \in Servers :
        /\ source[s] # "there" => task[s] \in {"tell_deleted", "done", "failed"}
        /\ destination[s] = "none" <=> task[s] = "boot"

(* Every step keeps how the task of a server and its statuses agree.       *)
LEMMA LifeStep ==
    ASSUME Types, Life, [Next]_vars
    PROVE  Life'
<1>. USE DEF Types, Life
<1>1. CASE Ask
  BY <1>1 DEF Ask, cloudVars
<1>2. CASE List
  BY <1>2, ListStep DEF cloudVars, taskVars
<1>3. CASE Fault
  BY <1>3 DEF Fault, NotListed, cloudVars, taskVars
<1>4. CASE EnsureTenant
  BY <1>4 DEF EnsureTenant, AnswerLost, Answer, Loses, listVars
<1>5. CASE TellOfTenant
  BY <1>5 DEF TellOfTenant, Tell, cloudVars, listVars
<1>6. CASE ChangeHost
  BY <1>6 DEF ChangeHost, AnswerLost, Loses, Entry, listVars
<1>7. CASE TellOfHost
  BY <1>7 DEF TellOfHost, Tell, cloudVars, listVars
<1>8. ASSUME NEW x \in Servers, BootRequest(x) PROVE Life'
  BY <1>8 DEF BootRequest, Goto, AnswerLost, Answer, Loses, listVars
<1>9. ASSUME NEW x \in Servers, BootObserved(x) PROVE Life'
  BY <1>9 DEF BootObserved, Goto, Tell, Loses, cloudVars, listVars
<1>10. ASSUME NEW x \in Servers, BootFails(x) PROVE Life'
  BY <1>10 DEF BootFails, Goto, Loses, cloudVars, listVars
<1>11. ASSUME NEW x \in Servers, Associate(x) PROVE Life'
  BY <1>11 DEF Associate, Goto, AnswerLost, Answer, Loses, listVars
<1>12. ASSUME NEW x \in Servers, TellOfAddress(x) PROVE Life'
  BY <1>12 DEF TellOfAddress, Goto, Tell, cloudVars, listVars
<1>13. ASSUME NEW x \in Servers, Terminate(x) PROVE Life'
  BY <1>13 DEF Terminate, Goto, AnswerLost, Answer, Loses, listVars
<1>14. ASSUME NEW x \in Servers, TellOfDeletion(x) PROVE Life'
  BY <1>14 DEF TellOfDeletion, Goto, Tell, cloudVars, listVars
<1>15. ASSUME NEW x \in Servers, NovaBuilds(x) PROVE Life'
  BY <1>15 DEF NovaBuilds, taskVars, listVars
<1>16. ASSUME NEW x \in Servers, NovaDeletes(x) PROVE Life'
  BY <1>16 DEF NovaDeletes, taskVars, listVars
<1>17. CASE UNCHANGED vars
  BY <1>17 DEF vars, cloudVars, taskVars, listVars
<1>. QED
  BY <1>1, <1>2, <1>3, <1>4, <1>5, <1>6, <1>7, <1>8, <1>9, <1>10, <1>11, <1>12, <1>13, <1>14, <1>15, <1>16, <1>17 DEF Next

-----------------------------------------------------------------------------
(* The view.                                                               *)

Passed(k) == answer = "view" \/ at > k

(* What a list that was not fetched yet would show is not in the view.     *)
Fresh ==
    /\ at # 0 => answer = "none"
    /\ at \in 1..2 => \A s \in Servers : Original(s) \notin view
    /\ at \in 1..6 => ~\E e \in view : e.id = "host"
    /\ at \in 1..7 => Tenant \notin view
    /\ at \in 1..8 => \A s \in Servers : Copy(s) \notin view
    /\ at \in 1..10 => \A s \in Servers : Address(s) \notin view

(* What each list contains, told by its position.                          *)
LEMMA EntriesAre ==
    ASSUME Types, at \in 1..11
    PROVE  /\ \A s \in Servers :
              /\ Original(s) \in Entries <=> at = 2 /\ source[s] # "gone"
              /\ Copy(s) \in Entries <=> at = 8 /\ destination[s] # "none"
              /\ Address(s) \in Entries <=> at = 10 /\ s \in bound
           /\ Tenant \in Entries <=> at = 7 /\ tenant
           /\ Entry("source", host, "host") \in Entries <=> at = 6 /\ hypervisors
           /\ (\E e \in Entries : e.id = "host") => at = 6 /\ hypervisors
<1>. USE DEF Original, Copy, Address, Tenant, Host
<1>1. \A a, b, c, x, y, z : Entry(a, b, c) = Entry(x, y, z) <=> a = x /\ b = y /\ c = z
  BY DEF Entry
<1>2. \A a, b, c : Entry(a, b, c).id = c
  BY DEF Entry
<1>3. CASE at \in {3, 5, 9, 11}
  <2>1. Entries = {}
    BY <1>3 DEF Entries
  <2>. QED  BY <1>3, <2>1
<1>4. CASE at = 1
  <2>1. Entries = {Entry("source", "tenant", "tenant")}
    BY <1>4 DEF Entries
  <2>. QED  BY <1>1, <1>2, <1>4, <2>1
<1>5. CASE at = 2
  <2>1. Entries = {Entry("source", "server", s) : s \in {t \in Servers : source[t] # "gone"}}
    BY <1>5 DEF Entries
  <2>2. \A e \in Entries : e.id \in Servers
    BY <1>2, <2>1
  <2>3. ~\E e \in Entries : e.id = "host"
    BY <2>2, ListingAssumption
  <2>4. \A e : e \in Entries <=> \E s \in Servers : source[s] # "gone" /\ e = Entry("source", "server", s)
    BY <2>1
  <2>. QED  BY <1>1, <1>5, <2>3, <2>4, ListingAssumption
<1>6. CASE at = 4
  <2>1. Entries = {Entry("source", "floating_ip", s) : s \in {t \in Servers : source[t] # "gone"}}
    BY <1>6 DEF Entries
  <2>2. \A e \in Entries : e.id \in Servers
    BY <1>2, <2>1
  <2>3. ~\E e \in Entries : e.id = "host"
    BY <2>2, ListingAssumption
  <2>4. \A e : e \in Entries <=> \E s \in Servers : source[s] # "gone" /\ e = Entry("source", "floating_ip", s)
    BY <2>1
  <2>. QED  BY <1>1, <1>6, <2>3, <2>4, ListingAssumption
<1>7. CASE at = 6
  <2>1. Entries = IF hypervisors THEN {Entry("source", host, "host")} ELSE {}
    BY <1>7 DEF Entries
  <2>. QED  BY <1>1, <1>2, <1>7, <2>1, ListingAssumption
<1>8. CASE at = 7
  <2>1. Entries = {e \in {Entry("destination", "tenant", "tenant")} : tenant}
    BY <1>8 DEF Entries
  <2>. QED  BY <1>1, <1>2, <1>8, <2>1
<1>9. CASE at = 8
  <2>1. Entries = {Entry("destination", "server", s) : s \in {t \in Servers : destination[t] # "none"}}
    BY <1>9 DEF Entries
  <2>2. \A e \in Entries : e.id \in Servers
    BY <1>2, <2>1
  <2>3. ~\E e \in Entries : e.id = "host"
    BY <2>2, ListingAssumption
  <2>4. \A e : e \in Entries <=> \E s \in Servers : destination[s] # "none" /\ e = Entry("destination", "server", s)
    BY <2>1
  <2>. QED  BY <1>1, <1>9, <2>3, <2>4
<1>10. CASE at = 10
  <2>1. Entries = {Entry("destination", "floating_ip", s) : s \in bound}
    BY <1>10 DEF Entries
  <2>2. \A e \in Entries : e.id \in Servers
    BY <1>2, <2>1 DEF Types
  <2>3. ~\E e \in Entries : e.id = "host"
    BY <2>2, ListingAssumption
  <2>. QED  BY <1>1, <1>10, <2>1, <2>3
<1>. QED  BY <1>3, <1>4, <1>5, <1>6, <1>7, <1>8, <1>9, <1>10

(* Nothing is in the view before its list is fetched.                      *)
LEMMA FreshStep ==
    ASSUME Types, Fresh, [Next]_vars
    PROVE  Fresh'
<1>. USE DEF Fresh, Original, Copy, Address, Tenant, Host
<1>1. CASE Ask
  BY <1>1 DEF Ask, cloudVars
<1>2. CASE List
  <2>1. at \in 1..11
    BY <1>2, ListStep DEF Types
  <2>2. CASE NotListed
    BY <2>2 DEF NotListed
  <2>3. CASE Listed(Entries)
    <3>1. view' = view \cup Entries
      BY <2>3 DEF Listed
    <3>2. at' = 0 \/ (at' = at + 1 /\ answer' = answer)
      BY <2>3 DEF Listed
    <3>. QED  BY <2>1, <3>1, <3>2, EntriesAre
  <2>. QED  BY <1>2, <2>2, <2>3, ListStep DEF Types
<1>3. CASE Fault
  BY <1>3 DEF Fault, NotListed, cloudVars, taskVars
<1>4. CASE EnsureTenant
  BY <1>4 DEF EnsureTenant, AnswerLost, Answer, Loses, listVars
<1>5. CASE TellOfTenant
  BY <1>5 DEF TellOfTenant, Tell, cloudVars, listVars
<1>6. CASE ChangeHost
  BY <1>6 DEF ChangeHost, AnswerLost, Loses, Entry, listVars
<1>7. CASE TellOfHost
  BY <1>7 DEF TellOfHost, Tell, cloudVars, listVars
<1>8. ASSUME NEW x \in Servers, BootRequest(x) PROVE Fresh'
  BY <1>8 DEF BootRequest, Goto, AnswerLost, Answer, Loses, listVars
<1>9. ASSUME NEW x \in Servers, BootObserved(x) PROVE Fresh'
  BY <1>9 DEF BootObserved, Goto, Tell, Loses, cloudVars, listVars
<1>10. ASSUME NEW x \in Servers, BootFails(x) PROVE Fresh'
  BY <1>10 DEF BootFails, Goto, Loses, cloudVars, listVars
<1>11. ASSUME NEW x \in Servers, Associate(x) PROVE Fresh'
  BY <1>11 DEF Associate, Goto, AnswerLost, Answer, Loses, listVars
<1>12. ASSUME NEW x \in Servers, TellOfAddress(x) PROVE Fresh'
  BY <1>12 DEF TellOfAddress, Goto, Tell, cloudVars, listVars
<1>13. ASSUME NEW x \in Servers, Terminate(x) PROVE Fresh'
  BY <1>13 DEF Terminate, Goto, AnswerLost, Answer, Loses, listVars
<1>14. ASSUME NEW x \in Servers, TellOfDeletion(x) PROVE Fresh'
  BY <1>14 DEF TellOfDeletion, Goto, Tell, cloudVars, listVars
<1>15. ASSUME NEW x \in Servers, NovaBuilds(x) PROVE Fresh'
  BY <1>15 DEF NovaBuilds, taskVars, listVars
<1>16. ASSUME NEW x \in Servers, NovaDeletes(x) PROVE Fresh'
  BY <1>16 DEF NovaDeletes, taskVars, listVars
<1>17. CASE UNCHANGED vars
  BY <1>17 DEF vars, cloudVars, taskVars, listVars
<1>. QED
  BY <1>1, <1>2, <1>3, <1>4, <1>5, <1>6, <1>7, <1>8, <1>9, <1>10, <1>11, <1>12, <1>13, <1>14, <1>15, <1>16, <1>17 DEF Next

(* A list is passed when it is fetched, and not earlier.                   *)
LEMMA PassedStep ==
    ASSUME Fresh, at \in 1..11, Listed(Entries), NEW k \in 1..11
    PROVE  Passed(k)' => at >= k
BY ListsAre DEF Fresh, Listed, Passed

-----------------------------------------------------------------------------
(* What was listed, told of or is going to be told of, part by part.       *)

SourceShown ==
    Passed(2) => \A s \in Servers :
        \/ source[s] # "deleting" /\ (Original(s) \in view <=> source[s] # "gone")
        \/ Original(s) \in told \cup untold
        \/ task[s] = "tell_deleted"
        \/ s \in ghosts

(* Source servers are in the view, or an event tells of them.              *)
LEMMA SourceShownStep ==
    ASSUME Types, Life, Fresh, SourceShown, [Next]_vars
    PROVE  SourceShown'
<1>. USE DEF Types, SourceShown, Passed, Original, Copy, Address, Tenant, Host
<1>1. CASE Ask
  BY <1>1 DEF Ask, cloudVars
<1>2. CASE List
  <2>1. at \in 1..11
    BY <1>2, ListStep DEF Types
  <2>2. CASE NotListed
    BY <2>1, <2>2, <1>2, ListStep DEF NotListed
  <2>3. CASE Listed(Entries)
    <3>1. /\ view' = view \cup Entries
          /\ Passed(2)' => at >= 2
      BY <2>1, <2>3, PassedStep DEF Listed
    <3>2. UNCHANGED <<source, task, told, untold>>
      BY <1>2, ListStep DEF cloudVars, taskVars, Types
    <3>3. CASE at = 2
      BY <2>1, <3>1, <3>2, <3>3, <1>2, ListStep, EntriesAre DEF Fresh
    <3>4. CASE at > 2
      BY <2>1, <3>1, <3>2, <3>4, <1>2, ListStep, EntriesAre
    <3>. QED  BY <2>1, <3>1, <3>3, <3>4
  <2>. QED  BY <1>2, <2>2, <2>3, ListStep DEF Types
<1>3. CASE Fault
  BY <1>3 DEF Fault, NotListed, cloudVars, taskVars
<1>4. CASE EnsureTenant
  BY <1>4 DEF EnsureTenant, AnswerLost, Answer, Loses, listVars
<1>5. CASE TellOfTenant
  BY <1>5 DEF TellOfTenant, Tell, cloudVars, listVars
<1>6. CASE ChangeHost
  BY <1>6 DEF ChangeHost, AnswerLost, Loses, Entry, listVars
<1>7. CASE TellOfHost
  BY <1>7 DEF TellOfHost, Tell, cloudVars, listVars
<1>8. ASSUME NEW x \in Servers, BootRequest(x) PROVE SourceShown'
  BY <1>8 DEF BootRequest, Goto, AnswerLost, Answer, Loses, listVars
<1>9. ASSUME NEW x \in Servers, BootObserved(x) PROVE SourceShown'
  BY <1>9 DEF BootObserved, Goto, Tell, Loses, cloudVars, listVars
<1>10. ASSUME NEW x \in Servers, BootFails(x) PROVE SourceShown'
  BY <1>10 DEF BootFails, Goto, Loses, cloudVars, listVars
<1>11. ASSUME NEW x \in Servers, Associate(x) PROVE SourceShown'
  BY <1>11 DEF Associate, Goto, AnswerLost, Answer, Loses, listVars
<1>12. ASSUME NEW x \in Servers, TellOfAddress(x) PROVE SourceShown'
  BY <1>12 DEF TellOfAddress, Goto, Tell, cloudVars, listVars
<1>13. ASSUME NEW x \in Servers, Terminate(x) PROVE SourceShown'
  BY <1>13 DEF Terminate, Goto, AnswerLost, Answer, Loses, listVars
<1>14. ASSUME NEW x \in Servers, TellOfDeletion(x) PROVE SourceShown'
  BY <1>14 DEF TellOfDeletion, Goto, Tell, cloudVars, listVars
<1>15. ASSUME NEW x \in Servers, NovaBuilds(x) PROVE SourceShown'
  BY <1>15 DEF NovaBuilds, taskVars, listVars
<1>16. ASSUME NEW x \in Servers, NovaDeletes(x) PROVE SourceShown'
  BY <1>16 DEF NovaDeletes, taskVars, listVars
<1>17. CASE UNCHANGED vars
  BY <1>17 DEF vars, cloudVars, taskVars, listVars
<1>. QED
  BY <1>1, <1>2, <1>3, <1>4, <1>5, <1>6, <1>7, <1>8, <1>9, <1>10, <1>11, <1>12, <1>13, <1>14, <1>15, <1>16, <1>17 DEF Next

CopiesShown ==
    Passed(8) => \A s \in Servers :
        \/ Copy(s) \in view <=> destination[s] # "none"
        \/ Copy(s) \in told \cup untold
        \/ task[s] = "await"

(* Copies in the destination are in the view, or an event tells of them.   *)
LEMMA CopiesShownStep ==
    ASSUME Types, Life, Fresh, CopiesShown, [Next]_vars
    PROVE  CopiesShown'
<1>. USE DEF Types, Life, CopiesShown, Passed, Original, Copy, Address, Tenant, Host
<1>1. CASE Ask
  BY <1>1 DEF Ask, cloudVars
<1>2. CASE List
  <2>1. at \in 1..11
    BY <1>2, ListStep DEF Types
  <2>2. CASE NotListed
    BY <2>1, <2>2, <1>2, ListStep DEF NotListed
  <2>3. CASE Listed(Entries)
    <3>1. /\ view' = view \cup Entries
          /\ Passed(8)' => at >= 8
      BY <2>1, <2>3, PassedStep DEF Listed
    <3>2. UNCHANGED <<destination, task, told, untold>>
      BY <1>2, ListStep DEF cloudVars, taskVars, Types
    <3>3. CASE at = 8
      BY <2>1, <3>1, <3>2, <3>3, <1>2, ListStep, EntriesAre DEF Fresh
    <3>4. CASE at > 8
      BY <2>1, <3>1, <3>2, <3>4, <1>2, ListStep, EntriesAre
    <3>. QED  BY <2>1, <3>1, <3>3, <3>4
  <2>. QED  BY <1>2, <2>2, <2>3, ListStep DEF Types
<1>3. CASE Fault
  BY <1>3 DEF Fault, NotListed, cloudVars, taskVars
<1>4. CASE EnsureTenant
  BY <1>4 DEF EnsureTenant, AnswerLost, Answer, Loses, listVars
<1>5. CASE TellOfTenant
  BY <1>5 DEF TellOfTenant, Tell, cloudVars, listVars
<1>6. CASE ChangeHost
  BY <1>6 DEF ChangeHost, AnswerLost, Loses, Entry, listVars
<1>7. CASE TellOfHost
  BY <1>7 DEF TellOfHost, Tell, cloudVars, listVars
<1>8. ASSUME NEW x \in Servers, BootRequest(x) PROVE CopiesShown'
  BY <1>8 DEF BootRequest, Goto, AnswerLost, Answer, Loses, listVars
<1>9. ASSUME NEW x \in Servers, BootObserved(x) PROVE CopiesShown'
  BY <1>9 DEF BootObserved, Goto, Tell, Loses, cloudVars, listVars
<1>10. ASSUME NEW x \in Servers, BootFails(x) PROVE CopiesShown'
  BY <1>10 DEF BootFails, Goto, Loses, cloudVars, listVars
<1>11. ASSUME NEW x \in Servers, Associate(x) PROVE CopiesShown'
  BY <1>11 DEF Associate, Goto, AnswerLost, Answer, Loses, listVars
<1>12. ASSUME NEW x \in Servers, TellOfAddress(x) PROVE CopiesShown'
  BY <1>12 DEF TellOfAddress, Goto, Tell, cloudVars, listVars
<1>13. ASSUME NEW x \in Servers, Terminate(x) PROVE CopiesShown'
  BY <1>13 DEF Terminate, Goto, AnswerLost, Answer, Loses, listVars
<1>14. ASSUME NEW x \in Servers, TellOfDeletion(x) PROVE CopiesShown'
  BY <1>14 DEF TellOfDeletion, Goto, Tell, cloudVars, listVars
<1>15. ASSUME NEW x \in Servers, NovaBuilds(x) PROVE CopiesShown'
  BY <1>15 DEF NovaBuilds, taskVars, listVars
<1>16. ASSUME NEW x \in Servers, NovaDeletes(x) PROVE CopiesShown'
  BY <1>16 DEF NovaDeletes, taskVars, listVars
<1>17. CASE UNCHANGED vars
  BY <1>17 DEF vars, cloudVars, taskVars, listVars
<1>. QED
  BY <1>1, <1>2, <1>3, <1>4, <1>5, <1>6, <1>7, <1>8, <1>9, <1>10, <1>11, <1>12, <1>13, <1>14, <1>15, <1>16, <1>17 DEF Next

FipsShown ==
    Passed(10) => \A s \in Servers :
        \/ Address(s) \in view <=> s \in bound
        \/ Address(s) \in told \cup untold
        \/ task[s] = "tell_associated"

(* Bound floating ips are in the view, or an event tells of them.          *)
LEMMA FipsShownStep ==
    ASSUME Types, Fresh, FipsShown, [Next]_vars
    PROVE  FipsShown'
<1>. USE DEF Types, FipsShown, Passed, Original, Copy, Address, Tenant, Host
<1>1. CASE Ask
  BY <1>1 DEF Ask, cloudVars
<1>2. CASE List
  <2>1. at \in 1..11
    BY <1>2, ListStep DEF Types
  <2>2. CASE NotListed
    BY <2>1, <2>2, <1>2, ListStep DEF NotListed
  <2>3. CASE Listed(Entries)
    <3>1. /\ view' = view \cup Entries
          /\ Passed(10)' => at >= 10
      BY <2>1, <2>3, PassedStep DEF Listed
    <3>2. UNCHANGED <<bound, task, told, untold>>
      BY <1>2, ListStep DEF cloudVars, taskVars, Types
    <3>3. CASE at = 10
      BY <2>1, <3>1, <3>2, <3>3, <1>2, ListStep, EntriesAre DEF Fresh
    <3>4. CASE at > 10
      BY <2>1, <3>1, <3>2, <3>4, <1>2, ListStep, EntriesAre
    <3>. QED  BY <2>1, <3>1, <3>3, <3>4
  <2>. QED  BY <1>2, <2>2, <2>3, ListStep DEF Types
<1>3. CASE Fault
  BY <1>3 DEF Fault, NotListed, cloudVars, taskVars
<1>4. CASE EnsureTenant
  BY <1>4 DEF EnsureTenant, AnswerLost, Answer, Loses, listVars
<1>5. CASE TellOfTenant
  BY <1>5 DEF TellOfTenant, Tell, cloudVars, listVars
<1>6. CASE ChangeHost
  BY <1>6 DEF ChangeHost, AnswerLost, Loses, Entry, listVars
<1>7. CASE TellOfHost
  BY <1>7 DEF TellOfHost, Tell, cloudVars, listVars
<1>8. ASSUME NEW x \in Servers, BootRequest(x) PROVE FipsShown'
  BY <1>8 DEF BootRequest, Goto, AnswerLost, Answer, Loses, listVars
<1>9. ASSUME NEW x \in Servers, BootObserved(x) PROVE FipsShown'
  BY <1>9 DEF BootObserved, Goto, Tell, Loses, cloudVars, listVars
<1>10. ASSUME NEW x \in Servers, BootFails(x) PROVE FipsShown'
  BY <1>10 DEF BootFails, Goto, Loses, cloudVars, listVars
<1>11. ASSUME NEW x \in Servers, Associate(x) PROVE FipsShown'
  BY <1>11 DEF Associate, Goto, AnswerLost, Answer, Loses, listVars
<1>12. ASSUME NEW x \in Servers, TellOfAddress(x) PROVE FipsShown'
  BY <1>12 DEF TellOfAddress, Goto, Tell, cloudVars, listVars
<1>13. ASSUME NEW x \in Servers, Terminate(x) PROVE FipsShown'
  BY <1>13 DEF Terminate, Goto, AnswerLost, Answer, Loses, listVars
<1>14. ASSUME NEW x \in Servers, TellOfDeletion(x) PROVE FipsShown'
  BY <1>14 DEF TellOfDeletion, Goto, Tell, cloudVars, listVars
<1>15. ASSUME NEW x \in Servers, NovaBuilds(x) PROVE FipsShown'
  BY <1>15 DEF NovaBuilds, taskVars, listVars
<1>16. ASSUME NEW x \in Servers, NovaDeletes(x) PROVE FipsShown'
  BY <1>16 DEF NovaDeletes, taskVars, listVars
<1>17. CASE UNCHANGED vars
  BY <1>17 DEF vars, cloudVars, taskVars, listVars
<1>. QED
  BY <1>1, <1>2, <1>3, <1>4, <1>5, <1>6, <1>7, <1>8, <1>9, <1>10, <1>11, <1>12, <1>13, <1>14, <1>15, <1>16, <1>17 DEF Next

TenantShown ==
    Passed(7) =>
        \/ Tenant \in view <=> tenant
        \/ Tenant \in told \cup untold
        \/ tenantTask = "tell"

(* Tenants are in the view, or an event tells of them.                     *)
LEMMA TenantShownStep ==
    ASSUME Types, Fresh, TenantShown, [Next]_vars
    PROVE  TenantShown'
<1>. USE DEF Types, TenantShown, Passed, Original, Copy, Address, Tenant, Host
<1>1. CASE Ask
  BY <1>1 DEF Ask, cloudVars
<1>2. CASE List
  <2>1. at \in 1..11
    BY <1>2, ListStep DEF Types
  <2>2. CASE NotListed
    BY <2>1, <2>2, <1>2, ListStep DEF NotListed
  <2>3. CASE Listed(Entries)
    <3>1. /\ view' = view \cup Entries
          /\ Passed(7)' => at >= 7
      BY <2>1, <2>3, PassedStep DEF Listed
    <3>2. UNCHANGED <<tenant, tenantTask, told, untold>>
      BY <1>2, ListStep DEF cloudVars, taskVars, Types
    <3>3. CASE at = 7
      BY <2>1, <3>1, <3>2, <3>3, <1>2, ListStep, EntriesAre DEF Fresh
    <3>4. CASE at > 7
      BY <2>1, <3>1, <3>2, <3>4, <1>2, ListStep, EntriesAre
    <3>. QED  BY <2>1, <3>1, <3>3, <3>4
  <2>. QED  BY <1>2, <2>2, <2>3, ListStep DEF Types
<1>3. CASE Fault
  BY <1>3 DEF Fault, NotListed, cloudVars, taskVars
<1>4. CASE EnsureTenant
  BY <1>4 DEF EnsureTenant, AnswerLost, Answer, Loses, listVars
<1>5. CASE TellOfTenant
  BY <1>5 DEF TellOfTenant, Tell, cloudVars, listVars
<1>6. CASE ChangeHost
  BY <1>6 DEF ChangeHost, AnswerLost, Loses, Entry, listVars
<1>7. CASE TellOfHost
  BY <1>7 DEF TellOfHost, Tell, cloudVars, listVars
<1>8. ASSUME NEW x \in Servers, BootRequest(x) PROVE TenantShown'
  BY <1>8 DEF BootRequest, Goto, AnswerLost, Answer, Loses, listVars
<1>9. ASSUME NEW x \in Servers, BootObserved(x) PROVE TenantShown'
  BY <1>9 DEF BootObserved, Goto, Tell, Loses, cloudVars, listVars
<1>10. ASSUME NEW x \in Servers, BootFails(x) PROVE TenantShown'
  BY <1>10 DEF BootFails, Goto, Loses, cloudVars, listVars
<1>11. ASSUME NEW x \in Servers, Associate(x) PROVE TenantShown'
  BY <1>11 DEF Associate, Goto, AnswerLost, Answer, Loses, listVars
<1>12. ASSUME NEW x \in Servers, TellOfAddress(x) PROVE TenantShown'
  BY <1>12 DEF TellOfAddress, Goto, Tell, cloudVars, listVars
<1>13. ASSUME NEW x \in Servers, Terminate(x) PROVE TenantShown'
  BY <1>13 DEF Terminate, Goto, AnswerLost, Answer, Loses, listVars
<1>14. ASSUME NEW x \in Servers, TellOfDeletion(x) PROVE TenantShown'
  BY <1>14 DEF TellOfDeletion, Goto, Tell, cloudVars, listVars
<1>15. ASSUME NEW x \in Servers, NovaBuilds(x) PROVE TenantShown'
  BY <1>15 DEF NovaBuilds, taskVars, listVars
<1>16. ASSUME NEW x \in Servers, NovaDeletes(x) PROVE TenantShown'
  BY <1>16 DEF NovaDeletes, taskVars, listVars
<1>17. CASE UNCHANGED vars
  BY <1>17 DEF vars, cloudVars, taskVars, listVars
<1>. QED
  BY <1>1, <1>2, <1>3, <1>4, <1>5, <1>6, <1>7, <1>8, <1>9, <1>10, <1>11, <1>12, <1>13, <1>14, <1>15, <1>16, <1>17 DEF Next

(* No hypervisor was listed only if there was none any more.               *)
HostShown ==
    /\ at = 6 /\ ~hypervisors => host = "removed"
    /\ Passed(6) =>
        \/ host = "removed" /\ ~\E e \in view : e.id = "host"
        \/ Shows("source", host, "host")
        \/ Host \in told \cup untold
        \/ hostTask = "tell"

(* The host is in the view as it is, or an event tells of it.              *)
LEMMA HostShownStep ==
    ASSUME Types, Fresh, HostShown, [Next]_vars
    PROVE  HostShown'
<1>. USE DEF Types, HostShown, Passed, Shows, Original, Copy, Address, Tenant, Host
<1>1. CASE Ask
  BY <1>1 DEF Ask, cloudVars
<1>2. CASE List
  <2>1. at \in 1..11
    BY <1>2, ListStep DEF Types
  <2>2. CASE NotListed
    BY <2>1, <2>2, <1>2, ListStep DEF NotListed
  <2>3. CASE Listed(Entries)
    <3>1. /\ view' = view \cup Entries
          /\ Passed(6)' => at >= 6
          /\ at' = 6 => at = 5
      BY <2>1, <2>3, PassedStep, ListsAre DEF Listed
    <3>2. /\ UNCHANGED <<host, hostTask, told, untold>>
          /\ at = 5 => hypervisors' = (host # "removed")
      BY <1>2, ListStep DEF cloudVars, taskVars, Types
    <3>3. at' = 6 /\ ~hypervisors' => host' = "removed"
      BY <3>1, <3>2
    <3>4. CASE at < 6
      BY <2>1, <3>1, <3>3, <3>4
    <3>5. CASE at = 6
      BY <2>1, <3>1, <3>2, <3>3, <3>5, EntriesAre DEF Fresh
    <3>6. CASE at > 6
      <4>1. Passed(6)
        BY <3>6
      <4>2. (\E e \in view' : e.id = "host") => \E e \in view : e.id = "host"
        BY <2>1, <3>1, <3>6, EntriesAre
      <4>. QED  BY <3>1, <3>2, <3>3, <4>1, <4>2
    <3>. QED  BY <2>1, <3>4, <3>5, <3>6
  <2>. QED  BY <1>2, <2>2, <2>3, ListStep DEF Types
<1>3. CASE Fault
  BY <1>3 DEF Fault, NotListed, cloudVars, taskVars
<1>4. CASE EnsureTenant
  BY <1>4 DEF EnsureTenant, AnswerLost, Answer, Loses, listVars
<1>5. CASE TellOfTenant
  BY <1>5 DEF TellOfTenant, Tell, cloudVars, listVars
<1>6. CASE ChangeHost
  BY <1>6 DEF ChangeHost, AnswerLost, Loses, Entry, listVars
<1>7. CASE TellOfHost
  BY <1>7 DEF TellOfHost, Tell, cloudVars, listVars
<1>8. ASSUME NEW x \in Servers, BootRequest(x) PROVE HostShown'
  BY <1>8 DEF BootRequest, Goto, AnswerLost, Answer, Loses, listVars
<1>9. ASSUME NEW x \in Servers, BootObserved(x) PROVE HostShown'
  BY <1>9 DEF BootObserved, Goto, Tell, Loses, cloudVars, listVars
<1>10. ASSUME NEW x \in Servers, BootFails(x) PROVE HostShown'
  BY <1>10 DEF BootFails, Goto, Loses, cloudVars, listVars
<1>11. ASSUME NEW x \in Servers, Associate(x) PROVE HostShown'
  BY <1>11 DEF Associate, Goto, AnswerLost, Answer, Loses, listVars
<1>12. ASSUME NEW x \in Servers, TellOfAddress(x) PROVE HostShown'
  BY <1>12 DEF TellOfAddress, Goto, Tell, cloudVars, listVars
<1>13. ASSUME NEW x \in Servers, Terminate(x) PROVE HostShown'
  BY <1>13 DEF Terminate, Goto, AnswerLost, Answer, Loses, listVars
<1>14. ASSUME NEW x \in Servers, TellOfDeletion(x) PROVE HostShown'
  BY <1>14 DEF TellOfDeletion, Goto, Tell, cloudVars, listVars
<1>15. ASSUME NEW x \in Servers, NovaBuilds(x) PROVE HostShown'
  BY <1>15 DEF NovaBuilds, taskVars, listVars
<1>16. ASSUME NEW x \in Servers, NovaDeletes(x) PROVE HostShown'
  BY <1>16 DEF NovaDeletes, taskVars, listVars
<1>17. CASE UNCHANGED vars
  BY <1>17 DEF vars, cloudVars, taskVars, listVars
<1>. QED
  BY <1>1, <1>2, <1>3, <1>4, <1>5, <1>6, <1>7, <1>8, <1>9, <1>10, <1>11, <1>12, <1>13, <1>14, <1>15, <1>16, <1>17 DEF Next

(* A server that is not in the list of the source is in the destination.   *)
SomewhereShown ==
    \A s \in Servers :
        /\ Passed(2) => Original(s) \in view \/ destination[s] # "none"
        /\ Passed(8) => Original(s) \in view \/ Copy(s) \in view

(* A server that moves is in the list of one cloud or the other.           *)
LEMMA SomewhereShownStep ==
    ASSUME Types, Life, Fresh, SomewhereShown, [Next]_vars
    PROVE  SomewhereShown'
<1>. USE DEF Types, Life, SomewhereShown, Passed, Original, Copy, Address, Tenant, Host
<1>1. CASE Ask
  BY <1>1 DEF Ask, cloudVars
<1>2. CASE List
  <2>1. at \in 1..11
    BY <1>2, ListStep DEF Types
  <2>2. CASE NotListed
    BY <2>1, <2>2, <1>2, ListStep DEF NotListed
  <2>3. CASE Listed(Entries)
    <3>1. /\ view' = view \cup Entries
          /\ Passed(2)' => at >= 2
          /\ Passed(8)' => at >= 8
      BY <2>1, <2>3, PassedStep DEF Listed
    <3>2. UNCHANGED <<source, destination, task>>
      BY <1>2, ListStep DEF cloudVars, taskVars, Types
    <3>3. at > 2 => Passed(2) /\ (at > 8 => Passed(8))
      BY <2>1
    <3>. QED  BY <2>1, <3>1, <3>2, <3>3, EntriesAre
  <2>. QED  BY <1>2, <2>2, <2>3, ListStep DEF Types
<1>3. CASE Fault
  BY <1>3 DEF Fault, NotListed, cloudVars, taskVars
<1>4. CASE EnsureTenant
  BY <1>4 DEF EnsureTenant, AnswerLost, Answer, Loses, listVars
<1>5. CASE TellOfTenant
  BY <1>5 DEF TellOfTenant, Tell, cloudVars, listVars
<1>6. CASE ChangeHost
  BY <1>6 DEF ChangeHost, AnswerLost, Loses, Entry, listVars
<1>7. CASE TellOfHost
  BY <1>7 DEF TellOfHost, Tell, cloudVars, listVars
<1>8. ASSUME NEW x \in Servers, BootRequest(x) PROVE SomewhereShown'
  BY <1>8 DEF BootRequest, Goto, AnswerLost, Answer, Loses, listVars
<1>9. ASSUME NEW x \in Servers, BootObserved(x) PROVE SomewhereShown'
  BY <1>9 DEF BootObserved, Goto, Tell, Loses, cloudVars, listVars
<1>10. ASSUME NEW x \in Servers, BootFails(x) PROVE SomewhereShown'
  BY <1>10 DEF BootFails, Goto, Loses, cloudVars, listVars
<1>11. ASSUME NEW x \in Servers, Associate(x) PROVE SomewhereShown'
  BY <1>11 DEF Associate, Goto, AnswerLost, Answer, Loses, listVars
<1>12. ASSUME NEW x \in Servers, TellOfAddress(x) PROVE SomewhereShown'
  BY <1>12 DEF TellOfAddress, Goto, Tell, cloudVars, listVars
<1>13. ASSUME NEW x \in Servers, Terminate(x) PROVE SomewhereShown'
  BY <1>13 DEF Terminate, Goto, AnswerLost, Answer, Loses, listVars
<1>14. ASSUME NEW x \in Servers, TellOfDeletion(x) PROVE SomewhereShown'
  BY <1>14 DEF TellOfDeletion, Goto, Tell, cloudVars, listVars
<1>15. ASSUME NEW x \in Servers, NovaBuilds(x) PROVE SomewhereShown'
  BY <1>15 DEF NovaBuilds, taskVars, listVars
<1>16. ASSUME NEW x \in Servers, NovaDeletes(x) PROVE SomewhereShown'
  BY <1>16 DEF NovaDeletes, taskVars, listVars
<1>17. CASE UNCHANGED vars
  BY <1>17 DEF vars, cloudVars, taskVars, listVars
<1>. QED
  BY <1>1, <1>2, <1>3, <1>4, <1>5, <1>6, <1>7, <1>8, <1>9, <1>10, <1>11, <1>12, <1>13, <1>14, <1>15, <1>16, <1>17 DEF Next

-----------------------------------------------------------------------------
IInv ==
    /\ Types /\ Life /\ Fresh
    /\ SourceShown /\ CopiesShown /\ FipsShown /\ TenantShown /\ HostShown
    /\ SomewhereShown

(* The inductive invariant: how far each list is right, from the moment it *)
(* is fetched.                                                             *)
THEOREM Invariant == Spec => []IInv
<1>1. Init => IInv
  BY ListsAre DEF Init, IInv, Types, Life, Fresh, Passed, SourceShown, CopiesShown, FipsShown,
     TenantShown, HostShown, SomewhereShown
<1>2. IInv /\ [Next]_vars => IInv'
  BY TypesStep, LifeStep, FreshStep, SourceShownStep, CopiesShownStep, FipsShownStep,
     TenantShownStep, HostShownStep, SomewhereShownStep DEF IInv
<1>. QED  BY <1>1, <1>2, PTL DEF Spec

(* Whatever moves while the clouds are listed, each server is in the view. *)
THEOREM AllServersListed == Spec => []NoServerUnlisted
<1>1. IInv => NoServerUnlisted
  BY DEF IInv, SomewhereShown, Passed, NoServerUnlisted, Answered
<1>. QED  BY <1>1, Invariant, PTL

(* The view and the events since it was asked for tell all there is, except*)
(* for the copies and the servers named in the property.                   *)
THEOREM ViewIsComplete == Spec => []ViewCatchesUp
<1>1. IInv => ViewCatchesUp
  <2> SUFFICES ASSUME IInv, Answered, NEW e \in Differences
               PROVE  e \in told \cup Coming \cup Missed
    BY DEF ViewCatchesUp
  <2>1. Passed(2) /\ Passed(6) /\ Passed(7) /\ Passed(8) /\ Passed(10)
    BY DEF Passed, Answered
  <2>2. ASSUME NEW s \in Servers, e = Original(s), ~(e \in view <=> source[s] # "gone")
        PROVE  e \in told \cup Coming \cup Missed
    BY <2>1, <2>2 DEF IInv, SourceShown, Coming, Missed
  <2>3. ASSUME NEW s \in Servers, e = Copy(s), ~(e \in view <=> destination[s] # "none")
        PROVE  e \in told \cup Coming \cup Missed
    BY <2>1, <2>3 DEF IInv, CopiesShown, Coming, Missed
  <2>4. ASSUME NEW s \in Servers, e = Address(s), ~(e \in view <=> s \in bound)
        PROVE  e \in told \cup Coming \cup Missed
    BY <2>1, <2>4 DEF IInv, FipsShown, Coming, Missed
  <2>5. ASSUME e = Tenant, ~(e \in view <=> tenant)
        PROVE  e \in told \cup Coming \cup Missed
    BY <2>1, <2>5 DEF IInv, TenantShown, Coming, Missed
  <2>6. ASSUME e = Host, ~Shows("source", host, "host"),
               ~(host = "removed" /\ \A d \in view : d.id # "host")
        PROVE  e \in told \cup Coming \cup Missed
    BY <2>1, <2>6 DEF IInv, HostShown, Coming, Missed
  <2>. QED  BY <2>2, <2>3, <2>4, <2>5, <2>6 DEF Differences
<1>. QED  BY <1>1, Invariant, PTL

=============================================================================
