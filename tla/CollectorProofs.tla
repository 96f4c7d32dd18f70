-------------------------- MODULE CollectorProofs --------------------------
(***************************************************************************)
(* Proofs about Collector, for any set of hosts and any bounds.            *)
(***************************************************************************)
EXTENDS Collector, TLAPS

(* What a collect under way has in hand.  With a host it talks to its own  *)
(* machine, unless the id was reissued under it; a report is not newer     *)
(* than the host, and not older than what is stored.                       *)
OwnTarget(w) ==
    Registered(w[1]) /\ w[1] \notin reissued
        /\ job[w].pc \in {"ssh", "hung", "store", "failed"}
    => \/ job[w].target = agents[w[1]].host
       \/ job[w].pc = "failed" /\ job[w].target = NoHost

FreshReport(w) ==
    job[w].pc = "store" =>
        /\ job[w].seen <= version[job[w].target]
        /\ w[1] \notin reissued /\ inventory[w[1]] # NoSnapshot
             => inventory[w[1]].version <= job[w].seen

NotFromTheFuture ==
    \A i \in Ids : inventory[i] # NoSnapshot
                     => inventory[i].version <= version[inventory[i].host]

ReissuedAreRegistered == \A i \in reissued : Registered(i)

JobsInv == \A w \in Workers : OwnTarget(w) /\ FreshReport(w)

DataInv ==
    /\ OwnReportsUnlessReissued
    /\ StatusMatchesInventory
    /\ NotFromTheFuture
    /\ ReissuedAreRegistered
    /\ JobsInv

CollectorInv == TypeOK /\ OneCollectPerMachine /\ DataInv

-----------------------------------------------------------------------------
(* The values a job takes are jobs, and have the phase they are named for. *)
LEMMA JobValues ==
    /\ Idle \in Job /\ Spawned \in Job /\ Reading \in Job /\ Done \in Job
    /\ \A h \in Hosts : Calling(h) \in Job /\ Hung(h) \in Job
    /\ \A h \in Hosts \union {NoHost} : Failed(h) \in Job
    /\ \A h \in Hosts, v \in Versions : Storing(h, v) \in Job
BY BoundsAssumption DEF Job, Idle, Spawned, Reading, Done, Calling, Hung, Failed,
   Storing, Phases, Versions

(* The initial state has the types.                                        *)
LEMMA InitType == Init => TypeOK
BY JobValues, BoundsAssumption DEF Init, TypeOK, Versions

(* Every step keeps the type invariant.                                    *)
LEMMA NextType ==
    ASSUME TypeOK, [Next]_vars
    PROVE  TypeOK'
<1> USE DEF TypeOK
<1>1. ASSUME NEW i \in Ids, NEW h \in Hosts, CreateAgent(i, h)
      PROVE  TypeOK'
  BY <1>1, JobValues DEF CreateAgent, world, bounds, Row
<1>2. ASSUME NEW i \in Ids, DeleteAgent(i)
      PROVE  TypeOK'
  BY <1>2 DEF DeleteAgent, world, bounds
<1>3. ASSUME NEW i \in Ids, Request(i)
      PROVE  TypeOK'
  BY <1>3, JobValues DEF Request, Goto, world, bounds, Workers, Kinds
<1>4. CASE PollTick
  BY <1>4, JobValues DEF PollTick, world, bounds
<1>5. ASSUME NEW w \in Workers, Step(w)
      PROVE  TypeOK'
  <2>0. w[1] \in Ids
    BY DEF Workers
  <2>1. CASE Start(w)
    BY <2>0, <2>1, JobValues DEF Start, Goto, world, bounds
  <2>2. CASE Bounce(w)
    BY <2>2, JobValues DEF Bounce, Goto, world, bounds
  <2>3. CASE Lookup(w)
    BY <2>0, <2>3, JobValues DEF Lookup, Goto, world, bounds, Registered, Row
  <2>4. CASE Answer(w)
    <3>1. job[w].target \in Hosts /\ version[job[w].target] \in Versions
      BY <2>4 DEF Answer, Job
    <3> QED BY <2>4, <3>1, JobValues DEF Answer, Goto, world, bounds
  <2>5. CASE Unreachable(w)
    BY <2>5, JobValues DEF Unreachable, Goto, world, bounds, Job
  <2>6. CASE DeadlineExpires(w)
    BY <2>6, JobValues DEF DeadlineExpires, Goto, world, bounds, Job
  <2>7. CASE MarkOffline(w)
    BY <2>0, <2>7, JobValues DEF MarkOffline, Goto, world, bounds, Job, Row, Registered
  <2>8. CASE Store(w)
    BY <2>0, <2>8, JobValues DEF Store, Goto, world, bounds, Job, Row, Snapshot, Registered
  <2>9. CASE Finish(w)
    BY <2>9, JobValues DEF Finish, Goto, world, bounds
  <2> QED BY <1>5, <2>1, <2>2, <2>3, <2>4, <2>5, <2>6, <2>7, <2>8, <2>9 DEF Step
<1>6. ASSUME NEW w \in Workers, Hang(w)
      PROVE  TypeOK'
  BY <1>6, JobValues DEF Hang, Goto, world, bounds, Job
<1>7. ASSUME NEW w \in Workers, RequestCancelled(w)
      PROVE  TypeOK'
  BY <1>7, JobValues, BoundsAssumption
     DEF RequestCancelled, Goto, SpendFault, world, bounds, Job
<1>8. ASSUME NEW w \in Workers, WriteFails(w)
      PROVE  TypeOK'
  BY <1>8, JobValues, BoundsAssumption DEF WriteFails, Goto, SpendFault, world, bounds
<1>9. ASSUME NEW h \in Hosts, HostChange(h)
      PROVE  TypeOK'
  BY <1>9, BoundsAssumption DEF HostChange, program, bounds, Versions
<1>10. ASSUME NEW h \in Hosts, HostReach(h)
       PROVE  TypeOK'
  BY <1>10 DEF HostReach, program, bounds
<1>11. CASE Restart
  BY <1>11, JobValues, BoundsAssumption DEF Restart, world
<1>12. CASE UNCHANGED vars
  BY <1>12 DEF vars
<1> QED BY <1>1, <1>2, <1>3, <1>4, <1>5, <1>6, <1>7, <1>8, <1>9, <1>10, <1>11, <1>12
        DEF Next

(* Tables, lock and goroutines keep their types, whatever the number of    *)
(* machines and hosts and however many requests run at once.               *)
THEOREM TypeCorrect == Spec => []TypeOK
<1>1. TypeOK /\ [Next]_vars => TypeOK'
  BY NextType
<1> QED BY InitType, <1>1, PTL DEF Spec

-----------------------------------------------------------------------------
(* A step that neither takes nor releases the lock, and moves no goroutine *)
(* across LoadOrStore or Delete, keeps the lock exact.                     *)
LEMMA SameLock ==
    ASSUME OneCollectPerMachine, active' = active,
           \A w \in Workers : Running(w)' <=> Running(w)
    PROVE  OneCollectPerMachine'
BY DEF OneCollectPerMachine

(* Every step keeps the lock exact.                                        *)
LEMMA NextLock ==
    ASSUME TypeOK, OneCollectPerMachine, [Next]_vars
    PROVE  OneCollectPerMachine'
<1> USE DEF TypeOK
<1> DEFINE Calm == active' = active /\ \A w \in Workers : Running(w)' <=> Running(w)
<1>1. ASSUME NEW i \in Ids, NEW h \in Hosts, CreateAgent(i, h)
      PROVE  Calm
  BY <1>1 DEF CreateAgent, Running, Spawned, Idle
<1>2. ASSUME NEW i \in Ids, DeleteAgent(i)
      PROVE  Calm
  BY <1>2 DEF DeleteAgent, Running
<1>3. ASSUME NEW i \in Ids, Request(i)
      PROVE  Calm
  BY <1>3 DEF Request, Goto, Running, Spawned, Idle
<1>4. CASE PollTick
  <2>1. Calm
    BY <1>4 DEF PollTick, Running, Spawned, Idle
  <2> QED BY <2>1, SameLock
<1>5. ASSUME NEW w \in Workers, Step(w)
      PROVE  OneCollectPerMachine'
  <2>1. CASE Start(w)
    <3>1. w[1] \in Ids /\ w[1] \notin active
      BY <2>1 DEF Start, Workers
    <3>2. \A v \in Workers : Running(v)' <=> Running(v) \/ v = w
      BY <2>1 DEF Start, Goto, Running, Reading, Idle
    <3>3. active' = active \union {w[1]}
      BY <2>1 DEF Start
    <3> QED BY <3>1, <3>2, <3>3 DEF OneCollectPerMachine
  <2>2. CASE Finish(w)
    <3>1. Running(w) /\ w[1] \in active
      BY <2>2 DEF Finish, Running, OneCollectPerMachine, Workers
    <3>2. \A v \in Workers : Running(v)' <=> Running(v) /\ v # w
      BY <2>2 DEF Finish, Goto, Running, Idle
    <3>3. active' = active \ {w[1]}
      BY <2>2 DEF Finish
    <3> QED BY <3>1, <3>2, <3>3 DEF OneCollectPerMachine
  <2>3. CASE Bounce(w)
    <3>1. Calm
      BY <2>3 DEF Bounce, Goto, Running, Idle
    <3> QED BY <3>1, SameLock
  <2>4. CASE Lookup(w)
    <3>1. Calm
      BY <2>4 DEF Lookup, Goto, Running, Calling, Failed
    <3> QED BY <3>1, SameLock
  <2>5. CASE Answer(w)
    <3>1. Calm
      BY <2>5 DEF Answer, Goto, Running, Storing
    <3> QED BY <3>1, SameLock
  <2>6. CASE Unreachable(w)
    <3>1. Calm
      BY <2>6 DEF Unreachable, Goto, Running, Failed
    <3> QED BY <3>1, SameLock
  <2>7. CASE DeadlineExpires(w)
    <3>1. Calm
      BY <2>7 DEF DeadlineExpires, Goto, Running, Failed
    <3> QED BY <3>1, SameLock
  <2>8. CASE MarkOffline(w)
    <3>1. Calm
      BY <2>8 DEF MarkOffline, Goto, Running, Done, Idle
    <3> QED BY <3>1, SameLock
  <2>9. CASE Store(w)
    <3>1. Calm
      BY <2>9 DEF Store, Goto, Running, Done, Idle
    <3> QED BY <3>1, SameLock
  <2> QED BY <1>5, <2>1, <2>2, <2>3, <2>4, <2>5, <2>6, <2>7, <2>8, <2>9 DEF Step
<1>6. ASSUME NEW w \in Workers, Hang(w)
      PROVE  Calm
  BY <1>6 DEF Hang, Goto, Running, Hung
<1>7. ASSUME NEW w \in Workers, RequestCancelled(w)
      PROVE  Calm
  BY <1>7 DEF RequestCancelled, Goto, Running, Failed, Done, Idle
<1>8. ASSUME NEW w \in Workers, WriteFails(w)
      PROVE  Calm
  BY <1>8 DEF WriteFails, Goto, Running, Done, Idle
<1>9. ASSUME NEW h \in Hosts, HostChange(h) \/ HostReach(h)
      PROVE  Calm
  BY <1>9 DEF HostChange, HostReach, program, Running
<1>10. CASE Restart
  BY <1>10 DEF Restart, Running, Idle, OneCollectPerMachine
<1>11. CASE UNCHANGED vars
  <2>1. Calm
    BY <1>11 DEF vars, Running
  <2> QED BY <2>1, SameLock
<1> QED BY <1>1, <1>2, <1>3, <1>4, <1>5, <1>6, <1>7, <1>8, <1>9, <1>10, <1>11, SameLock
        DEF Next

(* The lock of a machine is held exactly while one goroutine collects it.  *)
THEOREM LockIsExact == Spec => []OneCollectPerMachine
<1>1. Init => TypeOK /\ OneCollectPerMachine
  BY InitType DEF Init, OneCollectPerMachine, Running, Idle
<1>2. TypeOK /\ OneCollectPerMachine /\ [Next]_vars
        => TypeOK' /\ OneCollectPerMachine'
  BY NextType, NextLock
<1> QED BY <1>1, <1>2, PTL DEF Spec

-----------------------------------------------------------------------------
(* A goroutine that moves on without learning anything: it drops what it   *)
(* had, fails, or keeps waiting for the host it was talking to.            *)
Learns(w) ==
    ~ \/ job'[w] = job[w]
      \/ job'[w].pc \in {"idle", "spawned", "lookup", "done"}
      \/ job'[w].pc = "failed" /\ job'[w].target = NoHost
      \/ /\ job'[w].pc \in {"hung", "failed"}
         /\ job[w].pc \in {"ssh", "hung"}
         /\ job'[w].target = job[w].target

(* A step that touches no table, host or pending report keeps the data.    *)
LEMMA QuietStep ==
    ASSUME TypeOK, DataInv, UNCHANGED <<agents, inventory, version, reissued>>,
           \A w \in Workers : ~Learns(w)
    PROVE  DataInv'
<1>1. \A w \in Workers : w[1] \in Ids
  BY DEF Workers
<1>2. \A w \in Workers : OwnTarget(w)' /\ FreshReport(w)'
  BY <1>1 DEF DataInv, JobsInv, OwnTarget, FreshReport, Learns, Registered
<1> QED BY <1>2 DEF DataInv, JobsInv, OwnReportsUnlessReissued, StatusMatchesInventory,
           NotFromTheFuture, ReissuedAreRegistered, Registered

(* Registering a machine, under a running collect of its id or not.        *)
LEMMA CreateKeepsData ==
    ASSUME CollectorInv, NEW i \in Ids, NEW h \in Hosts, CreateAgent(i, h)
    PROVE  DataInv'
<1> USE DEF CollectorInv, DataInv, TypeOK
<1>1. ~Registered(i) /\ inventory[i] = NoSnapshot /\ i \notin reissued
  BY DEF CreateAgent, IsNextId, StatusMatchesInventory, ReissuedAreRegistered, Ids
<1>2. agents'[i] # NoRow /\ agents'[i].host = h /\ agents'[i].status = "pending"
        /\ agents'[i].blame = NoHost
  BY NullAssumption DEF CreateAgent, Row
<1>3. \A j \in Ids : j # i => agents'[j] = agents[j] /\ (j \in reissued' <=> j \in reissued)
  BY DEF CreateAgent
<1>4. inventory' = inventory /\ version' = version
  BY DEF CreateAgent, world
<1>5. \A w \in Workers : job'[w] = job[w] \/ job'[w].pc = "spawned"
  BY DEF CreateAgent, Spawned, Idle
<1>6. ASSUME NEW w \in Workers
      PROVE  OwnTarget(w)' /\ FreshReport(w)'
  <2>1. w[1] \in Ids /\ OwnTarget(w) /\ FreshReport(w)
    BY DEF Workers, JobsInv
  <2>2. CASE w[1] # i
    BY <1>3, <1>4, <1>5, <2>1, <2>2 DEF OwnTarget, FreshReport, Registered
  <2>3. CASE w[1] = i /\ i \in active
    BY <1>1, <1>4, <1>5, <2>1, <2>3 DEF OwnTarget, FreshReport, CreateAgent
  <2>4. CASE w[1] = i /\ i \notin active
    BY <1>5, <2>4 DEF OwnTarget, FreshReport, OneCollectPerMachine, Running
  <2> QED BY <2>2, <2>3, <2>4
<1>7. OwnReportsUnlessReissued'
  BY <1>1, <1>2, <1>3, <1>4 DEF OwnReportsUnlessReissued, Registered
<1>8. StatusMatchesInventory'
  BY <1>1, <1>2, <1>3, <1>4 DEF StatusMatchesInventory, Registered
<1>9. NotFromTheFuture'
  BY <1>4 DEF NotFromTheFuture
<1>10. ReissuedAreRegistered'
  BY <1>2, <1>3 DEF ReissuedAreRegistered, Registered, CreateAgent
<1> QED BY <1>6, <1>7, <1>8, <1>9, <1>10 DEF JobsInv

(* Deleting a machine: its row, its inventory and its mark go together.    *)
LEMMA DeleteKeepsData ==
    ASSUME CollectorInv, NEW i \in Ids, DeleteAgent(i)
    PROVE  DataInv'
<1> USE DEF CollectorInv, DataInv, TypeOK
<1>1. agents'[i] = NoRow /\ inventory'[i] = NoSnapshot /\ i \notin reissued'
  BY DEF DeleteAgent
<1>2. \A j \in Ids : j # i => /\ agents'[j] = agents[j]
                              /\ inventory'[j] = inventory[j]
                              /\ j \in reissued' <=> j \in reissued
  BY DEF DeleteAgent
<1>3. job' = job /\ version' = version
  BY DEF DeleteAgent, world
<1>4. \A w \in Workers : OwnTarget(w)' /\ FreshReport(w)'
  BY <1>1, <1>2, <1>3 DEF JobsInv, OwnTarget, FreshReport, Registered, Workers
<1>5. OwnReportsUnlessReissued' /\ StatusMatchesInventory'
  BY <1>1, <1>2 DEF OwnReportsUnlessReissued, StatusMatchesInventory, Registered
<1>6. NotFromTheFuture'
  BY <1>1, <1>2, <1>3 DEF NotFromTheFuture
<1>7. ReissuedAreRegistered'
  BY <1>1, <1>2 DEF ReissuedAreRegistered, Registered, DeleteAgent
<1> QED BY <1>4, <1>5, <1>6, <1>7 DEF JobsInv

(* Reading the row of a machine, or finding it gone.                       *)
LEMMA LookupKeepsData ==
    ASSUME CollectorInv, NEW w \in Workers, Lookup(w)
    PROVE  DataInv'
<1> USE DEF CollectorInv, DataInv, TypeOK
<1>1. w[1] \in Ids
  BY DEF Workers
<1>2. UNCHANGED <<agents, inventory, version, reissued>>
  BY DEF Lookup, world
<1>3. CASE Registered(w[1])
  <2>1. job'[w].pc = "ssh" /\ job'[w].target = agents[w[1]].host
    BY <1>3 DEF Lookup, Goto, Calling
  <2>2. \A v \in Workers : v # w => job'[v] = job[v]
    BY DEF Lookup, Goto
  <2>3. \A v \in Workers : OwnTarget(v)' /\ FreshReport(v)'
    BY <1>2, <2>1, <2>2 DEF JobsInv, OwnTarget, FreshReport, Registered
  <2> QED BY <1>2, <2>3 DEF JobsInv, OwnReportsUnlessReissued, StatusMatchesInventory,
             NotFromTheFuture, ReissuedAreRegistered, Registered
<1>4. CASE ~Registered(w[1])
  <2>1. \A v \in Workers : ~Learns(v)
    BY <1>4 DEF Lookup, Goto, Failed, Learns
  <2> QED BY <1>2, <2>1, QuietStep
<1> QED BY <1>3, <1>4

(* A report is the present state of its host: nothing stored from that     *)
(* host is newer.                                                          *)
LEMMA AnswerKeepsData ==
    ASSUME CollectorInv, NEW w \in Workers, Answer(w)
    PROVE  DataInv'
<1> USE DEF CollectorInv, DataInv, TypeOK
<1> DEFINE h == job[w].target
<1>1. w[1] \in Ids /\ h \in Hosts /\ job[w].pc = "ssh" /\ version[h] \in Nat
  BY BoundsAssumption DEF Workers, Answer, Job, Versions
<1>2. UNCHANGED <<agents, inventory, version, reissued>>
  BY DEF Answer, world
<1>3. job'[w].pc = "store" /\ job'[w].target = h /\ job'[w].seen = version[h]
  BY DEF Answer, Goto, Storing
<1>4. \A v \in Workers : v # w => job'[v] = job[v]
  BY DEF Answer, Goto
<1>5. OwnTarget(w)'
  BY <1>1, <1>2, <1>3 DEF JobsInv, OwnTarget, Registered
<1>6. FreshReport(w)'
  <2>1. ASSUME w[1] \notin reissued, inventory[w[1]] # NoSnapshot
        PROVE  inventory[w[1]].version <= version[h]
    <3>1. Registered(w[1]) /\ inventory[w[1]].host = agents[w[1]].host
      BY <1>1, <2>1 DEF StatusMatchesInventory, OwnReportsUnlessReissued
    <3>2. h = agents[w[1]].host
      BY <1>1, <2>1, <3>1 DEF JobsInv, OwnTarget
    <3> QED BY <1>1, <2>1, <3>1, <3>2 DEF NotFromTheFuture
  <2> QED BY <1>1, <1>2, <1>3, <2>1 DEF FreshReport
<1>7. \A v \in Workers : OwnTarget(v)' /\ FreshReport(v)'
  BY <1>2, <1>4, <1>5, <1>6 DEF JobsInv, OwnTarget, FreshReport, Registered
<1> QED BY <1>2, <1>7 DEF JobsInv, OwnReportsUnlessReissued, StatusMatchesInventory,
           NotFromTheFuture, ReissuedAreRegistered, Registered

(* A failure is blamed on the machine's own address.                       *)
LEMMA MarkOfflineKeepsData ==
    ASSUME CollectorInv, NEW w \in Workers, MarkOffline(w)
    PROVE  DataInv'
<1> USE DEF CollectorInv, DataInv, TypeOK
<1> DEFINE i == w[1]
<1>1. i \in Ids /\ job[w].pc = "failed"
  BY DEF Workers, MarkOffline
<1>2. UNCHANGED <<inventory, version, reissued>>
  BY DEF MarkOffline, world
<1>3. \A v \in Workers : job'[v] = job[v] \/ job'[v].pc = "done"
  BY DEF MarkOffline, Goto, Done, Idle
<1>4. CASE ~Registered(i)
  <2>1. agents' = agents
    BY <1>4 DEF MarkOffline
  <2>2. \A v \in Workers : ~Learns(v)
    BY <1>3 DEF Learns
  <2> QED BY <1>2, <2>1, <2>2, QuietStep
<1>5. CASE Registered(i)
  <2>1. agents' = [agents EXCEPT ![i].status = "offline", ![i].blame = job[w].target]
    BY <1>5 DEF MarkOffline
  <2>2. agents[i] \in Row
    BY <1>1, <1>5 DEF Registered
  <2>3. /\ agents'[i].host = agents[i].host /\ agents'[i].status = "offline"
        /\ agents'[i].blame = job[w].target /\ agents'[i] \in Row
    BY <1>1, <2>1, <2>2 DEF Row, Job
  <2>4. agents'[i] # NoRow
    BY <2>3, NullAssumption
  <2>5. \A j \in Ids : j # i => agents'[j] = agents[j]
    BY <2>1
  <2>6. i \notin reissued => job[w].target \in {NoHost, agents[i].host}
    BY <1>1, <1>5 DEF JobsInv, OwnTarget
  <2>7. OwnReportsUnlessReissued' /\ StatusMatchesInventory'
    BY <1>1, <1>2, <1>5, <2>3, <2>4, <2>5, <2>6
       DEF OwnReportsUnlessReissued, StatusMatchesInventory, Registered
  <2>8. NotFromTheFuture' /\ ReissuedAreRegistered'
    BY <1>2, <2>4, <2>5 DEF NotFromTheFuture, ReissuedAreRegistered, Registered
  <2>9. \A v \in Workers : OwnTarget(v)' /\ FreshReport(v)'
    BY <1>2, <1>3, <1>5, <2>3, <2>5
       DEF JobsInv, OwnTarget, FreshReport, Registered, Workers
  <2> QED BY <2>7, <2>8, <2>9 DEF JobsInv
<1> QED BY <1>4, <1>5

(* The transaction.  The goroutine is the only one at work for the         *)
(* machine, so no other report of it is pending.                           *)
LEMMA StoreKeepsData ==
    ASSUME CollectorInv, NEW w \in Workers, Store(w)
    PROVE  DataInv'
<1> USE DEF CollectorInv, DataInv, TypeOK
<1> DEFINE i == w[1]
           h == job[w].target
<1>1. i \in Ids /\ job[w].pc = "store" /\ h \in Hosts /\ job[w].seen <= version[h]
  BY DEF Workers, Store, Job, JobsInv, FreshReport
<1>2. version' = version
  BY DEF Store, world
<1>3. \A v \in Workers : job'[v] = job[v] \/ job'[v].pc = "done"
  BY DEF Store, Goto, Done, Idle
<1>4. \A v \in Workers : v[1] = i => ~Running(v)' \/ job'[v].pc = "done"
  <2>1. Running(w)
    BY <1>1 DEF Running
  <2>2. \A v \in Workers : v[1] = i /\ v # w => ~Running(v)
    BY <2>1 DEF OneCollectPerMachine
  <2>3. job'[w].pc = "done" /\ \A v \in Workers : v # w => job'[v] = job[v]
    BY DEF Store, Goto, Done, Idle
  <2> QED BY <2>2, <2>3 DEF Running
<1>5. CASE ~Registered(i)
  <2>1. UNCHANGED <<agents, inventory, reissued>>
    BY <1>5 DEF Store
  <2>2. \A v \in Workers : ~Learns(v)
    BY <1>3 DEF Learns
  <2> QED BY <1>2, <2>1, <2>2, QuietStep
<1>6. CASE Registered(i)
  <2>1. /\ agents' = [agents EXCEPT ![i].status = "online", ![i].blame = NoHost]
        /\ inventory' = [inventory EXCEPT
                           ![i] = [host |-> h, version |-> job[w].seen]]
    BY <1>6 DEF Store
  <2>2. agents[i] \in Row
    BY <1>1, <1>6 DEF Registered
  <2>3. /\ agents'[i].host = agents[i].host /\ agents'[i].status = "online"
        /\ agents'[i].blame = NoHost /\ agents'[i] \in Row
    BY <1>1, <2>1, <2>2 DEF Row
  <2>4. agents'[i] # NoRow
    BY <2>3, NullAssumption
  <2>5. inventory'[i].host = h /\ inventory'[i].version = job[w].seen
        /\ inventory'[i] # NoSnapshot
    BY <1>1, <2>1, NullAssumption DEF Snapshot, Job
  <2>6. \A j \in Ids : j # i => /\ agents'[j] = agents[j]
                                /\ inventory'[j] = inventory[j]
                                /\ j \in reissued' <=> j \in reissued
    BY <2>1 DEF Store
  <2>7. i \notin reissued' => h = agents[i].host
    BY <1>1, <1>6 DEF Store, JobsInv, OwnTarget
  <2>8. OwnReportsUnlessReissued'
    BY <1>1, <2>3, <2>5, <2>6, <2>7 DEF OwnReportsUnlessReissued, Registered
  <2>9. StatusMatchesInventory'
    BY <1>1, <2>4, <2>5, <2>6 DEF StatusMatchesInventory, Registered
  <2>10. NotFromTheFuture'
    BY <1>1, <1>2, <2>5, <2>6 DEF NotFromTheFuture
  <2>11. ReissuedAreRegistered'
    BY <1>1, <2>4, <2>6 DEF ReissuedAreRegistered, Registered, Store
  <2>12. \A v \in Workers : OwnTarget(v)' /\ FreshReport(v)'
    BY <1>2, <1>3, <1>4, <2>6
       DEF JobsInv, OwnTarget, FreshReport, Registered, Workers, Running
  <2> QED BY <2>8, <2>9, <2>10, <2>11, <2>12 DEF JobsInv
<1> QED BY <1>5, <1>6

(* Hosts only move forward.                                                *)
LEMMA HostChangeKeepsData ==
    ASSUME CollectorInv, NEW h \in Hosts, HostChange(h)
    PROVE  DataInv'
<1> USE DEF CollectorInv, DataInv, TypeOK
<1>1. UNCHANGED <<agents, inventory, job, reissued>>
  BY DEF HostChange, program
<1>2. \A g \in Hosts : version[g] <= version'[g] /\ version[g] \in Nat /\ version'[g] \in Nat
  BY BoundsAssumption DEF HostChange, Versions
<1>3. \A w \in Workers : FreshReport(w)'
  <2> SUFFICES ASSUME NEW w \in Workers, job[w].pc = "store"
               PROVE  job[w].seen <= version'[job[w].target]
    BY <1>1 DEF FreshReport, JobsInv
  <2>1. job[w].target \in Hosts /\ job[w].seen \in Nat /\ job[w].seen <= version[job[w].target]
    BY BoundsAssumption DEF Job, JobsInv, FreshReport, Versions
  <2> QED BY <1>2, <2>1
<1>4. NotFromTheFuture'
  <2> SUFFICES ASSUME NEW i \in Ids, inventory[i] # NoSnapshot
               PROVE  inventory[i].version <= version'[inventory[i].host]
    BY <1>1 DEF NotFromTheFuture
  <2>1. inventory[i].host \in Hosts /\ inventory[i].version \in Nat
          /\ inventory[i].version <= version[inventory[i].host]
    BY BoundsAssumption DEF Snapshot, Versions, NotFromTheFuture
  <2> QED BY <1>2, <2>1
<1> QED BY <1>1, <1>3, <1>4 DEF JobsInv, OwnTarget, OwnReportsUnlessReissued,
           StatusMatchesInventory, ReissuedAreRegistered, Registered

(* Every step keeps the data invariant.                                    *)
LEMMA NextData ==
    ASSUME CollectorInv, [Next]_vars
    PROVE  DataInv'
<1> USE DEF CollectorInv, TypeOK
<1> DEFINE Quiet == /\ UNCHANGED <<agents, inventory, version, reissued>>
                    /\ \A w \in Workers : ~Learns(w)
<1>1. ASSUME NEW i \in Ids, Request(i)
      PROVE  Quiet
  BY <1>1 DEF Request, Goto, Spawned, Idle, Learns, world
<1>2. CASE PollTick
  <2>1. Quiet
    BY <1>2 DEF PollTick, Spawned, Idle, Learns, world
  <2> QED BY <2>1, QuietStep
<1>3. ASSUME NEW w \in Workers, Step(w)
      PROVE  DataInv'
  <2>1. CASE Start(w) \/ Bounce(w) \/ Finish(w)
    <3>1. Quiet
      BY <2>1 DEF Start, Bounce, Finish, Goto, Reading, Idle, Learns, world
    <3> QED BY <3>1, QuietStep
  <2>2. CASE Unreachable(w) \/ DeadlineExpires(w)
    <3>1. Quiet
      BY <2>2 DEF Unreachable, DeadlineExpires, Goto, Failed, Learns, world
    <3> QED BY <3>1, QuietStep
  <2> QED BY <1>3, <2>1, <2>2, LookupKeepsData, AnswerKeepsData, MarkOfflineKeepsData,
             StoreKeepsData DEF Step
<1>4. ASSUME NEW w \in Workers, Hang(w)
      PROVE  Quiet
  BY <1>4 DEF Hang, Goto, Hung, Learns, world
<1>5. ASSUME NEW w \in Workers, RequestCancelled(w)
      PROVE  Quiet
  BY <1>5 DEF RequestCancelled, Goto, Failed, Done, Idle, Learns, world, Job
<1>6. ASSUME NEW w \in Workers, WriteFails(w)
      PROVE  Quiet
  BY <1>6 DEF WriteFails, Goto, Done, Idle, Learns, world
<1>7. ASSUME NEW h \in Hosts, HostReach(h)
      PROVE  Quiet
  BY <1>7 DEF HostReach, program, Learns
<1>8. CASE Restart
  <2>1. Quiet
    BY <1>8 DEF Restart, Idle, Learns, world
  <2> QED BY <2>1, QuietStep
<1>9. CASE UNCHANGED vars
  <2>1. Quiet
    BY <1>9 DEF vars, Learns
  <2> QED BY <2>1, QuietStep
<1> QED BY <1>1, <1>2, <1>3, <1>4, <1>5, <1>6, <1>7, <1>8, <1>9, QuietStep,
           CreateKeepsData, DeleteKeepsData, HostChangeKeepsData DEF Next

(* The inductive invariant of the collector.                               *)
THEOREM CollectorInvariant == Spec => []CollectorInv
<1>1. Init => CollectorInv
  <2> SUFFICES ASSUME Init PROVE CollectorInv
    OBVIOUS
  <2>1. OneCollectPerMachine
    BY DEF Init, OneCollectPerMachine, Running, Idle
  <2>2. DataInv
    BY DEF Init, DataInv, OwnReportsUnlessReissued, StatusMatchesInventory,
           NotFromTheFuture, ReissuedAreRegistered, JobsInv, OwnTarget, FreshReport,
           Idle, Registered
  <2> QED BY <2>1, <2>2, InitType DEF CollectorInv
<1>2. CollectorInv /\ [Next]_vars => CollectorInv'
  BY NextType, NextLock, NextData DEF CollectorInv
<1> QED BY <1>1, <1>2, PTL DEF Spec

(* What is stored for a machine was reported by its own address, except    *)
(* while its id has been reissued under a collect of a deleted machine.    *)
THEOREM ReportsAreOwn == Spec => []OwnReportsUnlessReissued
<1>1. CollectorInv => OwnReportsUnlessReissued
  BY DEF CollectorInv, DataInv
<1> QED BY <1>1, CollectorInvariant, PTL

(* A deleted machine leaves no rows behind, and an online machine has an   *)
(* inventory, whichever collects were under way.                           *)
THEOREM StatusIsBacked == Spec => []StatusMatchesInventory
<1>1. CollectorInv => StatusMatchesInventory
  BY DEF CollectorInv, DataInv
<1> QED BY <1>1, CollectorInvariant, PTL

-----------------------------------------------------------------------------
(* The refinement of FleetMirror.                                          *)
FleetOf == [i \in Ids |-> IF Registered(i) THEN agents[i].host ELSE NoHost]
MirrorOf == [i \in Ids |-> IF i \in reissued THEN NoSnapshot ELSE inventory[i]]

(* A step that touches none of the mirrored tables is a stutter.           *)
LEMMA MirrorStutters ==
    ASSUME UNCHANGED <<FleetOf, MirrorOf, version>>
    PROVE  [Mirror!Next]_(Mirror!mirrorVars)
BY DEF Mirror!mirrorVars, FleetOf, MirrorOf

(* Registering a machine adds it to the fleet.                             *)
LEMMA CreateAdds ==
    ASSUME CollectorInv, NEW i \in Ids, NEW h \in Hosts, CreateAgent(i, h)
    PROVE  Mirror!Next
<1> USE DEF CollectorInv, DataInv, TypeOK
<1>1. ~Registered(i) /\ inventory[i] = NoSnapshot
  BY DEF CreateAgent, IsNextId, StatusMatchesInventory, Ids
<1>2. agents'[i] # NoRow /\ agents'[i].host = h
  BY NullAssumption DEF CreateAgent, Row
<1>3. FleetOf[i] = NoHost /\ FleetOf' = [FleetOf EXCEPT ![i] = h]
  BY <1>1, <1>2 DEF FleetOf, Registered, CreateAgent
<1>4. MirrorOf' = MirrorOf /\ version' = version
  BY <1>1 DEF MirrorOf, CreateAgent, world
<1>5. Mirror!Add(i, h)
  BY <1>3, <1>4 DEF Mirror!Add, FleetOf, MirrorOf
<1> QED BY <1>5 DEF Mirror!Next

(* Deleting a machine removes it and its mirror.                           *)
LEMMA DeleteRemoves ==
    ASSUME CollectorInv, NEW i \in Ids, DeleteAgent(i)
    PROVE  Mirror!Next
<1> USE DEF CollectorInv, DataInv, TypeOK
<1>1. agents[i] \in Row /\ agents[i].host \in Hosts
  BY DEF DeleteAgent, Registered, Row
<1>2. FleetOf[i] # NoHost /\ FleetOf' = [FleetOf EXCEPT ![i] = NoHost]
  BY <1>1, NullAssumption DEF FleetOf, Registered, DeleteAgent
<1>3. MirrorOf' = [MirrorOf EXCEPT ![i] = NoSnapshot] /\ version' = version
  BY DEF MirrorOf, DeleteAgent, world
<1>4. Mirror!Remove(i)
  BY <1>2, <1>3 DEF Mirror!Remove, FleetOf, MirrorOf
<1> QED BY <1>4 DEF Mirror!Next

(* Recording a failure changes nothing that is mirrored.                   *)
LEMMA OfflineStutters ==
    ASSUME CollectorInv, NEW w \in Workers, MarkOffline(w)
    PROVE  UNCHANGED <<FleetOf, MirrorOf, version>>
<1> USE DEF CollectorInv, TypeOK
<1>1. w[1] \in Ids /\ UNCHANGED <<inventory, reissued, version>>
  BY DEF Workers, MarkOffline, world
<1>2. CASE ~Registered(w[1])
  BY <1>1, <1>2 DEF MarkOffline, FleetOf, MirrorOf, Registered
<1>3. CASE Registered(w[1])
  <2>1. agents[w[1]] \in Row
    BY <1>1, <1>3 DEF Registered
  <2>2. agents'[w[1]].host = agents[w[1]].host /\ agents'[w[1]] \in Row
    BY <1>1, <1>3, <2>1 DEF MarkOffline, Row, Job
  <2>3. \A j \in Ids : j # w[1] => agents'[j] = agents[j]
    BY <1>3 DEF MarkOffline
  <2>4. agents'[w[1]] # NoRow
    BY <2>2, NullAssumption
  <2>5. FleetOf' = FleetOf
    BY <1>3, <2>2, <2>3, <2>4 DEF FleetOf, Registered
  <2> QED BY <1>1, <2>5 DEF MirrorOf
<1> QED BY <1>2, <1>3

(* The transaction shows the report of a registered machine's own host;    *)
(* any other report is invisible.                                          *)
LEMMA StoreObserves ==
    ASSUME CollectorInv, NEW w \in Workers, Store(w)
    PROVE  [Mirror!Next]_(Mirror!mirrorVars)
<1> USE DEF CollectorInv, DataInv, TypeOK
<1> DEFINE i == w[1]
           h == job[w].target
           v == job[w].seen
<1>1. i \in Ids /\ h \in Hosts /\ job[w].pc = "store" /\ v \in Versions /\ v <= version[h]
  BY DEF Workers, Store, Job, JobsInv, FreshReport
<1>2. version' = version
  BY DEF Store, world
<1>3. CASE ~Registered(i)
  <2>1. UNCHANGED <<agents, inventory, reissued>>
    BY <1>3 DEF Store
  <2> QED BY <1>2, <2>1, MirrorStutters DEF FleetOf, MirrorOf, Registered
<1>4. CASE Registered(i)
  <2>1. agents[i] \in Row
    BY <1>1, <1>4 DEF Registered
  <2>2. /\ agents' = [agents EXCEPT ![i].status = "online", ![i].blame = NoHost]
        /\ inventory' = [inventory EXCEPT ![i] = [host |-> h, version |-> v]]
    BY <1>4 DEF Store
  <2>3. agents'[i].host = agents[i].host /\ agents'[i] \in Row
    BY <1>1, <2>1, <2>2 DEF Row
  <2>4. agents'[i] # NoRow
    BY <2>3, NullAssumption
  <2>5. FleetOf' = FleetOf
    BY <1>4, <2>2, <2>3, <2>4 DEF FleetOf, Registered
  <2>6. CASE h # agents[i].host
    <3>1. i \in reissued /\ reissued' = reissued
      BY <1>1, <1>4, <2>6 DEF Store, JobsInv, OwnTarget
    <3>2. MirrorOf' = MirrorOf
      BY <2>2, <3>1 DEF MirrorOf
    <3> QED BY <1>2, <2>5, <3>2, MirrorStutters
  <2>7. CASE h = agents[i].host
    <3>1. reissued' = reissued \ {i}
      BY <1>4, <2>7 DEF Store
    <3>2. FleetOf[i] = h /\ h # NoHost
      BY <1>1, <1>4, <2>7, NullAssumption DEF FleetOf
    <3>3. MirrorOf[i] # NoSnapshot => MirrorOf[i].version <= v
      BY <1>1 DEF MirrorOf, JobsInv, FreshReport
    <3>4. MirrorOf' = [MirrorOf EXCEPT ![i] = [host |-> h, version |-> v]]
      BY <1>1, <2>2, <3>1 DEF MirrorOf
    <3>5. PICK u \in 0..MaxVersion : u = v
      BY <1>1 DEF Versions
    <3>6. Mirror!Observe(i, u)
      BY <1>1, <1>2, <2>5, <3>2, <3>3, <3>4, <3>5 DEF Mirror!Observe, FleetOf, MirrorOf
    <3> QED BY <1>1, <3>6 DEF Mirror!Next
  <2> QED BY <2>6, <2>7
<1> QED BY <1>3, <1>4

(* Every step is a step of FleetMirror, or a stutter.                      *)
LEMMA NextMirrors ==
    ASSUME CollectorInv, [Next]_vars
    PROVE  [Mirror!Next]_(Mirror!mirrorVars)
<1> DEFINE Hidden == UNCHANGED <<agents, inventory, version, reissued>>
<1>1. ASSUME Hidden PROVE [Mirror!Next]_(Mirror!mirrorVars)
  BY <1>1, MirrorStutters DEF FleetOf, MirrorOf, Registered
<1>2. ASSUME NEW i \in Ids, Request(i) PROVE Hidden
  BY <1>2 DEF Request, world
<1>3. CASE PollTick
  BY <1>1, <1>3 DEF PollTick, world
<1>4. ASSUME NEW w \in Workers, Step(w)
      PROVE  [Mirror!Next]_(Mirror!mirrorVars)
  <2>1. CASE Start(w) \/ Bounce(w) \/ Lookup(w) \/ Answer(w) \/ Finish(w)
    BY <1>1, <2>1 DEF Start, Bounce, Lookup, Answer, Finish, world
  <2>2. CASE Unreachable(w) \/ DeadlineExpires(w)
    BY <1>1, <2>2 DEF Unreachable, DeadlineExpires, world
  <2> QED BY <1>4, <2>1, <2>2, StoreObserves, OfflineStutters, MirrorStutters DEF Step
<1>5. ASSUME NEW w \in Workers, Hang(w) \/ RequestCancelled(w) \/ WriteFails(w)
      PROVE  Hidden
  BY <1>5 DEF Hang, RequestCancelled, WriteFails, world
<1>6. ASSUME NEW h \in Hosts, HostReach(h)
      PROVE  Hidden
  BY <1>6 DEF HostReach, program
<1>7. ASSUME NEW h \in Hosts, HostChange(h)
      PROVE  Mirror!Next
  BY <1>7 DEF HostChange, program, Mirror!Next, Mirror!Change, Registered
<1>8. CASE Restart
  BY <1>1, <1>8 DEF Restart, world
<1>9. CASE UNCHANGED vars
  BY <1>1, <1>9 DEF vars
<1> QED BY <1>1, <1>2, <1>3, <1>4, <1>5, <1>6, <1>7, <1>8, <1>9,
           CreateAdds, DeleteRemoves DEF Next

(* The collector implements the mirror: what the dashboard shows of a      *)
(* machine is a state its own host was in, and never goes back.            *)
THEOREM ImplementsMirror == Spec => MirrorSpec
<1>1. Init => Mirror!Init
  BY DEF Init, Mirror!Init, Registered
<1>2. CollectorInv /\ [Next]_vars => [Mirror!Next]_(Mirror!mirrorVars)
  BY NextMirrors
<1> QED BY <1>1, <1>2, CollectorInvariant, PTL DEF Spec, MirrorSpec, Mirror!Spec

=============================================================================
