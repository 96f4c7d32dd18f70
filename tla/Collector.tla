----------------------------- MODULE Collector -----------------------------
(***************************************************************************)
(* The inventory collector of secontrol (internal/app/app.go): machines    *)
(* are registered and deleted while background goroutines and requests     *)
(* collect them over SSH, one collect of a machine at a time.              *)
(*                                                                         *)
(* A collect is a sequence of steps of one goroutine: take the per-machine *)
(* lock, read the row, run the remote command, store the result in one     *)
(* transaction or record the failure, release the lock.  Everything else   *)
(* can happen between two of these steps.                                  *)
(***************************************************************************)
EXTENDS Integers

CONSTANTS
    Hosts,        \* the addresses machines are registered with
    MaxId,        \* bound: identifiers are 1..MaxId
    MaxVersion,   \* bound: a host changes at most MaxVersion times
    MaxFaults,    \* bound: database faults and cancelled requests
    MaxRestarts,  \* bound: crashes of the server
    MayHang,      \* may a remote command never end?
    NoRow, NoSnapshot, NoHost

Ids == 1..MaxId

Versions == 0..MaxVersion

(* A row of table agents: the address it was registered with, the status   *)
(* column, and the host whose failure last_error tells about (NoHost when  *)
(* last_error is empty or tells of no host).                               *)
Row == [host : Hosts, status : {"pending", "online", "offline"},
        blame : Hosts \union {NoHost}]

(* What one collect brings back: the state a host was in.                  *)
Snapshot == [host : Hosts, version : Versions]

(* A background goroutine (started by Poll or by createAgent, with         *)
(* context.Background()) or a request handler (refreshAgent,               *)
(* containerAction, updateComposeContainer, with a deadline) collects id.  *)
(* One slot of each kind per id is enough: while a slot is taken, a second *)
(* goroutine of its kind either finds the lock held and returns, or starts *)
(* later, which is the same as being spawned later.                        *)
Kinds == {"background", "request"}

Workers == Ids \X Kinds

Phases == {"idle", "spawned", "lookup", "ssh", "hung", "store", "failed", "done"}

(* A goroutine knows its host from the row it reads until it has stored    *)
(* the host's report.                                                      *)
Job == {j \in [pc : Phases, target : Hosts \union {NoHost}, seen : Versions] :
            /\ j.pc \in {"ssh", "hung", "store"} => j.target \in Hosts
            /\ j.pc = "lookup" => j.target = NoHost}

ASSUME BoundsAssumption ==
    /\ MaxId \in Nat
    /\ MaxVersion \in Nat
    /\ MaxFaults \in Nat
    /\ MaxRestarts \in Nat
    /\ MayHang \in BOOLEAN

ASSUME NullAssumption ==
    /\ NoRow \notin Row
    /\ NoSnapshot \notin Snapshot
    /\ NoHost \notin Hosts

VARIABLES
    agents,     \* table agents
    inventory,  \* the tables that reference it: containers, volumes, services...
    active,     \* App.active, the ids whose collect is in progress
    job,        \* the goroutines
    version,    \* the state of every host
    reach,      \* how every host answers
    faults,     \* faults so far
    restarts,   \* restarts so far
    reissued    \* history: ids handed out again while their old collect ran,
                \* until the new machine has stored a report of its own

program == <<agents, inventory, active, job>>
world   == <<version, reach>>
bounds  == <<faults, restarts>>
vars    == <<agents, inventory, active, job, version, reach, faults, restarts,
             reissued>>

Registered(i) == agents[i] # NoRow

Idle       == [pc |-> "idle", target |-> NoHost, seen |-> 0]
Spawned    == [Idle EXCEPT !.pc = "spawned"]
Reading    == [Idle EXCEPT !.pc = "lookup"]
Calling(h) == [pc |-> "ssh", target |-> h, seen |-> 0]
Hung(h)    == [pc |-> "hung", target |-> h, seen |-> 0]
Storing(h, v) == [pc |-> "store", target |-> h, seen |-> v]
Failed(h)  == [pc |-> "failed", target |-> h, seen |-> 0]
Done       == [Idle EXCEPT !.pc = "done"]

(* The phases in which a goroutine is between LoadOrStore and Delete.      *)
Running(w) == job[w].pc \in {"lookup", "ssh", "hung", "store", "failed", "done"}

Goto(w, new) == job' = [job EXCEPT ![w] = new]

SpendFault == faults < MaxFaults /\ faults' = faults + 1

-----------------------------------------------------------------------------
Init ==
    /\ agents = [i \in Ids |-> NoRow]
    /\ inventory = [i \in Ids |-> NoSnapshot]
    /\ active = {}
    /\ job = [w \in Workers |-> Idle]
    /\ version = [h \in Hosts |-> 0]
    /\ reach = [h \in Hosts |-> "up"]
    /\ faults = 0
    /\ restarts = 0
    /\ reissued = {}

(* agents.id is INTEGER PRIMARY KEY without AUTOINCREMENT: SQLite hands    *)
(* out one more than the largest id in the table, so that the id of a      *)
(* deleted machine can come back.                                          *)
IsNextId(i) ==
    /\ \A j \in Ids : Registered(j) => j < i
    /\ i = 1 \/ \E j \in Ids : Registered(j) /\ i = j + 1

(* Mutant: the status column has no default.                               *)
CreateAgentNoStatus(i, h) ==
    /\ IsNextId(i)
    /\ agents' = [agents EXCEPT ![i] = [host |-> h, status |-> "", blame |-> NoHost]]
    /\ UNCHANGED <<inventory, active, job, world, bounds, reissued>>

(* createAgent: insert the row, start the first collect in the background. *)
CreateAgent(i, h) ==
    /\ IsNextId(i)
    /\ agents' = [agents EXCEPT
                    ![i] = [host |-> h, status |-> "pending", blame |-> NoHost]]
    /\ job' = [w \in Workers |->
                 IF w = <<i, "background">> /\ job[w].pc = "idle"
                 THEN Spawned ELSE job[w]]
    /\ reissued' = IF i \in active THEN reissued \union {i} ELSE reissued
    /\ UNCHANGED <<inventory, active, world, bounds>>

(* Mutant: deleting a machine also forgets its lock.                       *)
DeleteAgentUnlocks(i) ==
    /\ Registered(i)
    /\ agents' = [agents EXCEPT ![i] = NoRow]
    /\ inventory' = [inventory EXCEPT ![i] = NoSnapshot]
    /\ active' = active \ {i}
    /\ reissued' = reissued \ {i}
    /\ UNCHANGED <<job, world, bounds>>

(* Mutant: the foreign_keys pragma is off, nothing cascades.               *)
DeleteAgentNoCascade(i) ==
    /\ Registered(i)
    /\ agents' = [agents EXCEPT ![i] = NoRow]
    /\ reissued' = reissued \ {i}
    /\ UNCHANGED <<inventory, active, job, world, bounds>>

(* deleteAgent: every referencing table is ON DELETE CASCADE.              *)
DeleteAgent(i) ==
    /\ Registered(i)
    /\ agents' = [agents EXCEPT ![i] = NoRow]
    /\ inventory' = [inventory EXCEPT ![i] = NoSnapshot]
    /\ reissued' = reissued \ {i}
    /\ UNCHANGED <<active, job, world, bounds>>

(* Mutant: only machines that answered last time are polled.               *)
PollTickSkipsOffline ==
    /\ job' = [w \in Workers |->
                 IF /\ w[2] = "background" /\ Registered(w[1])
                    /\ agents[w[1]].status # "offline" /\ job[w].pc = "idle"
                 THEN Spawned ELSE job[w]]
    /\ job' # job
    /\ UNCHANGED <<agents, inventory, active, world, bounds, reissued>>

(* refreshAll: one goroutine for every row.                                *)
PollTick ==
    /\ \E i \in Ids : Registered(i) /\ job[<<i, "background">>].pc = "idle"
    /\ job' = [w \in Workers |->
                 IF /\ w[2] = "background" /\ Registered(w[1])
                    /\ job[w].pc = "idle"
                 THEN Spawned ELSE job[w]]
    /\ UNCHANGED <<agents, inventory, active, world, bounds, reissued>>

(* A request that collects: POST /refresh names any id, registered or not. *)
Request(i) ==
    /\ job[<<i, "request">>].pc = "idle"
    /\ Goto(<<i, "request">>, Spawned)
    /\ UNCHANGED <<agents, inventory, active, world, bounds, reissued>>

-----------------------------------------------------------------------------
(* The steps of collect(ctx, id) in worker w = <<id, kind>>.               *)

(* Mutant: Load and Store are two steps, both of them find nothing.        *)
StartUnlocked(w) ==
    /\ job[w].pc = "spawned"
    /\ active' = active \union {w[1]}
    /\ Goto(w, Reading)
    /\ UNCHANGED <<agents, inventory, world, bounds, reissued>>

(* active.LoadOrStore stores.                                              *)
Start(w) ==
    /\ job[w].pc = "spawned"
    /\ w[1] \notin active
    /\ active' = active \union {w[1]}
    /\ Goto(w, Reading)
    /\ UNCHANGED <<agents, inventory, world, bounds, reissued>>

(* active.LoadOrStore finds a collect: "refresh already in progress".      *)
Bounce(w) ==
    /\ job[w].pc = "spawned"
    /\ w[1] \in active
    /\ Goto(w, Idle)
    /\ UNCHANGED <<agents, inventory, active, world, bounds, reissued>>

(* runSSH reads the address and the credential.                            *)
Lookup(w) ==
    /\ job[w].pc = "lookup"
    /\ Goto(w, IF Registered(w[1]) THEN Calling(agents[w[1]].host)
                                   ELSE Failed(NoHost))
    /\ UNCHANGED <<agents, inventory, active, world, bounds, reissued>>

(* The host answers with the state it is in.                               *)
Answer(w) ==
    /\ job[w].pc = "ssh"
    /\ reach[job[w].target] = "up"
    /\ Goto(w, Storing(job[w].target, version[job[w].target]))
    /\ UNCHANGED <<agents, inventory, active, world, bounds, reissued>>

(* Dial, login or the remote command fails.                                *)
Unreachable(w) ==
    /\ job[w].pc = "ssh"
    /\ reach[job[w].target] = "down"
    /\ Goto(w, Failed(job[w].target))
    /\ UNCHANGED <<agents, inventory, active, world, bounds, reissued>>

(* The remote command never ends (df on a dead mount, a wedged daemon).    *)
(* Only the TCP connect has a timeout of its own.                          *)
Hang(w) ==
    /\ MayHang
    /\ job[w].pc = "ssh"
    /\ Goto(w, Hung(job[w].target))
    /\ UNCHANGED <<agents, inventory, active, world, bounds, reissued>>

(* The deadline of a request ends the wait for a command; a background     *)
(* collect has no deadline.                                                *)
DeadlineExpires(w) ==
    /\ w[2] = "request"
    /\ job[w].pc = "hung"
    /\ Goto(w, Failed(job[w].target))
    /\ UNCHANGED <<agents, inventory, active, world, bounds, reissued>>

(* The client of a request leaves, or its deadline expires on the way: the *)
(* row read or the SSH call fails with the context's error; a transaction  *)
(* does not begin or is rolled back.                                       *)
RequestCancelled(w) ==
    /\ w[2] = "request"
    /\ job[w].pc \in {"lookup", "ssh", "hung", "store"}
    /\ Goto(w, IF job[w].pc = "store" THEN Done ELSE Failed(job[w].target))
    /\ SpendFault
    /\ UNCHANGED <<agents, inventory, active, world, restarts, reissued>>

(* Mutant: a failure leaves the status of a known machine alone.           *)
MarkOfflineOnlyPending(w) ==
    /\ job[w].pc = "failed"
    /\ agents' = IF Registered(w[1]) /\ agents[w[1]].status = "pending"
                 THEN [agents EXCEPT ![w[1]].status = "offline"] ELSE agents
    /\ Goto(w, Done)
    /\ UNCHANGED <<inventory, active, world, bounds, reissued>>

(* UPDATE agents SET status='offline' WHERE id=?, outside any transaction  *)
(* and without the context; it matches no row when the machine is gone.    *)
MarkOffline(w) ==
    /\ job[w].pc = "failed"
    /\ agents' = IF Registered(w[1])
                 THEN [agents EXCEPT ![w[1]].status = "offline",
                                     ![w[1]].blame = job[w].target]
                 ELSE agents
    /\ Goto(w, Done)
    /\ UNCHANGED <<inventory, active, world, bounds, reissued>>

(* The transaction that stores a report: row and referencing tables        *)
(* together.  When the machine is gone the UPDATE matches nothing and the  *)
(* foreign keys refuse the rest.                                           *)
Store(w) ==
    /\ job[w].pc = "store"
    /\ LET i == w[1]
           own == Registered(i) /\ agents[i].host = job[w].target
       IN  /\ agents' = IF Registered(i)
                        THEN [agents EXCEPT ![i].status = "online",
                                            ![i].blame = NoHost]
                        ELSE agents
           /\ inventory' = IF Registered(i)
                           THEN [inventory EXCEPT
                                   ![i] = [host |-> job[w].target,
                                           version |-> job[w].seen]]
                           ELSE inventory
           /\ reissued' = IF own THEN reissued \ {i} ELSE reissued
    /\ Goto(w, Done)
    /\ UNCHANGED <<active, world, bounds>>

(* Mutant: the row is updated outside the transaction.                     *)
WriteFailsHalfway(w) ==
    /\ job[w].pc = "store"
    /\ SpendFault
    /\ agents' = IF Registered(w[1])
                 THEN [agents EXCEPT ![w[1]].status = "online"] ELSE agents
    /\ Goto(w, Done)
    /\ UNCHANGED <<inventory, active, world, restarts, reissued>>

(* Mutant: the error path returns without releasing the lock.              *)
WriteFailsLocked(w) ==
    /\ job[w].pc \in {"store", "failed"}
    /\ SpendFault
    /\ Goto(w, Idle)
    /\ UNCHANGED <<agents, inventory, active, world, restarts, reissued>>

(* A statement on the database fails: the transaction is rolled back, or   *)
(* the error of the offline UPDATE is ignored.                             *)
WriteFails(w) ==
    /\ job[w].pc \in {"store", "failed"}
    /\ SpendFault
    /\ Goto(w, Done)
    /\ UNCHANGED <<agents, inventory, active, world, restarts, reissued>>

(* The deferred active.Delete.                                             *)
Finish(w) ==
    /\ job[w].pc = "done"
    /\ active' = active \ {w[1]}
    /\ Goto(w, Idle)
    /\ UNCHANGED <<agents, inventory, world, bounds, reissued>>

-----------------------------------------------------------------------------
(* The hosts, and the server process.                                      *)

HostChange(h) ==
    /\ version[h] < MaxVersion
    /\ version' = [version EXCEPT ![h] = @ + 1]
    /\ UNCHANGED <<program, reach, bounds, reissued>>

HostReach(h) ==
    /\ reach' = [reach EXCEPT ![h] = IF @ = "up" THEN "down" ELSE "up"]
    /\ UNCHANGED <<program, version, bounds, reissued>>

(* The server stops: goroutines and the lock are memory, tables stay.      *)
Restart ==
    /\ restarts < MaxRestarts
    /\ restarts' = restarts + 1
    /\ active' = {}
    /\ job' = [w \in Workers |-> Idle]
    /\ UNCHANGED <<agents, inventory, world, faults, reissued>>

-----------------------------------------------------------------------------
(* What a goroutine does by itself once it is spawned.                     *)
Step(w) ==
    \/ Start(w)
    \/ Bounce(w)
    \/ Lookup(w)
    \/ Answer(w)
    \/ Unreachable(w)
    \/ DeadlineExpires(w)
    \/ MarkOffline(w)
    \/ Store(w)
    \/ Finish(w)

Next ==
    \/ \E i \in Ids, h \in Hosts : CreateAgent(i, h)
    \/ \E i \in Ids : DeleteAgent(i)
    \/ \E i \in Ids : Request(i)
    \/ PollTick
    \/ \E w \in Workers : Step(w)
    \/ \E w \in Workers : Hang(w)
    \/ \E w \in Workers : RequestCancelled(w)
    \/ \E w \in Workers : WriteFails(w)
    \/ \E h \in Hosts : HostChange(h)
    \/ \E h \in Hosts : HostReach(h)
    \/ Restart

Spec == Init /\ [][Next]_vars

(* The ticker keeps firing and a goroutine that can go on goes on.         *)
Fairness ==
    /\ WF_vars(PollTick)
    /\ \A w \in Workers : WF_vars(Step(w))

FairSpec == Spec /\ Fairness

-----------------------------------------------------------------------------
(* Every variable keeps its type.                                          *)
TypeOK ==
    /\ agents \in [Ids -> Row \union {NoRow}]
    /\ inventory \in [Ids -> Snapshot \union {NoSnapshot}]
    /\ active \subseteq Ids
    /\ job \in [Workers -> Job]
    /\ version \in [Hosts -> Versions]
    /\ reach \in [Hosts -> {"up", "down"}]
    /\ faults \in 0..MaxFaults
    /\ restarts \in 0..MaxRestarts
    /\ reissued \subseteq Ids

(* The lock of a machine is held exactly while one goroutine collects it:  *)
(* two collects of a machine never overlap, and no exit path of collect    *)
(* leaks the lock.                                                         *)
OneCollectPerMachine ==
    /\ \A v, w \in Workers : Running(v) /\ Running(w) /\ v[1] = w[1] => v = w
    /\ \A i \in Ids : i \in active <=> \E w \in Workers : Running(w) /\ w[1] = i

(* What is stored for a machine was reported by its own address, and the   *)
(* failure it shows is a failure of its own address, unless its id was     *)
(* handed out again under a collect of the deleted machine.                *)
OwnReportsUnlessReissued ==
    \A i \in Ids \ reissued : Registered(i) =>
        /\ inventory[i] # NoSnapshot => inventory[i].host = agents[i].host
        /\ agents[i].blame \in {NoHost, agents[i].host}

(* A collect that outlives its machine leaves no rows behind, and a        *)
(* machine is only called online when an inventory is stored with it.      *)
StatusMatchesInventory ==
    \A i \in Ids :
        /\ inventory[i] # NoSnapshot => Registered(i)
        /\ Registered(i) /\ agents[i].status = "online" => inventory[i] # NoSnapshot

(* The collector keeps the promise of FleetMirror.  The machine whose id   *)
(* was reissued counts as not observed until it has reported itself.       *)
Mirror == INSTANCE FleetMirror WITH
    fleet  <- [i \in Ids |-> IF Registered(i) THEN agents[i].host ELSE NoHost],
    mirror <- [i \in Ids |-> IF i \in reissued THEN NoSnapshot ELSE inventory[i]]

MirrorSpec == Mirror!Spec

(* Every collect ends: the lock of a machine is released again.            *)
CollectsEnd == \A i \in Ids : (i \in active) ~> (i \notin active)

(* A machine that stays registered and reachable is brought up to date.    *)
EventuallyCurrent ==
    \A i \in Ids : []<>( \/ ~Registered(i)
                         \/ reach[agents[i].host] # "up"
                         \/ inventory[i] = [host |-> agents[i].host,
                                            version |-> version[agents[i].host]])

(* A machine that stays registered and unreachable is shown offline.       *)
EventuallyOffline ==
    \A i \in Ids : []<>( \/ ~Registered(i)
                         \/ reach[agents[i].host] = "up"
                         \/ agents[i].status = "offline")

(* "A live operational snapshot over SSH" (app.js:179): whatever is stored *)
(* for a machine comes from its own address.                               *)
OwnReports ==
    \A i \in Ids : Registered(i) /\ inventory[i] # NoSnapshot
                       => inventory[i].host = agents[i].host

(* "Automatic polling (60 seconds by default) and manual refresh"          *)
(* (README.md:32): a machine can be collected again and again.             *)
PollingGoesOn == \A i \in Ids : []<>(i \notin active)

=============================================================================
