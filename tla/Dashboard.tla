----------------------------- MODULE Dashboard -----------------------------
(***************************************************************************)
(* The page (assets/app.js): the list of containers that load() fetches    *)
(* every 30 seconds and after each operation, the rows made from it, and   *)
(* their update badges, which are painted from containerUpdateCache, from  *)
(* the list, or when an inspection answers. Rows, badges and inspections   *)
(* know a container by its index in the list; answers arrive in any order. *)
(***************************************************************************)
EXTENDS Integers, FiniteSets, SequencesExt

CONSTANTS
    N,           \* containers are 1..N, in the order in which they are listed
    MaxChanges,  \* bound: changes of the fleet
    MaxOps,      \* bound: operations of the user
    MaxFaults,   \* bound: failed requests
    MaxAsks      \* bound: inspections under way at a time

ASSUME DashboardAssumption == {N, MaxChanges, MaxOps, MaxFaults, MaxAsks} \subseteq Nat

Containers == 1..N

(* A verdict is known by the number of refreshes before its check.         *)
None == -1
Failed == -2
Verdicts == 0..MaxOps

(* One load for the ticks of setInterval, one for the operation under way. *)
Loads == {"tick", "own"}

VARIABLES
    server,  \* present containers, those with a persisted verdict, and counts
    view,    \* fleetContainers: the list, with the verdicts that came with it
    cache,   \* containerUpdateCache
    fleet,   \* for each row of the Containers page, whose verdict its badge shows
    loads,   \* the answers under way
    asks,    \* the inspections under way
    op,      \* the operation under way
    forced,  \* history: per container, the refresh that its cache entry follows
    faults

vars == <<server, view, cache, fleet, loads, asks, op, forced, faults>>

View == [list : Seq(Containers), verdict : [Containers -> Verdicts \union {None}],
         ops : 0..MaxOps]

(* ORDER BY: before the i-th container of S, and with it, there are i.      *)
InOrder(S) ==
    [i \in 1..Cardinality(S) |-> CHOOSE c \in S : Cardinality({d \in S : d <= c}) = i]

Listing == [list    |-> InOrder(server.present),
            verdict |-> [c \in Containers |-> IF c \in server.checked THEN server.refreshes ELSE None],
            ops     |-> server.ops]

Empty == [list |-> <<>>, verdict |-> [c \in Containers |-> None], ops |-> 0]

NoLoad == [under |-> FALSE, view |-> Empty]

NoOp == [kind |-> "none", pc |-> "none", c |-> 1, failed |-> FALSE]

Blank == 0

Init ==
    /\ server = [present |-> Containers, checked |-> {}, refreshes |-> 0, changes |-> 0, ops |-> 0]
    /\ view = Empty /\ fleet = <<>>
    /\ cache = [c \in Containers |-> None]
    /\ loads = [l \in Loads |-> NoLoad]
    /\ asks = {}
    /\ op = NoOp
    /\ forced = [c \in Containers |-> 0]
    /\ faults = 0

-----------------------------------------------------------------------------
(* loadContainerUpdateStatuses, for the containers of v: what is known is  *)
(* painted, memory first; the others are asked for, with their index.      *)

Known(v, c) == IF cache[c] # None THEN cache[c] ELSE v.verdict[c]

Painted(v, before) ==
    [i \in 1..Len(v.list) |->
       IF Known(v, v.list[i]) = None THEN before[i] ELSE v.list[i]]

Ask(v, others) ==
    others \union
      {[c |-> v.list[i], index |-> i, answer |-> None, old |-> FALSE] :
         i \in {j \in 1..Len(v.list) : Known(v, v.list[j]) = None}}

(* Mutant: rows that are there already keep their badges.                  *)
RenderInPlace(v, others) ==
    /\ fleet' = Painted(v, [i \in 1..Len(v.list) |-> IF i <= Len(fleet) THEN fleet[i] ELSE Blank])
    /\ asks' = Ask(v, others)
    /\ Cardinality(asks') <= MaxAsks

(* renderContainers: new rows.                                             *)
Render(v, others) ==
    /\ fleet' = Painted(v, [i \in 1..Len(v.list) |-> Blank])
    /\ asks' = Ask(v, others)
    /\ Cardinality(asks') <= MaxAsks

(* Mutant: an answer that is under way is taken.                           *)
ReadShared(l) ==
    loads' = [loads EXCEPT ![l] = IF loads["tick"].under THEN loads["tick"]
                                  ELSE [under |-> TRUE, view |-> Listing]]

(* The server reads its tables for a load.                                 *)
Read(l) == loads' = [loads EXCEPT ![l] = [under |-> TRUE, view |-> Listing]]

(* Mutant: a timer that fires once.                                        *)
TickOnce ==
    /\ ~loads["tick"].under /\ view = Empty /\ faults = 0
    /\ Read("tick")
    /\ UNCHANGED <<server, view, cache, fleet, asks, op, forced, faults>>

(* load(), from the timer: when it was sent before that makes no odds.     *)
Tick ==
    /\ ~loads["tick"].under
    /\ Read("tick")
    /\ UNCHANGED <<server, view, cache, fleet, asks, op, forced, faults>>

(* load(), from the operation.                                             *)
ReadOwn ==
    /\ op.pc = "loading" /\ ~loads["own"].under
    /\ Read("own")
    /\ UNCHANGED <<server, view, cache, fleet, asks, op, forced, faults>>

(* The operation goes on when its load() has ended, well or not: errors    *)
(* are shown and swallowed.                                                *)
Loaded(l, failed) ==
    op' = IF l = "own" THEN [op EXCEPT !.pc = "shown", !.failed = failed] ELSE op

(* The list replaces the one on the page, whichever is newer.              *)
Apply(l) ==
    /\ loads[l].under
    /\ loads' = [loads EXCEPT ![l] = NoLoad]
    /\ view' = loads[l].view
    /\ Render(view', {[a EXCEPT !.old = TRUE] : a \in asks})
    /\ Loaded(l, FALSE)
    /\ UNCHANGED <<server, cache, forced, faults>>

LoadFails(l) ==
    /\ loads[l].under /\ faults < MaxFaults
    /\ faults' = faults + 1
    /\ loads' = [loads EXCEPT ![l] = NoLoad]
    /\ Loaded(l, TRUE)
    /\ UNCHANGED <<server, view, cache, fleet, asks, forced>>

(* showPage("containers"). Bound of the user: no inspection is under way.  *)
ShowFleet ==
    /\ asks = {}
    /\ Render(view, {})
    /\ UNCHANGED <<server, view, cache, loads, op, forced, faults>>

(* showDetail: the rows of a machine, which take their index from the same *)
(* list; the badges of the other rows are painted again as well.           *)
ShowDetail ==
    /\ asks = {}
    /\ fleet' = Painted(view, fleet)
    /\ asks' = Ask(view, {})
    /\ UNCHANGED <<server, view, cache, loads, op, forced, faults>>

-----------------------------------------------------------------------------
(* inspectContainer answers; its verdict is from the present refresh on.   *)
AnswerAsk(a) ==
    /\ a \in asks /\ a.answer = None
    /\ \/ /\ a.c \in server.present
          /\ asks' = (asks \ {a}) \union {[a EXCEPT !.answer = server.refreshes]}
          /\ server' = [server EXCEPT !.checked = @ \union {a.c}]
          /\ UNCHANGED faults
       \/ /\ asks' = (asks \ {a}) \union {[a EXCEPT !.answer = Failed]}
          /\ IF a.c \in server.present THEN faults < MaxFaults /\ faults' = faults + 1
             ELSE UNCHANGED faults
          /\ UNCHANGED server
    /\ UNCHANGED <<view, cache, fleet, loads, op, forced>>

(* The answer is cached, a failure too, and painted wherever its index is  *)
(* now; the object of the list that it was asked for learns it as well.    *)
ApplyAsk(a) ==
    /\ a \in asks /\ a.answer # None
    /\ asks' = asks \ {a}
    /\ cache' = [cache EXCEPT ![a.c] = a.answer]
    /\ fleet' = [i \in DOMAIN fleet |->
                   IF i = a.index THEN a.c ELSE fleet[i]]
    /\ view' = IF a.old \/ a.answer = Failed THEN view
               ELSE [view EXCEPT !.verdict[a.c] = a.answer]
    /\ UNCHANGED <<server, loads, op, forced, faults>>

-----------------------------------------------------------------------------
(* The buttons: refresh a container, a machine or the fleet; start, stop   *)
(* or restart a container.                                                 *)

Begin(kind, c) ==
    /\ op = NoOp /\ server.ops < MaxOps
    /\ c \in ToSet(view.list)
    /\ kind = "machine" => c = view.list[1]
    /\ op' = [NoOp EXCEPT !.kind = kind, !.pc = "sent", !.c = c]
    /\ UNCHANGED <<server, view, cache, fleet, loads, asks, forced, faults>>

Perform ==
    /\ op.pc = "sent"
    /\ server' = IF op.kind = "action" THEN [server EXCEPT !.ops = @ + 1]
                 ELSE [server EXCEPT !.ops = @ + 1, !.refreshes = @ + 1, !.checked = {}]
    /\ op' = [op EXCEPT !.pc = "performed"]
    /\ UNCHANGED <<view, cache, fleet, loads, asks, forced, faults>>

(* Mutant: the entry stays, as it does for a machine or the fleet.         *)
PerformedKeeping ==
    /\ op.pc = "performed"
    /\ op' = [op EXCEPT !.pc = "loading", !.kind = IF @ = "machine" THEN @ ELSE "none"]
    /\ forced' = IF op.kind = "container" /\ \A a \in asks : a.c # op.c
                 THEN [forced EXCEPT ![op.c] = server.refreshes] ELSE forced
    /\ UNCHANGED <<server, view, cache, fleet, loads, asks, faults>>

(* 200: the cache entry is deleted for #refresh-container only.            *)
Performed ==
    /\ op.pc = "performed"
    /\ op' = [op EXCEPT !.pc = "loading", !.kind = IF @ = "machine" THEN @ ELSE "none"]
    /\ cache' = IF op.kind = "container" THEN [cache EXCEPT ![op.c] = None] ELSE cache
    /\ forced' = IF op.kind = "container" /\ \A a \in asks : a.c # op.c
                 THEN [forced EXCEPT ![op.c] = server.refreshes] ELSE forced
    /\ UNCHANGED <<server, view, fleet, loads, asks, faults>>

(* Mutant: the handler gives up while its load is under way.               *)
OpGivesUp ==
    /\ op.pc \in {"sent", "performed", "loading"} /\ faults < MaxFaults
    /\ faults' = faults + 1
    /\ op' = NoOp
    /\ UNCHANGED <<server, view, cache, fleet, loads, asks, forced>>

(* The request fails, performed or not: no load.                           *)
OpFails ==
    /\ op.pc \in {"sent", "performed"} /\ faults < MaxFaults
    /\ faults' = faults + 1
    /\ op' = NoOp
    /\ UNCHANGED <<server, view, cache, fleet, loads, asks, forced>>

(* The dialog is opened again with what the list says now; after a machine *)
(* was refreshed, showDetail().                                            *)
OpEnds ==
    /\ op.pc = "shown"
    /\ op' = NoOp
    /\ IF op.kind = "machine" THEN fleet' = Painted(view, fleet) /\ asks' = Ask(view, asks)
       ELSE UNCHANGED <<fleet, asks>>
    /\ UNCHANGED <<server, view, cache, loads, forced, faults>>

-----------------------------------------------------------------------------
(* A collect finds other containers.                                       *)
Change(present) ==
    /\ server.changes < MaxChanges
    /\ present # server.present
    /\ server' = [server EXCEPT !.present = present, !.changes = @ + 1,
                                !.checked = @ \intersect present]
    /\ UNCHANGED <<view, cache, fleet, loads, asks, op, forced, faults>>

Request ==
    \/ Tick
    \/ ReadOwn
    \/ \E l \in Loads : Apply(l) \/ LoadFails(l)
    \/ ShowFleet
    \/ ShowDetail
    \/ \E a \in asks : AnswerAsk(a) \/ ApplyAsk(a)
    \/ \E kind \in {"container", "machine", "action"}, c \in Containers : Begin(kind, c)
    \/ Perform
    \/ Performed
    \/ OpFails
    \/ \E present \in SUBSET Containers : Change(present)

(* What follows "await load()" runs as soon as that load has ended.        *)
Next ==
    \/ op.pc # "shown" /\ Request
    \/ OpEnds

(* Requests are answered (the browser and the server give up sometime),    *)
(* answers are handled, and the timer goes on.                             *)
Fairness ==
    /\ WF_vars(Tick) /\ WF_vars(ReadOwn) /\ \A l \in Loads : WF_vars(Apply(l))
    /\ \A c \in Containers, i \in Containers :
          WF_vars(\E a \in asks : a.c = c /\ a.index = i /\ (AnswerAsk(a) \/ ApplyAsk(a)))
    /\ WF_vars(Perform) /\ WF_vars(Performed) /\ WF_vars(OpEnds)

Spec == Init /\ [][Next]_vars

FairSpec == Spec /\ Fairness

-----------------------------------------------------------------------------
Answers == [c : Containers, index : Containers, old : BOOLEAN,
            answer : Verdicts \union {None, Failed}]

TypeOK ==
    /\ server.present \subseteq Containers /\ server.checked \subseteq server.present
    /\ server.refreshes <= server.ops /\ server.ops <= MaxOps /\ server.changes <= MaxChanges
    /\ view \in View /\ DOMAIN fleet = DOMAIN view.list
    /\ cache \in [Containers -> Verdicts \union {None, Failed}]
    /\ \A l \in Loads : loads[l].view \in View
    /\ asks \subseteq Answers
    /\ op.pc \in {"none", "sent", "performed", "loading", "shown"}
    /\ loads["own"].under => op.pc = "loading"
    /\ forced \in [Containers -> Verdicts] /\ faults \in 0..MaxFaults

(* A badge never comes to tell of another container than the row it is on, *)
(* save when an inspection answers that was asked for when its container   *)
(* had that index (app.js 80).                                             *)
BadgesStayOwn ==
    \A i \in DOMAIN fleet' :
       \/ fleet'[i] \in {Blank, view'.list[i]}
       \/ i \in DOMAIN fleet /\ view'.list = view.list /\ fleet'[i] = fleet[i]
       \/ \E a \in asks \ asks' : a.old /\ a.index = i /\ a.c = fleet'[i]

RowsAreOwn == [][BadgesStayOwn]_vars

(* The list after an operation is not from before it, in whatever order    *)
(* the answers to load() arrive (app.js 16), unless its own load failed.   *)
OperationIsShown ==
    op.pc = "shown" /\ ~op.failed => view.ops = server.ops

(* After a container was refreshed, no verdict from before that is kept    *)
(* for it or shown with the list that follows; unless an inspection of it  *)
(* was under way at that time (app.js 149, 77).                            *)
RefreshForgets ==
    /\ \A c \in Containers : cache[c] \in Verdicts => cache[c] >= forced[c]
    /\ op.pc = "shown" /\ ~op.failed /\ Known(view, op.c) \in Verdicts
         => Known(view, op.c) >= forced[op.c]

(* When fleet and requests calm down, the page comes to show the fleet as  *)
(* it is, each row with a badge of its own container, whatever order the   *)
(* answers had and whatever failed before.                                 *)
PageSettles ==
    <>[](/\ view.list = Listing.list
         /\ \A i \in DOMAIN fleet : fleet[i] = view.list[i])

=============================================================================
