-------------------------- MODULE DashboardProofs --------------------------
(***************************************************************************)
(* Proofs about Dashboard, for any number of containers, changes,          *)
(* operations, failures and inspections.                                   *)
(***************************************************************************)
EXTENDS Dashboard, FiniteSetTheorems, TLAPS

(* A list has no container twice, and so no more rows than containers.     *)
Pages == {v \in View : Len(v.list) <= N}

Badges == Containers \union {Blank}

Server == [present : SUBSET Containers, checked : SUBSET Containers,
           refreshes : Nat, changes : Nat, ops : Nat]

Operations == [kind : {"none", "container", "machine", "action"},
               pc : {"none", "sent", "performed", "loading", "shown"},
               c : Containers \union {1}, failed : BOOLEAN]

TypeInv ==
    /\ server \in Server /\ server.checked \subseteq server.present
    /\ server.refreshes <= server.ops /\ server.ops <= MaxOps /\ server.changes <= MaxChanges
    /\ view \in Pages
    /\ cache \in [Containers -> Verdicts \union {None, Failed}]
    /\ fleet \in [1..Len(view.list) -> Badges]
    /\ loads \in [Loads -> [under : BOOLEAN, view : Pages]]
    /\ asks \subseteq Answers
    /\ op \in Operations
    /\ op.pc # "none" => op.c \in Containers
    /\ op.pc = "sent" => server.ops < MaxOps
    /\ loads["own"].under => op.pc = "loading"
    /\ forced \in [Containers -> Verdicts] /\ faults \in 0..MaxFaults

(* An inspection that no newer list has overtaken knows its row.           *)
AsksKnowTheirRow ==
    \A a \in asks : ~a.old => a.index \in 1..Len(view.list) /\ view.list[a.index] = a.c

(* What the load of an operation has read, and what the page shows after   *)
(* it, is not from before the operation.                                   *)
OwnIsRecent ==
    /\ loads["own"].under => loads["own"].view.ops = server.ops
    /\ OperationIsShown

(* v has no verdict from before the refresh that a container was given.    *)
Fresh(v) == \A c \in Containers : v.verdict[c] \in Verdicts => v.verdict[c] >= forced[c]

(* Verdicts from before a refresh are neither kept, nor on their way.      *)
ForcedIsFollowed ==
    /\ \A c \in Containers : forced[c] <= server.refreshes
    /\ \A c \in Containers : cache[c] \in Verdicts => cache[c] >= forced[c]
    /\ \A a \in asks : a.answer \in Verdicts => a.answer >= forced[a.c]
    /\ loads["own"].under => Fresh(loads["own"].view)
    /\ op.pc = "shown" /\ ~op.failed => Fresh(view)

Inv == TypeInv /\ AsksKnowTheirRow /\ OwnIsRecent /\ ForcedIsFollowed

-----------------------------------------------------------------------------
(* The bounds are numbers; the special values are no verdicts.             *)
LEMMA Constants ==
    /\ N \in Nat /\ MaxChanges \in Nat /\ MaxOps \in Nat /\ MaxFaults \in Nat
    /\ None \notin Verdicts /\ Failed \notin Verdicts /\ None # Failed
    /\ Verdicts \subseteq Nat /\ 0 \in Verdicts /\ Containers \subseteq Nat
BY DashboardAssumption DEF None, Failed, Verdicts, Containers

(* Each container of S has a rank of its own, so that the list has them    *)
(* all, and nothing else.                                                  *)
LEMMA InOrderLists ==
    ASSUME NEW S \in SUBSET Containers
    PROVE  InOrder(S) \in Seq(S) /\ Len(InOrder(S)) <= N
<1> DEFINE upTo(c) == {d \in S : d <= c}
           rank == [c \in S |-> Cardinality(upTo(c))]
<1> /\ S \subseteq Nat /\ \A c, d \in S : c < d \/ c = d \/ d < c
  BY Constants
<1>1. IsFiniteSet(S) /\ Cardinality(S) \in Nat /\ Cardinality(S) <= N
  <2>1. IsFiniteSet(Containers) /\ Cardinality(Containers) = N
    BY Constants, FS_Interval DEF Containers
  <2> QED
    BY <2>1, FS_Subset, FS_CardinalityType
<1>2. ASSUME NEW c \in S
      PROVE  IsFiniteSet(upTo(c)) /\ Cardinality(upTo(c)) \in 1..Cardinality(S)
  <2>1. upTo(c) \in SUBSET S /\ c \in upTo(c)
    OBVIOUS
  <2>2. IsFiniteSet(upTo(c)) /\ Cardinality(upTo(c)) <= Cardinality(S)
    BY <1>1, <2>1, FS_Subset
  <2>3. Cardinality(upTo(c)) \in Nat /\ Cardinality(upTo(c)) # 0
    BY <2>1, <2>2, FS_CardinalityType, FS_EmptySet
  <2> QED
    BY <1>1, <2>2, <2>3
<1>3. ASSUME NEW c \in S, NEW d \in S, Cardinality(upTo(c)) = Cardinality(upTo(d))
      PROVE  c = d
  <2> SUFFICES ASSUME NEW e \in S, NEW f \in S, e < f,
                      Cardinality(upTo(e)) = Cardinality(upTo(f))
               PROVE  FALSE
    BY <1>3
  <2>a. (\A g \in S : g <= e => g <= f) /\ f <= f /\ ~(f <= e)
    OBVIOUS
  <2>1. upTo(e) \in SUBSET upTo(f) /\ f \in upTo(f) /\ f \notin upTo(e)
    BY <2>a
  <2>2. upTo(e) = upTo(f)
    BY <1>2, <2>1, FS_Subset
  <2> QED
    BY <2>1, <2>2
<1>4. rank \in Injection(S, 1..Cardinality(S))
  BY <1>2, <1>3 DEF Injection, IsInjective
<1>5. rank \in Surjection(S, 1..Cardinality(S))
  <2>1. IsFiniteSet(1..Cardinality(S)) /\ Cardinality(1..Cardinality(S)) = Cardinality(S)
    BY <1>1, FS_Interval
  <2> QED
    BY <1>4, <2>1, FS_Injection
<1>6. ASSUME NEW i \in 1..Cardinality(S)
      PROVE  \E c \in S : Cardinality(upTo(c)) = i
  BY <1>5 DEF Surjection
<1>7. InOrder(S) \in [1..Cardinality(S) -> S]
  BY <1>6 DEF InOrder
<1> QED
  BY <1>1, <1>7

(* What the server answers to load().                                      *)
LEMMA ListingIsView ==
    ASSUME TypeInv
    PROVE  /\ Listing \in Pages /\ Listing.ops = server.ops
           /\ \A c \in Containers : Listing.verdict[c] \in {server.refreshes, None}
<1> DEFINE verdict == [c \in Containers |-> IF c \in server.checked THEN server.refreshes ELSE None]
<1>1. /\ server.present \in SUBSET Containers
      /\ server.refreshes \in Verdicts /\ server.ops \in 0..MaxOps
  BY Constants DEF TypeInv, Server, Verdicts
<1>2. InOrder(server.present) \in Seq(Containers) /\ Len(InOrder(server.present)) <= N
  <2>1. InOrder(server.present) \in Seq(server.present) /\ Len(InOrder(server.present)) <= N
    BY <1>1, InOrderLists
  <2> QED
    BY <1>1, <2>1
<1>3. verdict \in [Containers -> Verdicts \union {None}]
  BY <1>1
<1>4. Listing = [list |-> InOrder(server.present), verdict |-> verdict, ops |-> server.ops]
  BY DEF Listing
<1>5. \A c \in Containers : verdict[c] \in {server.refreshes, None}
  OBVIOUS
<1> HIDE DEF verdict
<1> QED
  BY <1>1, <1>2, <1>3, <1>4, <1>5 DEF View, Pages

(* A badge is painted with its own container, or stays.                    *)
LEMMA PaintedBadges ==
    ASSUME NEW v \in Pages, NEW before \in [1..Len(v.list) -> Badges]
    PROVE  /\ Painted(v, before) \in [1..Len(v.list) -> Badges]
           /\ \A i \in 1..Len(v.list) : Painted(v, before)[i] \in {v.list[i], before[i]}
<1>1. v.list \in Seq(Containers)
  BY DEF View, Pages
<1>2. \A i \in 1..Len(v.list) : v.list[i] \in Badges
  BY <1>1 DEF Badges
<1> QED
  BY <1>2 DEF Painted

(* An inspection is asked for with the container and index of its row.     *)
LEMMA AsksOfView ==
    ASSUME NEW v \in Pages, NEW others
    PROVE  \A a \in Ask(v, others) :
             \/ a \in others
             \/ /\ a \in Answers /\ a.answer = None /\ ~a.old
                /\ a.index \in 1..Len(v.list) /\ v.list[a.index] = a.c
<1> SUFFICES ASSUME NEW i \in 1..Len(v.list)
             PROVE  LET a == [c |-> v.list[i], index |-> i, answer |-> None, old |-> FALSE]
                    IN  /\ a \in Answers /\ a.answer = None /\ ~a.old
                        /\ a.index \in 1..Len(v.list) /\ v.list[a.index] = a.c
  BY DEF Ask
<1>1. v.list \in Seq(Containers) /\ v.list[i] \in Containers /\ i \in Containers
  BY Constants DEF View, Pages, Containers
<1> QED
  BY <1>1 DEF Answers

(* An inspection stays what it is when it is answered, or overtaken.       *)
LEMMA AskFields ==
    ASSUME NEW a \in Answers
    PROVE  /\ [a EXCEPT !.old = TRUE] \in Answers /\ [a EXCEPT !.old = TRUE].old
           /\ [a EXCEPT !.old = TRUE].c = a.c /\ [a EXCEPT !.old = TRUE].answer = a.answer
           /\ \A x : LET b == [a EXCEPT !.answer = x]
                    IN  /\ b.c = a.c /\ b.index = a.index /\ b.old = a.old /\ b.answer = x
                        /\ x \in Verdicts \union {None, Failed} => b \in Answers
BY DEF Answers

(* The end of its own load, and of no other, is news to an operation.      *)
LEMMA LoadedFields ==
    ASSUME NEW l, NEW failed \in BOOLEAN, op \in Operations, Loaded(l, failed)
    PROVE  /\ op' \in Operations /\ op'.c = op.c
           /\ l = "own" => op'.pc = "shown" /\ op'.failed = failed
           /\ l # "own" => op' = op
BY DEF Loaded, Operations

-----------------------------------------------------------------------------
(* An empty page, nothing under way, nothing known.                        *)
LEMMA InitInv == Init => Inv
<1> SUFFICES ASSUME Init PROVE Inv
  OBVIOUS
<1>1. Empty \in Pages /\ Empty.list = <<>>
  BY Constants DEF Empty, View, Pages
<1>2. TypeInv
  <2>1. fleet \in [1..Len(view.list) -> Badges]
    BY <1>1 DEF Init
  <2>2. server \in Server /\ server.checked \subseteq server.present
    BY DEF Init, Server
  <2>3. op \in Operations
    BY DEF Init, Operations, NoOp
  <2>4. loads \in [Loads -> [under : BOOLEAN, view : Pages]]
    BY <1>1 DEF Init, NoLoad
  <2> QED
    BY <1>1, <2>1, <2>2, <2>3, <2>4, Constants DEF Init, TypeInv, NoOp, NoLoad, Loads
<1>3. AsksKnowTheirRow /\ OwnIsRecent
  BY DEF Init, AsksKnowTheirRow, OwnIsRecent, OperationIsShown, NoLoad, NoOp, Loads
<1>4. ForcedIsFollowed
  BY Constants DEF Init, ForcedIsFollowed, NoLoad, NoOp, Loads
<1> QED
  BY <1>2, <1>3, <1>4 DEF Inv

(* Rendering gives each row of the list a badge, and new inspections.      *)
LEMMA RenderStep ==
    ASSUME NEW others \in SUBSET Answers, TypeInv,
           \/ Render(view', others) /\ view' \in Pages
           \/ /\ fleet' = Painted(view, fleet) /\ asks' = Ask(view, others)
              /\ UNCHANGED view
    PROVE  fleet' \in [1..Len(view'.list) -> Badges] /\ asks' \subseteq Answers
<1>1. CASE Render(view', others) /\ view' \in Pages
  <2>1. [i \in 1..Len(view'.list) |-> Blank] \in [1..Len(view'.list) -> Badges]
    BY DEF Badges
  <2>2. fleet' \in [1..Len(view'.list) -> Badges]
    BY <1>1, <2>1, PaintedBadges DEF Render
  <2>3. asks' \subseteq Answers
    BY <1>1, AsksOfView DEF Render
  <2> QED
    BY <2>2, <2>3
<1>2. CASE /\ fleet' = Painted(view, fleet) /\ asks' = Ask(view, others)
           /\ UNCHANGED view
  <2>1. view \in Pages /\ fleet \in [1..Len(view.list) -> Badges]
    BY DEF TypeInv
  <2> QED
    BY <1>2, <2>1, PaintedBadges, AsksOfView
<1> QED
  BY <1>1, <1>2

(* Every step keeps the types.                                             *)
LEMMA TypeStep ==
    ASSUME TypeInv, [Next]_vars
    PROVE  TypeInv'
<1> USE DEF TypeInv
<1>1. ASSUME NEW l \in Loads, ~loads[l].under, Read(l), l = "own" => op.pc = "loading",
             UNCHANGED <<server, view, cache, fleet, asks, op, forced, faults>>
      PROVE  TypeInv'
  <2>1. loads' \in [Loads -> [under : BOOLEAN, view : Pages]]
    BY <1>1, ListingIsView DEF Read
  <2>2. loads'["own"].under => op'.pc = "loading"
    BY <1>1 DEF Read, Loads
  <2> QED
    BY <1>1, <2>1, <2>2
<1>2. CASE Tick
  BY <1>1, <1>2 DEF Tick, Loads
<1>3. CASE ReadOwn
  BY <1>1, <1>3 DEF ReadOwn, Loads
<1>4. ASSUME NEW l \in Loads, op.pc # "shown", Apply(l) \/ LoadFails(l)
      PROVE  TypeInv'
  <2>1. loads' = [loads EXCEPT ![l] = NoLoad] /\ loads[l].under
    BY <1>4 DEF Apply, LoadFails
  <2>2. NoLoad \in [under : BOOLEAN, view : Pages] /\ ~NoLoad.under
    BY Constants DEF NoLoad, Empty, View, Pages
  <2>3. loads' \in [Loads -> [under : BOOLEAN, view : Pages]]
    BY <2>1, <2>2
  <2>4. /\ op' \in Operations /\ op'.c = op.c
        /\ (l = "own" /\ op'.pc = "shown") \/ (l # "own" /\ op' = op)
    BY <1>4, LoadedFields DEF Apply, LoadFails
  <2>5. op'.pc # "sent" \/ op' = op
    BY <2>4
  <2>6. loads'["own"].under => op'.pc = "loading"
    BY <2>1, <2>2, <2>4 DEF Loads
  <2>7. op'.pc # "none" => op'.c \in Containers
    BY <2>1, <2>4
  <2>8. CASE Apply(l)
    <3>1. view' \in Pages
      BY <2>8 DEF Apply
    <3>2. {[a EXCEPT !.old = TRUE] : a \in asks} \in SUBSET Answers
      BY AskFields
    <3>3. fleet' \in [1..Len(view'.list) -> Badges] /\ asks' \subseteq Answers
      BY <2>8, <3>1, <3>2, RenderStep DEF Apply
    <3>4. UNCHANGED <<server, cache, forced, faults>>
      BY <2>8 DEF Apply
    <3> QED
      BY <2>3, <2>4, <2>5, <2>6, <2>7, <3>1, <3>3, <3>4
  <2>9. CASE LoadFails(l)
    <3>1. faults' \in 0..MaxFaults /\ UNCHANGED <<server, view, cache, fleet, asks, forced>>
      BY <2>9, Constants DEF LoadFails
    <3> QED
      BY <2>3, <2>4, <2>5, <2>6, <2>7, <3>1
  <2> QED
    BY <1>4, <2>8, <2>9
<1>5. CASE ShowFleet \/ ShowDetail
  <2>1. fleet' \in [1..Len(view'.list) -> Badges] /\ asks' \subseteq Answers /\ view' = view
    BY <1>5, RenderStep DEF ShowFleet, ShowDetail
  <2>2. UNCHANGED <<server, view, cache, loads, op, forced, faults>>
    BY <1>5 DEF ShowFleet, ShowDetail
  <2> QED
    BY <2>1, <2>2
<1>6. ASSUME NEW a \in asks, AnswerAsk(a)
      PROVE  TypeInv'
  <2>1. server.refreshes \in Verdicts
    BY Constants DEF Server, Verdicts
  <2>2. asks' \subseteq Answers
    <3>1. [a EXCEPT !.answer = server.refreshes] \in Answers /\ [a EXCEPT !.answer = Failed] \in Answers
      BY <2>1, AskFields
    <3> QED
      BY <1>6, <3>1, Zenon DEF AnswerAsk
  <2>3. /\ server' \in Server /\ server'.checked \subseteq server'.present
        /\ server'.refreshes = server.refreshes /\ server'.ops = server.ops
        /\ server'.changes = server.changes
    BY <1>6 DEF AnswerAsk, Server, Answers
  <2>4. faults' \in 0..MaxFaults
    BY <1>6, Constants DEF AnswerAsk
  <2>5. UNCHANGED <<view, cache, fleet, loads, op, forced>>
    BY <1>6 DEF AnswerAsk
  <2> QED
    BY <2>2, <2>3, <2>4, <2>5
<1>7. ASSUME NEW a \in asks, ApplyAsk(a)
      PROVE  TypeInv'
  <2>1. a \in Answers /\ a.c \in Containers /\ a.answer \in Verdicts \union {Failed}
    BY <1>7 DEF Answers, ApplyAsk
  <2>2. cache' \in [Containers -> Verdicts \union {None, Failed}]
    BY <1>7, <2>1 DEF ApplyAsk
  <2>3. view' \in Pages /\ view'.list = view.list
    BY <1>7, <2>1 DEF ApplyAsk, Pages, View
  <2>4. fleet' \in [1..Len(view'.list) -> Badges]
    BY <1>7, <2>1, <2>3 DEF ApplyAsk, Badges
  <2>5. asks' \subseteq Answers /\ UNCHANGED <<server, loads, op, forced, faults>>
    BY <1>7 DEF ApplyAsk
  <2> QED
    BY <2>2, <2>3, <2>4, <2>5
<1>8. ASSUME NEW knd \in {"container", "machine", "action"}, NEW c \in Containers, Begin(knd, c)
      PROVE  TypeInv'
  <2>1. op' \in Operations /\ op'.c \in Containers /\ server.ops < MaxOps /\ ~loads["own"].under
    BY <1>8 DEF Begin, NoOp, Operations
  <2>2. UNCHANGED <<server, view, cache, fleet, loads, asks, forced, faults>>
    BY <1>8 DEF Begin
  <2> QED
    BY <2>1, <2>2
<1>9. CASE Perform
  <2>1. /\ server' \in Server /\ server'.checked \subseteq server'.present
        /\ server'.refreshes <= server'.ops /\ server'.ops <= MaxOps
        /\ server'.changes <= MaxChanges
    <3>a. /\ server.ops < MaxOps /\ server \in Server
          /\ server.ops + 1 \in Nat /\ server.refreshes + 1 \in Nat /\ {} \in SUBSET Containers
      BY <1>9 DEF Perform, Server
    <3>b. \A ops \in Nat, r \in Nat, known \in SUBSET Containers :
            /\ [server EXCEPT !.ops = ops] \in Server
            /\ [server EXCEPT !.ops = ops, !.refreshes = r, !.checked = known] \in Server
      BY <3>a DEF Server
    <3>1. server' \in Server
      BY <1>9, <3>a, <3>b DEF Perform
    <3>2. /\ server'.present = server.present /\ server'.changes = server.changes
          /\ server'.ops = server.ops + 1
          /\ server'.refreshes \in {server.refreshes, server.refreshes + 1}
          /\ server'.checked \in {server.checked, {}}
      BY <1>9 DEF Perform, Server
    <3> QED
      BY <3>a, <3>1, <3>2, Constants DEF Server
  <2>2. /\ op' \in Operations /\ op'.c \in Containers /\ op'.pc = "performed"
        /\ ~loads["own"].under
    BY <1>9 DEF Perform, Operations
  <2>3. UNCHANGED <<view, cache, fleet, loads, asks, forced, faults>>
    BY <1>9 DEF Perform
  <2> QED
    BY <2>1, <2>2, <2>3
<1>10. CASE Performed
  <2>1. server.refreshes \in Verdicts /\ op.c \in Containers
    BY <1>10, Constants DEF Performed, Server, Verdicts
  <2>2. op' \in Operations /\ op'.c = op.c /\ op'.pc = "loading"
    BY <1>10 DEF Performed, Operations
  <2>3. /\ cache' \in [Containers -> Verdicts \union {None, Failed}]
        /\ forced' \in [Containers -> Verdicts]
    BY <1>10, <2>1 DEF Performed
  <2>4. UNCHANGED <<server, view, fleet, loads, asks, faults>>
    BY <1>10 DEF Performed
  <2> QED
    BY <2>1, <2>2, <2>3, <2>4
<1>11. CASE OpFails
  <2>1. op' \in Operations /\ op'.pc = "none" /\ ~loads["own"].under
    BY <1>11 DEF OpFails, NoOp, Operations
  <2>2. faults' \in 0..MaxFaults /\ UNCHANGED <<server, view, cache, fleet, loads, asks, forced>>
    BY <1>11, Constants DEF OpFails
  <2> QED
    BY <2>1, <2>2
<1>12. ASSUME NEW present \in SUBSET Containers, Change(present)
       PROVE  TypeInv'
  <2>1. /\ server' \in Server /\ server'.checked \subseteq server'.present
        /\ server'.refreshes = server.refreshes /\ server'.ops = server.ops
        /\ server'.changes <= MaxChanges
    <3>1. /\ server'.present = present /\ server'.changes = server.changes + 1
          /\ server'.checked = server.checked \intersect present
          /\ server'.ops = server.ops /\ server'.refreshes = server.refreshes
      BY <1>12 DEF Change, Server
    <3>a. server.changes + 1 \in Nat /\ server.checked \intersect present \in SUBSET Containers
      BY DEF Server
    <3>b. \A n \in Nat, known \in SUBSET Containers :
            [server EXCEPT !.present = present, !.changes = n, !.checked = known] \in Server
      BY DEF Server
    <3>2. server' \in Server /\ server.changes < MaxChanges
      BY <1>12, <3>a, <3>b DEF Change
    <3> QED
      BY <3>1, <3>2, Constants DEF Server
  <2>2. UNCHANGED <<view, cache, fleet, loads, asks, op, forced, faults>>
    BY <1>12 DEF Change
  <2> QED
    BY <2>1, <2>2
<1>13. CASE OpEnds
  <2>1. op' \in Operations /\ op'.pc = "none" /\ ~loads["own"].under
    BY <1>13 DEF OpEnds, NoOp, Operations
  <2>2. UNCHANGED <<server, view, cache, loads, forced, faults>>
    BY <1>13 DEF OpEnds
  <2>3. fleet' \in [1..Len(view'.list) -> Badges] /\ asks' \subseteq Answers
    BY <1>13, <2>2, RenderStep DEF OpEnds
  <2> QED
    BY <2>1, <2>2, <2>3
<1>14. CASE UNCHANGED vars
  BY <1>14 DEF vars
<1> QED
  BY <1>2, <1>3, <1>4, <1>5, <1>6, <1>7, <1>8, <1>9, <1>10, <1>11, <1>12, <1>13, <1>14
     DEF Next, Request

-----------------------------------------------------------------------------
(* Rows and inspections under way stay with their containers, save where   *)
(* an inspection is overtaken by a list.                                   *)
LEMMA RowsStep ==
    ASSUME TypeInv, AsksKnowTheirRow, [Next]_vars
    PROVE  AsksKnowTheirRow' /\ [BadgesStayOwn]_vars
<1> USE DEF TypeInv
<1>1. CASE UNCHANGED <<view, fleet, asks>>
  <2>1. AsksKnowTheirRow'
    BY <1>1 DEF AsksKnowTheirRow
  <2>2. BadgesStayOwn
    BY <1>1 DEF BadgesStayOwn
  <2> QED
    BY <2>1, <2>2
<1>2. ASSUME NEW l \in Loads, Apply(l)
      PROVE  AsksKnowTheirRow' /\ BadgesStayOwn
  <2> DEFINE others == {[a EXCEPT !.old = TRUE] : a \in asks}
  <2>1. view' \in Pages /\ Render(view', others)
    BY <1>2 DEF Apply
  <2>2. \A a \in others : a.old
    <3>1. \A a \in asks : [a EXCEPT !.old = TRUE].old
      BY AskFields
    <3> QED
      BY <3>1
  <2> HIDE DEF others
  <2>3. AsksKnowTheirRow'
    BY <2>1, <2>2, AsksOfView DEF Render, AsksKnowTheirRow
  <2>4. [i \in 1..Len(view'.list) |-> Blank] \in [1..Len(view'.list) -> Badges]
    BY DEF Badges
  <2>5. \A i \in 1..Len(view'.list) : fleet'[i] \in {Blank, view'.list[i]}
    BY <2>1, <2>4, PaintedBadges DEF Render
  <2>6. DOMAIN fleet' = 1..Len(view'.list)
    BY <2>1, <2>4, PaintedBadges DEF Render
  <2>7. BadgesStayOwn
    BY <2>5, <2>6, Zenon DEF BadgesStayOwn
  <2> QED
    BY <2>3, <2>7
<1>3. CASE ShowFleet
  <2>1. view' = view /\ view \in Pages /\ Render(view, {})
    BY <1>3 DEF ShowFleet
  <2>2. AsksKnowTheirRow'
    BY <2>1, AsksOfView DEF Render, AsksKnowTheirRow
  <2>3. [i \in 1..Len(view.list) |-> Blank] \in [1..Len(view.list) -> Badges]
    BY DEF Badges
  <2>4. BadgesStayOwn
    BY <2>1, <2>3, PaintedBadges DEF Render, BadgesStayOwn
  <2> QED
    BY <2>2, <2>4
<1>4. ASSUME view' = view, fleet' = Painted(view, fleet),
             asks' = Ask(view, {}) \/ asks' = Ask(view, asks)
      PROVE  AsksKnowTheirRow' /\ BadgesStayOwn
  <2>1. view \in Pages /\ fleet \in [1..Len(view.list) -> Badges]
    OBVIOUS
  <2>2. AsksKnowTheirRow'
    BY <1>4, <2>1, AsksOfView DEF AsksKnowTheirRow
  <2>3. BadgesStayOwn
    BY <1>4, <2>1, PaintedBadges DEF BadgesStayOwn
  <2> QED
    BY <2>2, <2>3
<1>5. CASE ShowDetail \/ OpEnds
  BY <1>1, <1>4, <1>5 DEF ShowDetail, OpEnds
<1>6. ASSUME NEW a \in asks, AnswerAsk(a)
      PROVE  AsksKnowTheirRow' /\ BadgesStayOwn
  <2>1. view' = view /\ fleet' = fleet
    BY <1>6 DEF AnswerAsk
  <2>2. \E answer : asks' = (asks \ {a}) \union {[a EXCEPT !.answer = answer]}
    BY <1>6, Zenon DEF AnswerAsk
  <2>3. \A answer : LET b == [a EXCEPT !.answer = answer]
                    IN  b.old = a.old /\ b.index = a.index /\ b.c = a.c
    BY AskFields
  <2>4. AsksKnowTheirRow'
    <3>1. \A b \in asks' : \E c \in asks : b.old = c.old /\ b.index = c.index /\ b.c = c.c
      BY <2>2, <2>3
    <3> QED
      BY <2>1, <3>1 DEF AsksKnowTheirRow
  <2>5. BadgesStayOwn
    BY <2>1 DEF BadgesStayOwn
  <2> QED
    BY <2>4, <2>5
<1>7. ASSUME NEW a \in asks, ApplyAsk(a)
      PROVE  AsksKnowTheirRow' /\ BadgesStayOwn
  <2>1. a \in Answers /\ asks' = asks \ {a}
    BY <1>7 DEF ApplyAsk
  <2>2. view'.list = view.list
    BY <1>7 DEF ApplyAsk, Pages, View
  <2>3. AsksKnowTheirRow'
    BY <2>1, <2>2 DEF AsksKnowTheirRow
  <2>4. fleet' = [i \in DOMAIN fleet |-> IF i = a.index THEN a.c ELSE fleet[i]]
    BY <1>7 DEF ApplyAsk
  <2>5. BadgesStayOwn
    BY <2>1, <2>2, <2>4 DEF BadgesStayOwn, AsksKnowTheirRow
  <2> QED
    BY <2>3, <2>5
<1>8. CASE \/ Tick \/ ReadOwn \/ \E l \in Loads : LoadFails(l)
           \/ \E knd \in {"container", "machine", "action"}, c \in Containers : Begin(knd, c)
           \/ Perform \/ Performed \/ OpFails
           \/ \E present \in SUBSET Containers : Change(present)
           \/ UNCHANGED vars
  <2>1. UNCHANGED <<view, fleet, asks>>
    BY <1>8 DEF Tick, ReadOwn, LoadFails, Begin, Perform, Performed, OpFails, Change, vars
  <2> QED
    BY <1>1, <2>1
<1> QED
  BY <1>2, <1>3, <1>5, <1>6, <1>7, <1>8 DEF Next, Request

(* Between an operation and the end of its own load, the operations that   *)
(* the server has performed stay the same.                                 *)
LEMMA OwnStep ==
    ASSUME TypeInv, OwnIsRecent, [Next]_vars
    PROVE  OwnIsRecent'
<1> USE DEF TypeInv, OwnIsRecent, OperationIsShown
<1>1. CASE Tick \/ ReadOwn
  <2>1. UNCHANGED <<server, view, op>>
    BY <1>1 DEF Tick, ReadOwn
  <2>2. loads'["own"] = loads["own"] \/ loads'["own"].view = Listing
    BY <1>1 DEF Tick, ReadOwn, Read, Loads
  <2> QED
    BY <2>1, <2>2, ListingIsView
<1>2. ASSUME NEW l \in Loads, op.pc # "shown", Apply(l) \/ LoadFails(l)
      PROVE  OwnIsRecent'
  <2>1. loads' = [loads EXCEPT ![l] = NoLoad] /\ loads[l].under /\ server' = server
    BY <1>2 DEF Apply, LoadFails
  <2>2. loads'["own"].under => loads'["own"] = loads["own"]
    BY <2>1 DEF Loads, NoLoad
  <2>3. CASE l = "own" /\ Apply(l)
    BY <2>1, <2>2, <2>3 DEF Apply
  <2>4. CASE l = "own" /\ LoadFails(l)
    <3>1. op'.failed
      BY <2>4, LoadedFields DEF LoadFails
    <3> QED
      BY <2>1, <2>2, <3>1
  <2>5. CASE l # "own"
    <3>1. op' = op
      BY <1>2, <2>5 DEF Apply, LoadFails, Loaded
    <3> QED
      BY <1>2, <2>1, <2>2, <3>1
  <2> QED
    BY <1>2, <2>3, <2>4, <2>5
<1>3. ASSUME NEW a \in asks, op.pc # "shown", AnswerAsk(a) \/ ApplyAsk(a)
      PROVE  OwnIsRecent'
  <2>1. server'.ops = server.ops /\ op' = op /\ loads' = loads
    BY <1>3 DEF AnswerAsk, ApplyAsk, Server
  <2> QED
    BY <1>3, <2>1
<1>4. CASE ShowFleet \/ ShowDetail
  BY <1>4 DEF ShowFleet, ShowDetail
<1>5. CASE \/ \E knd \in {"container", "machine", "action"}, c \in Containers : Begin(knd, c)
           \/ Performed \/ OpFails
  <2>1. op'.pc # "shown"
    <3>1. CASE \E knd \in {"container", "machine", "action"}, c \in Containers : Begin(knd, c)
      BY <3>1 DEF Begin, NoOp
    <3>2. CASE Performed
      BY <3>2 DEF Performed, Operations
    <3>3. CASE OpFails
      BY <3>3 DEF OpFails, NoOp
    <3> QED
      BY <1>5, <3>1, <3>2, <3>3
  <2>2. UNCHANGED <<server, loads>>
    BY <1>5 DEF Begin, Performed, OpFails
  <2> QED
    BY <2>1, <2>2
<1>6. CASE Perform
  <2>1. op'.pc # "shown" /\ ~loads["own"].under /\ loads' = loads
    BY <1>6 DEF Perform, Operations
  <2> QED
    BY <2>1
<1>7. ASSUME NEW present \in SUBSET Containers, Change(present)
      PROVE  OwnIsRecent'
  <2>1. server'.ops = server.ops /\ UNCHANGED <<view, op, loads>>
    BY <1>7 DEF Change, Server
  <2> QED
    BY <2>1
<1>8. CASE OpEnds
  <2>1. op'.pc # "shown" /\ UNCHANGED <<server, loads>>
    BY <1>8 DEF OpEnds, NoOp
  <2> QED
    BY <2>1
<1>9. CASE UNCHANGED vars
  BY <1>9 DEF vars
<1> QED
  BY <1>1, <1>2, <1>3, <1>4, <1>5, <1>6, <1>7, <1>8, <1>9 DEF Next, Request

(* What is refreshed is forgotten: the memory at once, the persisted       *)
(* verdicts before the list that follows is read.                          *)
LEMMA ForcedStep ==
    ASSUME TypeInv, ForcedIsFollowed, [Next]_vars
    PROVE  ForcedIsFollowed'
<1> USE DEF TypeInv
<1>1. CASE UNCHANGED <<server, view, cache, asks, op, forced, loads>>
  BY <1>1 DEF ForcedIsFollowed, Fresh
<1>2. CASE Tick \/ ReadOwn
  <2>1. UNCHANGED <<server, view, cache, asks, op, forced>>
    BY <1>2 DEF Tick, ReadOwn
  <2>2. loads'["own"] = loads["own"] \/ loads'["own"].view = Listing
    BY <1>2 DEF Tick, ReadOwn, Read, Loads
  <2>3. Fresh(Listing)
    BY ListingIsView, Constants DEF ForcedIsFollowed, Fresh
  <2> QED
    BY <2>1, <2>2, <2>3 DEF ForcedIsFollowed, Fresh
<1>3. ASSUME NEW l \in Loads, op.pc # "shown", Apply(l) \/ LoadFails(l)
      PROVE  ForcedIsFollowed'
  <2>1. /\ loads' = [loads EXCEPT ![l] = NoLoad] /\ loads[l].under
        /\ UNCHANGED <<server, cache, forced>>
    BY <1>3 DEF Apply, LoadFails
  <2>2. loads'["own"].under => loads'["own"] = loads["own"]
    BY <2>1 DEF Loads, NoLoad
  <2>3. \A a \in asks' : a.answer \in Verdicts => a.answer >= forced[a.c]
    <3>1. CASE Apply(l)
      <4> DEFINE others == {[a EXCEPT !.old = TRUE] : a \in asks}
      <4>1. \A b \in others : \E a \in asks : b.answer = a.answer /\ b.c = a.c
        <5>1. \A a \in asks : /\ [a EXCEPT !.old = TRUE].answer = a.answer
                              /\ [a EXCEPT !.old = TRUE].c = a.c
          BY AskFields
        <5> QED
          BY <5>1
      <4>2. view' \in Pages /\ asks' = Ask(view', others)
        BY <3>1 DEF Apply, Render
      <4> HIDE DEF others
      <4>3. \A a \in asks' : a.answer = None \/ \E b \in asks : a.answer = b.answer /\ a.c = b.c
        BY <4>1, <4>2, AsksOfView
      <4> QED
        BY <4>3, Constants DEF ForcedIsFollowed
    <3>2. CASE LoadFails(l)
      BY <3>2 DEF LoadFails, ForcedIsFollowed
    <3> QED
      BY <1>3, <3>1, <3>2
  <2>4. op'.pc = "shown" /\ ~op'.failed => Fresh(view')
    <3>1. CASE l = "own" /\ Apply(l)
      BY <3>1 DEF Apply, ForcedIsFollowed
    <3>2. CASE l = "own" /\ LoadFails(l)
      BY <3>2, LoadedFields DEF LoadFails
    <3>3. CASE l # "own"
      BY <1>3, <3>3 DEF Apply, LoadFails, Loaded
    <3> QED
      BY <1>3, <3>1, <3>2, <3>3
  <2> QED
    BY <2>1, <2>2, <2>3, <2>4 DEF ForcedIsFollowed, Fresh
<1>4. CASE ShowFleet \/ ShowDetail
  <2>1. asks' = Ask(view, {}) /\ UNCHANGED <<server, view, cache, op, forced, loads>>
    BY <1>4 DEF ShowFleet, ShowDetail, Render
  <2>2. \A a \in asks' : a.answer = None
    BY <2>1, AsksOfView
  <2> QED
    BY <2>1, <2>2, Constants DEF ForcedIsFollowed, Fresh
<1>5. ASSUME NEW a \in asks, AnswerAsk(a)
      PROVE  ForcedIsFollowed'
  <2>1. server'.refreshes = server.refreshes /\ UNCHANGED <<view, cache, loads, op, forced>>
    BY <1>5 DEF AnswerAsk, Server
  <2>2. \A b \in asks' : \/ b \in asks
                         \/ b.answer = Failed
                         \/ b.answer = server.refreshes /\ b.c = a.c
    <3>1. \E answer \in {server.refreshes, Failed} :
             asks' = (asks \ {a}) \union {[a EXCEPT !.answer = answer]}
      BY <1>5, Zenon DEF AnswerAsk
    <3>2. \A answer : LET b == [a EXCEPT !.answer = answer] IN b.answer = answer /\ b.c = a.c
      BY AskFields
    <3> QED
      BY <3>1, <3>2
  <2>3. a.c \in Containers
    BY DEF Answers
  <2>4. \A b \in asks' : b.answer \in Verdicts => b.answer >= forced[b.c]
    BY <2>2, <2>3, Constants DEF ForcedIsFollowed, Server
  <2> QED
    BY <2>1, <2>4 DEF ForcedIsFollowed, Fresh
<1>6. ASSUME NEW a \in asks, ApplyAsk(a), op.pc # "shown"
      PROVE  ForcedIsFollowed'
  <2>1. /\ asks' = asks \ {a} /\ cache' = [cache EXCEPT ![a.c] = a.answer]
        /\ UNCHANGED <<server, loads, op, forced>>
    BY <1>6 DEF ApplyAsk
  <2>2. \A c \in Containers : cache'[c] \in Verdicts => cache'[c] >= forced[c]
    BY <2>1 DEF ForcedIsFollowed
  <2> QED
    BY <1>6, <2>1, <2>2 DEF ForcedIsFollowed, Fresh
<1>7. ASSUME NEW knd \in {"container", "machine", "action"}, NEW c \in Containers, Begin(knd, c)
      PROVE  ForcedIsFollowed'
  <2>1. op'.pc = "sent" /\ UNCHANGED <<server, view, cache, asks, forced, loads>>
    BY <1>7 DEF Begin, NoOp
  <2> QED
    BY <2>1 DEF ForcedIsFollowed, Fresh
<1>8. CASE Perform
  <2>1. op'.pc = "performed" /\ UNCHANGED <<view, cache, asks, forced, loads>>
    BY <1>8 DEF Perform, Operations
  <2>2. server'.refreshes \in {server.refreshes, server.refreshes + 1} /\ server.refreshes \in Nat
    BY <1>8 DEF Perform, Server
  <2>3. \A c \in Containers : forced[c] <= server'.refreshes
    <3>1. \A c \in Containers : forced[c] \in Nat /\ forced[c] <= server.refreshes
      BY Constants DEF ForcedIsFollowed
    <3> QED
      BY <2>2, <3>1
  <2> QED
    BY <2>1, <2>3 DEF ForcedIsFollowed, Fresh
<1>9. CASE Performed
  <2>1. op'.pc = "loading" /\ ~loads["own"].under /\ UNCHANGED <<server, asks, loads>>
    BY <1>9 DEF Performed, Operations
  <2>2. op.c \in Containers /\ server.refreshes \in Nat
    BY <1>9 DEF Performed, Server
  <2>3. CASE cache' = cache /\ forced' = forced
    BY <2>1, <2>3 DEF ForcedIsFollowed
  <2>4. CASE /\ cache' = [cache EXCEPT ![op.c] = None]
             /\ \/ forced' = forced
                \/ /\ forced' = [forced EXCEPT ![op.c] = server.refreshes]
                   /\ \A a \in asks : a.c # op.c
    <3>1. \A c \in Containers : forced'[c] <= server.refreshes
      BY <2>2, <2>4 DEF ForcedIsFollowed
    <3>2. \A c \in Containers : cache'[c] \in Verdicts => cache'[c] >= forced'[c]
      BY <2>2, <2>4, Constants DEF ForcedIsFollowed
    <3>3. \A a \in asks : a.answer \in Verdicts => a.answer >= forced'[a.c]
      <4>1. \A a \in asks : a.c \in Containers
        BY DEF Answers
      <4> QED
        BY <2>2, <2>4, <4>1 DEF ForcedIsFollowed
    <3> QED
      BY <2>1, <3>1, <3>2, <3>3 DEF ForcedIsFollowed
  <2> QED
    BY <1>9, <2>3, <2>4 DEF Performed
<1>10. CASE OpFails
  <2>1. op'.pc = "none" /\ UNCHANGED <<server, view, cache, asks, forced, loads>>
    BY <1>10 DEF OpFails, NoOp
  <2> QED
    BY <2>1 DEF ForcedIsFollowed, Fresh
<1>11. ASSUME NEW present \in SUBSET Containers, Change(present)
       PROVE  ForcedIsFollowed'
  <2>1. server'.refreshes = server.refreshes /\ UNCHANGED <<view, cache, asks, op, forced, loads>>
    BY <1>11 DEF Change, Server
  <2> QED
    BY <2>1 DEF ForcedIsFollowed, Fresh
<1>12. CASE OpEnds
  <2>1. op'.pc = "none" /\ UNCHANGED <<server, view, cache, forced, loads>>
    BY <1>12 DEF OpEnds, NoOp
  <2>2. asks' = asks \/ asks' = Ask(view, asks)
    BY <1>12 DEF OpEnds
  <2>3. \A a \in asks' : a \in asks \/ a.answer = None
    BY <2>2, AsksOfView
  <2> QED
    BY <2>1, <2>3, Constants DEF ForcedIsFollowed, Fresh
<1>13. CASE UNCHANGED vars
  BY <1>1, <1>13 DEF vars
<1> QED
  BY <1>2, <1>3, <1>4, <1>5, <1>6, <1>7, <1>8, <1>9, <1>10, <1>11, <1>12, <1>13
     DEF Next, Request

-----------------------------------------------------------------------------
(* Every step keeps the invariant.                                         *)
LEMMA NextInv == Inv /\ [Next]_vars => Inv' /\ [BadgesStayOwn]_vars
BY TypeStep, RowsStep, OwnStep, ForcedStep DEF Inv

(* A dialog that shows what is known of its container shows no verdict     *)
(* that the memory or the list has from before its refresh.                *)
LEMMA InvForgets == Inv => TypeOK /\ OperationIsShown /\ RefreshForgets
<1> SUFFICES ASSUME Inv PROVE TypeOK /\ OperationIsShown /\ RefreshForgets
  OBVIOUS
<1> USE DEF Inv, TypeInv
<1>1. TypeOK
  <2>1. DOMAIN fleet = DOMAIN view.list
    BY DEF Pages, View
  <2>2. \A l \in Loads : loads[l].view \in View
    BY DEF Pages
  <2> QED
    BY <2>1, <2>2 DEF TypeOK, Pages, Server, Operations
<1>2. OperationIsShown
  BY DEF OwnIsRecent
<1>3. RefreshForgets
  BY DEF ForcedIsFollowed, RefreshForgets, Known, Fresh
<1> QED
  BY <1>1, <1>2, <1>3

(* The invariant of the specification.                                     *)
LEMMA SpecInv == Spec => []Inv
BY InitInv, NextInv, PTL DEF Spec

(* Types, and the rules that go with them: the list and the badges have    *)
(* the same rows, a load of an operation is under way only when the        *)
(* operation waits for it.                                                 *)
THEOREM TypeCorrect == Spec => []TypeOK
BY SpecInv, InvForgets, PTL

(* However many operations and loads there are, and in whatever order      *)
(* their answers arrive: the list that an operation ends with shows it.    *)
THEOREM OperationsAreShown == Spec => []OperationIsShown
BY SpecInv, InvForgets, PTL

(* However lists, inspections and refreshes overlap: a container's button  *)
(* leaves no verdict from before in the memory or in the list it ends with. *)
THEOREM RefreshesForget == Spec => []RefreshForgets
BY SpecInv, InvForgets, PTL

(* Only an inspection that a newer list has overtaken paints a badge on    *)
(* the row of another container.                                           *)
THEOREM BadgesAreOwn == Spec => RowsAreOwn
BY SpecInv, NextInv, PTL DEF Spec, RowsAreOwn

=============================================================================
