------------------------ MODULE ContainerCacheProofs ------------------------
(***************************************************************************)
(* Proofs about ContainerCache, for any number of containers, images and   *)
(* handlers, and any number of changes of the host.                        *)
(***************************************************************************)
EXTENDS ContainerCache, TLAPS

(* A handler that waits for something knows what it will write.            *)
HandlerOK(q) ==
    /\ q.kind = "none" => q.pc = "idle"
    /\ q.kind = "inspect" <=> q.pc = "checking"
    /\ q.pc \in {"checking", "run"} => q.c \in Containers
    /\ q.pc \in {"run", "lock"} => q.kind \in {"action", "update"}
    /\ q.pc = "collect" => q.kind \in {"refresh", "action", "update"}
    /\ q.pc = "reset" => q.kind = "refresh"
    /\ q.pc = "final" => q.kind = "update"
    /\ q.kind \in {"inspect", "update"} => q.seen \in Row

HandlersOK == \A r \in Requests : HandlerOK(req[r])

(* The holder of the lock, unless it is Poll, is the handler that collects.*)
HolderCollects ==
    \A r \in Requests : req[r].pc = "collect" <=> lock.pc # "free" /\ lock.by = r

TypeInv == TypeOK /\ HandlersOK /\ HolderCollects

(* What is to hold of each row; of the two last the properties are made.   *)
OwnRow(row) ==
    ~row.late => /\ row.update # "null" => row.about = row.image
                 /\ row.label = row.image

ForcedRow(row) == row.recent /\ row.update # "null" => row.basis # "stale"

GoodRow(row) == row \in Row /\ OwnRow(row) /\ ForcedRow(row)

GoodRows == \A c \in Containers : Present(c) => GoodRow(rows[c])

(* What a handler has read is what its row shows, or the handler is late.  *)
SeenIsShown(q) ==
    /\ q.kind = "inspect" => OwnRow(q.seen)
    /\ q.kind = "inspect" /\ ~q.late /\ Present(q.c) => rows[q.c].image = q.seen.image
    /\ q.kind = "update" /\ ~q.late => \A c \in Containers :
                                          Present(c) => rows[c].image = q.seen.image

SeenAreShown == \A r \in Requests : SeenIsShown(req[r])

(* Of a service one container lives at a time, so one is listed at most.   *)
OneOf(image) ==
    \A c, d \in Containers : image[c] # NoImage /\ image[d] # NoImage => c = d

OneAlive ==
    /\ OneOf(host.image) /\ OneOf(lock.report.image)
    /\ \A c, d \in Containers : Present(c) /\ Present(d) => c = d
    /\ \A c \in Containers \ born : host.image[c] = NoImage

RowsInv == GoodRows /\ SeenAreShown /\ OneAlive

CacheInv == TypeInv /\ RowsInv

(* What is stored, what is to be stored, and what handlers wait for are    *)
(* versions of the host, in this order.                                    *)
VersionOK(r) ==
    /\ req[r].version <= host.version
    /\ lock.pc = "store" /\ lock.by = r => req[r].version <= lock.report.version
    /\ req[r].pc \in {"final", "complete"} /\ ~req[r].bounced => req[r].version <= stored

VersionsInv ==
    /\ stored <= host.version
    /\ lock.pc = "store" => stored <= lock.report.version /\ lock.report.version <= host.version
    /\ \A r \in Requests : VersionOK(r)

-----------------------------------------------------------------------------
(* Rows and handlers that are built from nothing.                          *)
LEMMA Values ==
    /\ \A i \in Images : Unchecked(i) \in Row
    /\ NoRequest \in Request /\ HandlerOK(NoRequest)
    /\ Empty \in Host
BY CacheAssumption DEF Row, Request, Host, Versions, Unchecked, NoRequest, Empty, HandlerOK

(* The first states.                                                       *)
LEMMA InitType == Init => TypeInv
<1> SUFFICES ASSUME Init PROVE TypeInv
  OBVIOUS
<1>1. TypeOK
  BY Values, CacheAssumption DEF Init, TypeOK, Free, Versions
<1>2. HandlersOK
  BY Values DEF Init, HandlersOK
<1>3. HolderCollects
  BY DEF Init, HolderCollects, Free, NoRequest
<1> QED
  BY <1>1, <1>2, <1>3 DEF TypeInv

(* A handler goes on, or ends, and the lock stays as it is.                *)
LEMMA HandlerMoves ==
    ASSUME TypeInv, NEW r \in Requests, NEW new \in Request,
           req[r].pc # "collect", new.pc # "collect", HandlerOK(new),
           SetReq(r, new), lock' = lock
    PROVE  req' \in [Requests -> Request] /\ HandlersOK' /\ HolderCollects'
BY DEF TypeInv, TypeOK, HandlersOK, HolderCollects, SetReq

(* A failure of SSH is written.                                            *)
LEMMA Failed ==
    ASSUME NEW row, GoodRow(row), NEW b \in BOOLEAN
    PROVE  LET new == [row EXCEPT !.update = "null", !.about = NoImage, !.verified = b,
                                  !.recent = TRUE, !.basis = "stale"]
           IN  GoodRow(new) /\ new.image = row.image
BY DEF GoodRow, OwnRow, ForcedRow, Row

(* A day passes, a refresh forgets when rows were checked, or fails to.    *)
LEMMA Aged ==
    ASSUME NEW row, GoodRow(row)
    PROVE  LET old == [row EXCEPT !.recent = FALSE]
               reset == [row EXCEPT !.recent = FALSE, !.basis = "stale"]
               left == [row EXCEPT !.basis = IF row.recent THEN "spared" ELSE "stale"]
           IN  /\ GoodRow(old) /\ old.image = row.image
               /\ GoodRow(reset) /\ reset.image = row.image
               /\ GoodRow(left) /\ left.image = row.image
BY DEF GoodRow, OwnRow, ForcedRow, Row

(* A collect keeps the row of an unchanged image, or makes it anew.        *)
LEMMA Upserted ==
    ASSUME NEW row, row = NoRow \/ GoodRow(row), NEW image \in Images
    PROVE  LET new == Upsert(row, image) IN GoodRow(new) /\ new.image = image
BY Values DEF Upsert, Unchecked, GoodRow, OwnRow, ForcedRow

-----------------------------------------------------------------------------
(* A handler goes on, or ends, and nothing else happens.                   *)
LEMMA Moves ==
    ASSUME CacheInv, NEW r \in Requests, NEW new \in Request,
           req[r].pc # "collect", new.pc # "collect", HandlerOK(new), SeenIsShown(new),
           SetReq(r, new), UNCHANGED <<rows, stored, host, born, lock>>
    PROVE  CacheInv'
<1>1. req' \in [Requests -> Request] /\ HandlersOK' /\ HolderCollects'
  BY HandlerMoves DEF CacheInv
<1>2. SeenAreShown'
  BY DEF CacheInv, RowsInv, TypeInv, TypeOK, SeenAreShown, SeenIsShown, SetReq, Present
<1>3. GoodRows' /\ OneAlive'
  BY DEF CacheInv, RowsInv, GoodRows, OneAlive, OneOf, Present
<1> QED
  BY <1>1, <1>2, <1>3 DEF CacheInv, RowsInv, TypeInv, TypeOK

(* A handler that is neither inspect nor update has read nothing.          *)
LEMMA NothingSeen ==
    ASSUME NEW q, q.kind \notin {"inspect", "update"}
    PROVE  SeenIsShown(q)
BY DEF SeenIsShown

(* The steps of handlers that touch neither rows nor host nor lock.        *)
LEMMA MoveSteps ==
    ASSUME CacheInv, NEW r \in Requests,
           \/ \E c \in Containers : Inspect(r, c) \/ StartAction(r, c) \/ StartUpdate(r, c)
           \/ InspectLeft(r) \/ RunFails(r) \/ RunChangesNothing(r) \/ SkipCollect(r)
           \/ FinalLost(r) \/ Complete(r)
    PROVE  CacheInv'
<1> DEFINE q == req[r]
<1>1. q \in Request /\ HandlerOK(q) /\ SeenIsShown(q)
  BY DEF CacheInv, TypeInv, TypeOK, HandlersOK, RowsInv, SeenAreShown
<1>2. NoRequest \in Request /\ HandlerOK(NoRequest) /\ SeenIsShown(NoRequest)
      /\ NoRequest.pc # "collect"
  BY Values, NothingSeen DEF NoRequest
<1>3. ASSUME NEW c \in Containers, Inspect(r, c)
      PROVE  CacheInv'
  <2> DEFINE new == [NoRequest EXCEPT !.kind = "inspect", !.pc = "checking", !.c = c, !.seen = rows[c]]
  <2>1. GoodRow(rows[c])
    BY <1>3 DEF Inspect, CacheInv, RowsInv, GoodRows
  <2>2. new \in Request /\ HandlerOK(new) /\ SeenIsShown(new) /\ new.pc # "collect"
    BY <1>2, <1>3, <2>1 DEF NoRequest, Request, HandlerOK, SeenIsShown, GoodRow
  <2>3. q.pc # "collect"
    BY <1>1, <1>3 DEF Inspect, HandlerOK
  <2> QED
    BY <1>3, <2>2, <2>3, Moves DEF Inspect
<1>4. ASSUME NEW c \in Containers, StartAction(r, c)
      PROVE  CacheInv'
  <2> DEFINE new == [NoRequest EXCEPT !.kind = "action", !.pc = "run", !.c = c]
  <2>1. new \in Request /\ HandlerOK(new) /\ SeenIsShown(new) /\ new.pc # "collect"
    BY <1>2, <1>4 DEF NoRequest, Request, HandlerOK, SeenIsShown
  <2>2. q.pc # "collect"
    BY <1>1, <1>4 DEF StartAction, HandlerOK
  <2> QED
    BY <1>4, <2>1, <2>2, Moves DEF StartAction
<1>5. ASSUME NEW c \in Containers, StartUpdate(r, c)
      PROVE  CacheInv'
  <2> DEFINE new == [NoRequest EXCEPT !.kind = "update", !.pc = "run", !.c = c,
                                     !.seen = Unchecked(rows[c].image)]
  <2>1. rows[c].image \in Images /\ Unchecked(rows[c].image) \in Row
        /\ Unchecked(rows[c].image).image = rows[c].image
    BY <1>5, Values DEF StartUpdate, CacheInv, RowsInv, GoodRows, GoodRow, Row, Unchecked
  <2>2. new \in Request /\ HandlerOK(new) /\ new.pc # "collect"
    BY <1>2, <1>5, <2>1 DEF NoRequest, Request, HandlerOK
  <2>3. SeenIsShown(new)
    BY <1>5, <2>1 DEF StartUpdate, SeenIsShown, NoRequest, CacheInv, RowsInv, OneAlive
  <2>4. q.pc # "collect"
    BY <1>1, <1>5 DEF StartUpdate, HandlerOK
  <2> QED
    BY <1>5, <2>2, <2>3, <2>4, Moves DEF StartUpdate
<1>6. CASE InspectLeft(r) \/ RunFails(r) \/ Complete(r)
  BY <1>1, <1>2, <1>6, Moves DEF InspectLeft, RunFails, Complete
<1>7. CASE RunChangesNothing(r)
  <2> DEFINE new == [q EXCEPT !.pc = "lock", !.version = host.version]
  <2>1. new \in Request /\ HandlerOK(new) /\ SeenIsShown(new) /\ new.pc # "collect"
    BY <1>1, <1>7 DEF RunChangesNothing, Request, HandlerOK, SeenIsShown, CacheInv, TypeInv, TypeOK, Host
  <2> QED
    BY <1>1, <1>7, <2>1, Moves DEF RunChangesNothing
<1>8. CASE SkipCollect(r)
  <2> DEFINE new == [q EXCEPT !.bounced = TRUE, !.pc = IF q.kind = "update" THEN "final" ELSE "complete"]
  <2>1. new \in Request /\ HandlerOK(new) /\ SeenIsShown(new) /\ new.pc # "collect"
    BY <1>1, <1>8 DEF SkipCollect, Request, HandlerOK, SeenIsShown
  <2> QED
    BY <1>1, <1>8, <2>1, Moves DEF SkipCollect
<1>9. CASE FinalLost(r)
  <2> DEFINE new == [q EXCEPT !.pc = "complete"]
  <2>1. new \in Request /\ HandlerOK(new) /\ SeenIsShown(new) /\ new.pc # "collect"
    BY <1>1, <1>9 DEF FinalLost, Request, HandlerOK, SeenIsShown
  <2> QED
    BY <1>1, <1>9, <2>1, Moves DEF FinalLost
<1> QED
  BY <1>3, <1>4, <1>5, <1>6, <1>7, <1>8, <1>9

-----------------------------------------------------------------------------
(* Rows are written, each a good one and with the image it had; a handler  *)
(* that has read something still stands where it was.                      *)
LEMMA Rewrites ==
    ASSUME CacheInv, DOMAIN rows' = Containers, rows' = [c \in Containers |-> rows'[c]],
           \A c \in Containers : ~Present(c) => rows'[c] = NoRow,
           \A c \in Containers : Present(c) => GoodRow(rows'[c]) /\ rows'[c].image = rows[c].image,
           req' \in [Requests -> Request], HandlersOK', HolderCollects',
           \A r \in Requests : req'[r].kind \in {"inspect", "update"} =>
              /\ req'[r].kind = req[r].kind /\ req'[r].c = req[r].c
              /\ req'[r].seen = req[r].seen /\ req'[r].late = req[r].late,
           UNCHANGED <<stored, host, born, lock>>
    PROVE  CacheInv'
<1>1. \A c \in Containers : (rows'[c] # NoRow) <=> Present(c)
  BY NoRowAssumption DEF GoodRow, Present
<1>2. rows' \in [Containers -> Row \union {NoRow}]
  BY DEF GoodRow
<1>3. GoodRows'
  BY <1>1 DEF GoodRows, Present
<1>4. OneAlive'
  BY <1>1 DEF CacheInv, RowsInv, OneAlive, OneOf, Present
<1>5. SeenAreShown'
  <2> SUFFICES ASSUME NEW r \in Requests, req'[r].kind \in {"inspect", "update"}
               PROVE  SeenIsShown(req[r])'
    BY DEF SeenAreShown, SeenIsShown
  <2>1. SeenIsShown(req[r]) /\ (req[r].kind = "inspect" => req[r].c \in Containers)
    BY DEF CacheInv, TypeInv, HandlersOK, HandlerOK, RowsInv, SeenAreShown
  <2> QED
    BY <1>1, <2>1 DEF SeenIsShown, Present
<1> QED
  BY <1>2, <1>3, <1>4, <1>5 DEF CacheInv, TypeInv, TypeOK, RowsInv

(* An inspection writes its row, if it is still there.                     *)
LEMMA Inspected ==
    ASSUME CacheInv, NEW r \in Requests, req[r].pc = "checking", NEW new,
           Present(req[r].c) => GoodRow(new) /\ new.image = rows[req[r].c].image,
           Write(req[r].c, new), SetReq(r, NoRequest), UNCHANGED <<stored, host, born, lock>>
    PROVE  CacheInv'
<1>1. req[r].c \in Containers
  BY DEF CacheInv, TypeInv, HandlersOK, HandlerOK
<1>2. req' \in [Requests -> Request] /\ HandlersOK' /\ HolderCollects'
  BY HandlerMoves, Values DEF CacheInv, NoRequest
<1>3. \A c \in Containers :
         /\ ~Present(c) => rows'[c] = NoRow
         /\ Present(c) => GoodRow(rows'[c]) /\ rows'[c].image = rows[c].image
  BY <1>1 DEF Write, CacheInv, TypeInv, TypeOK, RowsInv, GoodRows, Present
<1>4. DOMAIN rows' = Containers /\ rows' = [c \in Containers |-> rows'[c]]
  BY DEF Write, CacheInv, TypeInv, TypeOK
<1>5. \A s \in Requests : req'[s].kind \in {"inspect", "update"} => req'[s] = req[s]
  BY DEF SetReq, NoRequest, CacheInv, TypeInv, TypeOK
<1> QED
  BY <1>2, <1>3, <1>4, <1>5, Rewrites

(* What inspectContainer writes.                                           *)
LEMMA InspectSteps ==
    ASSUME CacheInv, NEW r \in Requests, NEW v \in {"yes", "no"},
           InspectCached(r) \/ InspectFails(r) \/ InspectUnanswered(r) \/ InspectChecks(r, v)
    PROVE  CacheInv'
<1> DEFINE q == req[r]
           row == rows[q.c]
<1>1. q.pc = "checking" /\ SetReq(r, NoRequest) /\ UNCHANGED <<stored, host, born, lock>>
  BY DEF InspectCached, InspectFails, InspectUnanswered, InspectChecks
<1>2. /\ q.kind = "inspect" /\ q.c \in Containers /\ q.seen \in Row
      /\ q.seen.image \in Images /\ q.late \in BOOLEAN /\ q.basis \in {"check", "excused"}
      /\ OwnRow(q.seen)
      /\ Present(q.c) => GoodRow(row) /\ (~q.late => row.image = q.seen.image)
  BY <1>1 DEF CacheInv, TypeInv, TypeOK, HandlersOK, HandlerOK, Request, Row,
     RowsInv, GoodRows, SeenAreShown, SeenIsShown
<1>3. CASE InspectCached(r)
  <2> DEFINE b == row.late \/ q.late
             new == [row EXCEPT !.label = q.seen.image, !.late = b]
  <2>1. Write(q.c, new)
    BY <1>3, Zenon DEF InspectCached
  <2>2. b \in BOOLEAN /\ (b <=> row.late \/ q.late)
    OBVIOUS
  <2>3. Present(q.c) => GoodRow(new) /\ new.image = row.image
    <3>1. q.seen \in Row /\ (Present(q.c) => GoodRow(row) /\ (~q.late => row.image = q.seen.image))
      BY <1>2
    <3>2. q.late \in BOOLEAN
      BY <1>2
    <3> HIDE DEF b, q, row
    <3> QED
      BY <2>2, <3>1, <3>2 DEF GoodRow, OwnRow, ForcedRow, Row
  <2> HIDE DEF new
  <2> QED
    BY <1>1, <2>1, <2>3, Inspected
<1>4. CASE InspectFails(r)
  <2> DEFINE b == q.seen.image \in Semantic
             new == [row EXCEPT !.update = "null", !.about = NoImage, !.verified = b,
                                !.recent = TRUE, !.basis = "stale"]
  <2>1. CASE ~NeedsCheck(q.seen)
    BY <1>1, <1>4, <2>1, Values, NothingSeen, Moves DEF InspectFails, NoRequest
  <2>2. CASE NeedsCheck(q.seen)
    <3>1. Write(q.c, new)
      BY <1>4, <2>2, Zenon DEF InspectFails
    <3>2. b \in BOOLEAN
      OBVIOUS
    <3>3. Present(q.c) => GoodRow(new) /\ new.image = row.image
      <4> HIDE DEF b
      <4> QED
        BY <1>2, <3>2, Failed
    <3> HIDE DEF new
    <3> QED
      BY <1>1, <3>1, <3>3, Inspected
  <2> QED
    BY <2>1, <2>2
<1>5. CASE InspectUnanswered(r)
  <2> DEFINE kept == IF q.seen.basis = "check" /\ q.basis = "check" THEN "check" ELSE "excused"
             late == q.late \/ q.seen.late
             withdrawn == [row EXCEPT
                             !.label = q.seen.image, !.update = "null", !.about = NoImage,
                             !.verified = FALSE, !.recent = TRUE, !.basis = "stale",
                             !.late = q.late]
             again == [row EXCEPT
                         !.label = q.seen.image, !.update = q.seen.update,
                         !.about = q.seen.about, !.verified = q.seen.verified,
                         !.recent = TRUE, !.basis = kept, !.late = late]
  <2>1. CASE q.seen.image \in Semantic
    <3>1. Write(q.c, withdrawn)
      BY <1>5, <2>1, Zenon DEF InspectUnanswered
    <3>2. Present(q.c) => GoodRow(withdrawn) /\ withdrawn.image = row.image
      BY <1>2 DEF GoodRow, OwnRow, ForcedRow, Row
    <3> HIDE DEF withdrawn
    <3> QED
      BY <1>1, <3>1, <3>2, Inspected
  <2>2. CASE q.seen.image \notin Semantic
    <3>1. Write(q.c, again)
      BY <1>5, <2>2, Zenon DEF InspectUnanswered
    <3>2. late \in BOOLEAN /\ (late <=> q.late \/ q.seen.late)
      OBVIOUS
    <3>3. kept \in {"check", "excused"}
      OBVIOUS
    <3>4. /\ q.seen.verified \in BOOLEAN /\ q.seen.update \in {"null", "no", "yes"}
          /\ q.seen.about \in Images \union {NoImage}
      BY <1>2 DEF Row
    <3>5. Present(q.c) => GoodRow(again) /\ again.image = row.image
      <4> SUFFICES ASSUME Present(q.c)
                   PROVE  GoodRow(again) /\ again.image = row.image
        OBVIOUS
      <4>1. ~late => row.image = q.seen.image
                     /\ (q.seen.update # "null" => q.seen.about = q.seen.image)
        BY <1>2, <3>2 DEF OwnRow
      <4>2. row \in Row /\ q.seen.image \in Images
        BY <1>2 DEF GoodRow
      <4> HIDE DEF late, kept, q, row
      <4>3. again \in Row /\ again.image = row.image /\ ForcedRow(again)
        BY <3>2, <3>3, <3>4, <4>2 DEF ForcedRow, Row
      <4>4. OwnRow(again)
        BY <4>1, <4>2 DEF OwnRow, Row
      <4> QED
        BY <4>3, <4>4 DEF GoodRow
    <3> HIDE DEF again
    <3> QED
      BY <1>1, <3>1, <3>5, Inspected
  <2> QED
    BY <2>1, <2>2
<1>6. CASE InspectChecks(r, v)
  <2> DEFINE b == IF q.seen.image \in Semantic THEN TRUE ELSE q.seen.verified
             new == [row EXCEPT
                       !.label = q.seen.image, !.update = v, !.about = q.seen.image,
                       !.verified = b, !.recent = TRUE, !.basis = q.basis, !.late = q.late]
  <2>1. Write(q.c, new)
    BY <1>6, Zenon DEF InspectChecks
  <2>2. b \in BOOLEAN
    BY <1>2 DEF Row
  <2>3. Present(q.c) => GoodRow(new) /\ new.image = row.image
    <3> HIDE DEF b
    <3> QED
      BY <1>2, <2>2 DEF GoodRow, OwnRow, ForcedRow, Row
  <2> HIDE DEF new
  <2> QED
    BY <1>1, <2>1, <2>3, Inspected
<1> QED
  BY <1>3, <1>4, <1>5, <1>6

(* Time passes, a refresh asks for new checks or fails to, an update       *)
(* writes its last word: every row is written.                             *)
LEMMA TableSteps ==
    ASSUME CacheInv, Age \/ \E r \in Requests : Reset(r) \/ ResetLost(r) \/ Final(r)
    PROVE  CacheInv'
<1> USE DEF CacheInv, TypeInv, TypeOK, RowsInv
<1>1. CASE Age
  <2>1. \A c \in Containers :
           /\ ~Present(c) => rows'[c] = NoRow
           /\ Present(c) => GoodRow(rows'[c]) /\ rows'[c].image = rows[c].image
    BY <1>1, Aged DEF Age, GoodRows
  <2>2. req' \in [Requests -> Request] /\ HandlersOK' /\ HolderCollects'
    BY <1>1 DEF Age, HandlersOK, HolderCollects
  <2> QED
    BY <1>1, <2>1, <2>2, Rewrites DEF Age
<1>2. ASSUME NEW r \in Requests, Reset(r) \/ ResetLost(r)
      PROVE  CacheInv'
  <2>1. \A c \in Containers :
           /\ ~Present(c) => rows'[c] = NoRow
           /\ Present(c) => GoodRow(rows'[c]) /\ rows'[c].image = rows[c].image
    <3> SUFFICES ASSUME NEW c \in Containers, Present(c)
                 PROVE  GoodRow(rows'[c]) /\ rows'[c].image = rows[c].image
      BY <1>2 DEF Reset, ResetLost
    <3>1. GoodRow(rows[c])
      BY DEF GoodRows
    <3>2. CASE Reset(r)
      BY <3>1, <3>2, Aged DEF Reset
    <3>3. CASE ResetLost(r)
      BY <3>1, <3>3, Aged DEF ResetLost
    <3> QED
      BY <1>2, <3>2, <3>3
  <2>2. /\ req[r].pc = "reset" /\ Refreshed(r)
        /\ DOMAIN rows' = Containers /\ rows' = [c \in Containers |-> rows'[c]]
        /\ UNCHANGED <<stored, host, born, lock>>
    BY <1>2 DEF Reset, ResetLost
  <2>3. \A s \in Requests :
           /\ req'[s] \in Request /\ HandlerOK(req'[s])
           /\ s # r => /\ req'[s].kind = req[s].kind /\ req'[s].c = req[s].c
                       /\ req'[s].seen = req[s].seen /\ req'[s].late = req[s].late
                       /\ req'[s].pc = req[s].pc
           /\ s = r => req'[s] = NoRequest
    <3> SUFFICES ASSUME NEW s \in Requests, s # r
                 PROVE  /\ req'[s] \in Request /\ HandlerOK(req'[s])
                        /\ req'[s].kind = req[s].kind /\ req'[s].c = req[s].c
                        /\ req'[s].seen = req[s].seen /\ req'[s].late = req[s].late
                        /\ req'[s].pc = req[s].pc
      BY <2>2, Values DEF Refreshed
    <3> DEFINE b == IF req[s].kind \in {"inspect", "update"} THEN "excused" ELSE req[s].basis
    <3>1. req'[s] = [req[s] EXCEPT !.basis = b]
      BY <2>2 DEF Refreshed
    <3>2. b \in {"check", "excused"} /\ req[s] \in Request /\ HandlerOK(req[s])
      BY DEF HandlersOK, Request
    <3> HIDE DEF b
    <3> QED
      BY <3>1, <3>2 DEF Request, HandlerOK
  <2>4. req' \in [Requests -> Request] /\ HandlersOK'
    <3>1. DOMAIN req' = Requests /\ req' = [s \in Requests |-> req'[s]]
      BY <2>2 DEF Refreshed
    <3> QED
      BY <2>3, <3>1 DEF HandlersOK
  <2>5. HolderCollects'
    BY <2>2, <2>3 DEF HolderCollects, NoRequest
  <2> HIDE DEF CacheInv, TypeInv, TypeOK, RowsInv
  <2> QED
    BY <2>1, <2>2, <2>3, <2>4, <2>5, Rewrites DEF NoRequest
<1>3. ASSUME NEW r \in Requests, Final(r)
      PROVE  CacheInv'
  <2> DEFINE q == req[r]
             new == [q EXCEPT !.pc = "complete"]
  <2>1. /\ q.pc = "final" /\ q.kind = "update" /\ q \in Request /\ HandlerOK(q)
        /\ q.seen.image \in Images /\ q.late \in BOOLEAN /\ q.basis \in {"check", "excused"}
        /\ ~q.late => \A c \in Containers : Present(c) => rows[c].image = q.seen.image
    BY <1>3 DEF Final, HandlersOK, HandlerOK, Request, Row, SeenAreShown, SeenIsShown
  <2>2. \A c \in Containers :
           /\ ~Present(c) => rows'[c] = NoRow
           /\ Present(c) => GoodRow(rows'[c]) /\ rows'[c].image = rows[c].image
    <3> SUFFICES ASSUME NEW c \in Containers, Present(c)
                 PROVE  GoodRow(rows'[c]) /\ rows'[c].image = rows[c].image
      BY <1>3 DEF Final
    <3>1. rows'[c] = [rows[c] EXCEPT
                        !.label = q.seen.image, !.update = "no", !.about = q.seen.image,
                        !.verified = FALSE, !.recent = TRUE, !.basis = q.basis, !.late = q.late]
      BY <1>3 DEF Final
    <3>2. GoodRow(rows[c]) /\ (~q.late => rows[c].image = q.seen.image)
      BY <2>1 DEF GoodRows
    <3>3. q.seen.image \in Images /\ q.late \in BOOLEAN /\ q.basis \in {"check", "excused"}
      BY <2>1
    <3> HIDE DEF CacheInv, TypeInv, TypeOK, RowsInv, q
    <3> QED
      BY <3>1, <3>2, <3>3 DEF GoodRow, OwnRow, ForcedRow, Row
  <2>3. new \in Request /\ HandlerOK(new)
    BY <2>1 DEF Request, HandlerOK
  <2>4. req' \in [Requests -> Request] /\ HandlersOK' /\ HolderCollects'
    <3>1. SetReq(r, new) /\ lock' = lock /\ new.pc # "collect"
      BY <1>3, <2>1 DEF Final, Request
    <3> QED
      BY <2>1, <2>3, <3>1, HandlerMoves
  <2>5. \A s \in Requests : /\ req'[s].kind = req[s].kind /\ req'[s].c = req[s].c
                             /\ req'[s].seen = req[s].seen /\ req'[s].late = req[s].late
    BY <1>3, <2>1 DEF Final, SetReq, Request
  <2> QED
    BY <1>3, <2>2, <2>4, <2>5, Rewrites DEF Final
<1> QED
  BY <1>1, <1>2, <1>3

-----------------------------------------------------------------------------
(* The lock is taken, and its holder waits for the report; or the collect  *)
(* fails, or the process.                                                  *)
LEMMA LockSteps ==
    ASSUME CacheInv,
           \/ PollCollects \/ Report \/ CollectFails \/ Restart
           \/ \E r \in Requests : Refresh(r) \/ CollectAfter(r)
    PROVE  CacheInv'
<1> USE DEF CacheInv, TypeInv, TypeOK
<1>1. CASE PollCollects
  <2>1. TypeInv'
    BY <1>1, Values, CacheAssumption DEF PollCollects, Take, HandlersOK, HolderCollects
  <2>2. RowsInv'
    BY <1>1 DEF PollCollects, Take, RowsInv, GoodRows, SeenAreShown, SeenIsShown, OneAlive, OneOf,
       Present, Empty
  <2> QED
    BY <2>1, <2>2
<1>2. CASE Report
  <2>1. lock' \in [by : Requests \union {Poll}, pc : {"free", "ssh", "store"}, report : Host]
        /\ lock'.pc = "store" /\ lock'.by = lock.by
        /\ (lock'.report.image = host.image \/ lock'.report.image = Empty.image)
    <3> DEFINE silent == [host EXCEPT !.image = Empty.image]
    <3>1. silent \in Host /\ silent.image = Empty.image
      BY Values DEF Host, Empty
    <3>2. \/ lock' = [lock EXCEPT !.pc = "store", !.report = host]
          \/ lock' = [lock EXCEPT !.pc = "store", !.report = silent]
      BY <1>2, Zenon DEF Report
    <3> HIDE DEF silent
    <3> QED
      BY <3>1, <3>2
  <2>2. TypeInv'
    BY <1>2, <2>1 DEF Report, HandlersOK, HolderCollects
  <2>3. RowsInv'
    BY <1>2, <2>1 DEF Report, RowsInv, GoodRows, SeenAreShown, SeenIsShown, OneAlive, OneOf,
       Present, Empty
  <2> QED
    BY <2>2, <2>3
<1>3. CASE CollectFails \/ Restart
  <2>1. /\ lock' = Free /\ UNCHANGED <<rows, stored, host, born>>
        /\ req' \in [Requests -> Request]
        /\ \A r \in Requests : req'[r] = NoRequest \/ (req'[r] = req[r] /\ req[r].pc # "collect")
    BY <1>3, Values DEF CollectFails, Restart, HolderCollects
  <2>2. TypeInv'
    <3>1. lock' \in [by : Requests \union {Poll}, pc : {"free", "ssh", "store"}, report : Host]
          /\ lock'.pc = "free"
      BY <2>1, Values DEF Free
    <3>2. \A r \in Requests : HandlerOK(req'[r]) /\ req'[r].pc # "collect"
      <4>1. NoRequest.pc # "collect"
        BY DEF NoRequest
      <4> QED
        BY <2>1, <4>1, Values DEF HandlersOK
    <3> QED
      BY <2>1, <3>1, <3>2 DEF HandlersOK, HolderCollects
  <2>3. SeenAreShown'
    BY <2>1 DEF RowsInv, SeenAreShown, SeenIsShown, Present, NoRequest
  <2>4. GoodRows' /\ OneAlive'
    BY <2>1 DEF RowsInv, GoodRows, OneAlive, OneOf, Present, Free, Empty
  <2> QED
    BY <2>2, <2>3, <2>4 DEF RowsInv
<1>4. ASSUME NEW r \in Requests, Refresh(r) \/ CollectAfter(r)
      PROVE  CacheInv'
  <2> DEFINE new == IF req[r].kind = "none"
                    THEN [NoRequest EXCEPT !.kind = "refresh", !.pc = "collect"]
                    ELSE [req[r] EXCEPT !.pc = "collect"]
  <2>1. /\ Take(r) /\ SetReq(r, new) /\ UNCHANGED <<rows, stored, host, born>>
        /\ req[r] \in Request /\ HandlerOK(req[r]) /\ SeenIsShown(req[r])
    BY <1>4 DEF Refresh, CollectAfter, HandlersOK, HandlerOK, RowsInv, SeenAreShown
  <2>2. new \in Request /\ HandlerOK(new) /\ SeenIsShown(new) /\ new.pc = "collect"
    <3>1. CASE Refresh(r)
      <4> DEFINE fresh == [NoRequest EXCEPT !.kind = "refresh", !.pc = "collect"]
      <4>1. fresh \in Request /\ HandlerOK(fresh) /\ SeenIsShown(fresh) /\ fresh.pc = "collect"
        BY Values DEF Request, HandlerOK, SeenIsShown, NoRequest
      <4>2. new = fresh
        BY <3>1 DEF Refresh
      <4> HIDE DEF fresh, new
      <4> QED
        BY <4>1, <4>2, Zenon
    <3>2. CASE CollectAfter(r)
      BY <2>1, <3>2 DEF CollectAfter, Request, HandlerOK, SeenIsShown
    <3> QED
      BY <1>4, <3>1, <3>2
  <2> HIDE DEF new
  <2>3. \A s \in Requests : req'[s] = IF s = r THEN new ELSE req[s]
    BY <2>1 DEF SetReq
  <2>4. lock' \in [by : Requests \union {Poll}, pc : {"free", "ssh", "store"}, report : Host]
        /\ lock'.pc = "ssh" /\ lock'.by = r /\ lock.pc = "free" /\ lock'.report = Empty
    BY <2>1, Values DEF Take
  <2>5. TypeInv'
    BY <2>1, <2>2, <2>3, <2>4 DEF HandlersOK, HolderCollects, SetReq
  <2>6. SeenAreShown'
    BY <2>1, <2>2, <2>3 DEF RowsInv, SeenAreShown, SeenIsShown, Present
  <2>7. GoodRows' /\ OneAlive'
    BY <2>1, <2>4 DEF RowsInv, GoodRows, OneAlive, OneOf, Present, Empty
  <2> QED
    BY <2>5, <2>6, <2>7 DEF RowsInv
<1> QED
  BY <1>1, <1>2, <1>3, <1>4

(* The report is stored: rows are kept, made anew or deleted, and whoever  *)
(* had read another image is late now.                                     *)
LEMMA StoreStep ==
    ASSUME CacheInv, StoreReport
    PROVE  CacheInv'
<1> USE DEF CacheInv, TypeInv, TypeOK
<1> DEFINE now == lock.report.image
<1>1. /\ lock.pc = "store" /\ lock' = Free /\ stored' = lock.report.version
      /\ UNCHANGED <<host, born>>
      /\ rows' = [c \in Containers |-> IF now[c] = NoImage THEN NoRow ELSE Upsert(rows[c], now[c])]
  BY DEF StoreReport
<1>2. now \in [Containers -> Images \union {NoImage}] /\ stored' \in Versions
  BY <1>1 DEF Host
<1>3. \A c \in Containers :
         /\ now[c] = NoImage => rows'[c] = NoRow
         /\ now[c] # NoImage => GoodRow(rows'[c]) /\ rows'[c].image = now[c]
  <2> SUFFICES ASSUME NEW c \in Containers
               PROVE  /\ now[c] = NoImage => rows'[c] = NoRow
                      /\ now[c] # NoImage => GoodRow(rows'[c]) /\ rows'[c].image = now[c]
    OBVIOUS
  <2>1. rows'[c] = IF now[c] = NoImage THEN NoRow ELSE Upsert(rows[c], now[c])
    BY <1>1
  <2>2. rows[c] = NoRow \/ GoodRow(rows[c])
    BY DEF RowsInv, GoodRows, Present
  <2>3. now[c] # NoImage => now[c] \in Images
    BY <1>2
  <2> HIDE DEF CacheInv, now
  <2> QED
    BY <2>1, <2>2, <2>3, Upserted
<1>4. rows' \in [Containers -> Row \union {NoRow}] /\ GoodRows' /\ OneAlive'
  <2>1. rows' \in [Containers -> Row \union {NoRow}]
    BY <1>1, <1>3 DEF GoodRow
  <2>2. GoodRows'
    BY <1>3 DEF GoodRows, Present
  <2>3. OneAlive'
    BY <1>1, <1>3 DEF RowsInv, OneAlive, OneOf, Present, Free, Empty
  <2> QED
    BY <2>1, <2>2, <2>3
<1>5. ASSUME NEW s \in Requests
      PROVE  /\ req'[s] \in Request /\ HandlerOK(req'[s]) /\ req'[s].pc # "collect"
             /\ req'[s].kind = req[s].kind /\ req'[s].c = req[s].c /\ req'[s].seen = req[s].seen
             /\ req'[s].late <=> req[s].late \/ Overtaken(req[s], rows')
  <2> DEFINE q == req[s]
             b == q.late \/ Overtaken(q, rows')
             caught == [q EXCEPT !.late = b]
  <2>1. q \in Request /\ HandlerOK(q) /\ (q.pc = "collect" <=> lock.by = s)
    BY <1>1 DEF HandlersOK, HolderCollects
  <2>2. req'[s] = IF s = lock.by THEN Resume(caught) ELSE caught
    BY Zenon DEF StoreReport
  <2>3. b \in BOOLEAN /\ (b <=> q.late \/ Overtaken(q, rows'))
    OBVIOUS
  <2> HIDE DEF b
  <2>4. /\ caught \in Request /\ HandlerOK(caught) /\ caught.pc = q.pc /\ caught.late = b
        /\ caught.kind = q.kind /\ caught.c = q.c /\ caught.seen = q.seen
    BY <2>1, <2>3 DEF Request, HandlerOK
  <2> HIDE DEF caught
  <2>5. caught.pc = "collect" =>
          /\ Resume(caught) \in Request /\ HandlerOK(Resume(caught)) /\ Resume(caught).late = caught.late
          /\ Resume(caught).kind = caught.kind /\ Resume(caught).c = caught.c
          /\ Resume(caught).seen = caught.seen /\ Resume(caught).pc # "collect"
    BY <2>4 DEF Resume, Request, HandlerOK
  <2> QED
    BY <2>1, <2>2, <2>3, <2>4, <2>5
<1>6. TypeInv'
  <2>1. req' \in [Requests -> Request]
    <3>1. DOMAIN req' = Requests /\ req' = [s \in Requests |-> req'[s]]
      BY DEF StoreReport
    <3> QED
      BY <1>5, <3>1
  <2> QED
    BY <1>1, <1>2, <1>4, <1>5, <2>1, Values DEF HandlersOK, HolderCollects, Free
<1>7. SeenAreShown'
  <2> SUFFICES ASSUME NEW s \in Requests PROVE SeenIsShown(req[s])'
    BY DEF SeenAreShown
  <2>1. SeenIsShown(req[s]) /\ (req[s].kind = "inspect" => req[s].c \in Containers)
    BY DEF HandlersOK, HandlerOK, RowsInv, SeenAreShown
  <2> QED
    BY <1>5, <2>1 DEF SeenIsShown, Overtaken, Present
<1> QED
  BY <1>4, <1>6, <1>7 DEF RowsInv

(* The host changes, by itself or by a command.                            *)
LEMMA HostSteps ==
    ASSUME CacheInv,
           \/ \E c \in Containers, i \in Images \union {NoImage} : HostChange(c, i)
           \/ \E r \in Requests : Run(r)
    PROVE  CacheInv'
<1> USE DEF CacheInv, TypeInv, TypeOK
<1>1. ASSUME NEW c \in Containers, NEW i \in Images \union {NoImage}, HostChange(c, i)
      PROVE  CacheInv'
  <2>1. host' \in Host
    BY <1>1, CacheAssumption DEF HostChange, Host, Versions
  <2>2. OneOf(host'.image) /\ (\A d \in Containers \ born' : host'.image[d] = NoImage)
    BY <1>1 DEF HostChange, Host, RowsInv, OneAlive, OneOf, Alive
  <2>3. RowsInv'
    BY <1>1, <2>2 DEF HostChange, RowsInv, GoodRows, SeenAreShown, SeenIsShown, OneAlive, OneOf, Present
  <2> QED
    BY <1>1, <2>1, <2>3 DEF HostChange, HandlersOK, HolderCollects
<1>2. ASSUME NEW r \in Requests, Run(r)
      PROVE  CacheInv'
  <2> DEFINE q == req[r]
             new == [q EXCEPT !.pc = "lock", !.version = host'.version]
             HostOK == /\ host' \in Host /\ born' \subseteq Containers /\ OneOf(host'.image)
                       /\ \A d \in Containers \ born' : host'.image[d] = NoImage
  <2>1. q \in Request /\ HandlerOK(q) /\ q.pc = "run" /\ q.c \in Containers /\ SeenIsShown(q)
    BY <1>2 DEF Run, HandlersOK, HandlerOK, RowsInv, SeenAreShown
  <2>2. HostOK
    <3>1. CASE host' = [host EXCEPT !.version = @ + 1] /\ UNCHANGED born
      <4>1. host.version < MaxVersion /\ host'.image = host.image /\ host' \in Host
        <5>1. host \in Host /\ host.version < MaxVersion
          BY <1>2 DEF Run
        <5> QED
          BY <3>1, <5>1, CacheAssumption DEF Host, Versions
      <4> QED
        BY <3>1, <4>1 DEF RowsInv, OneAlive, OneOf
    <3>2. ASSUME NEW d \in Containers \ born, NEW i \in Images,
                 host' = [image |-> [host.image EXCEPT ![q.c] = NoImage, ![d] = i],
                          version |-> host.version + 1],
                 born' = born \union {d}
          PROVE  HostOK
      <4>1. host.version < MaxVersion /\ host.image[q.c] # NoImage
        BY <1>2 DEF Run
      <4>2. \A e \in Containers : host'.image[e] = IF e = d THEN i ELSE NoImage
        BY <2>1, <3>2, <4>1 DEF Host, RowsInv, OneAlive, OneOf
      <4>3. host' \in Host
        BY <2>1, <3>2, <4>1, CacheAssumption DEF Host, Versions
      <4> QED
        BY <3>2, <4>2, <4>3 DEF OneOf
    <3> QED
      BY <1>2, <3>1, <3>2 DEF Run
  <2>3. UNCHANGED <<rows, stored, lock>> /\ (SetReq(r, new) \/ SetReq(r, NoRequest))
    BY <1>2 DEF Run
  <2>4. new \in Request /\ HandlerOK(new) /\ SeenIsShown(new) /\ new.pc = "lock"
    BY <2>1, <2>2 DEF Request, Host, HandlerOK, SeenIsShown
  <2> HIDE DEF new
  <2>5. req' \in [Requests -> Request] /\ HandlersOK' /\ HolderCollects'
    BY <2>1, <2>3, <2>4, HandlerMoves, Values DEF NoRequest
  <2>6. SeenAreShown'
    BY <2>3, <2>4, Values, NothingSeen DEF RowsInv, SeenAreShown, SeenIsShown, SetReq, Present, NoRequest
  <2>7. GoodRows' /\ OneAlive'
    BY <2>2, <2>3 DEF RowsInv, GoodRows, OneAlive, OneOf, Present
  <2> QED
    BY <2>2, <2>3, <2>5, <2>6, <2>7 DEF RowsInv
<1> QED
  BY <1>1, <1>2

-----------------------------------------------------------------------------
(* What is read, shown and written, in the first states.                   *)
LEMMA InitCache == Init => CacheInv
<1> SUFFICES ASSUME Init PROVE RowsInv
  BY InitType DEF CacheInv
<1> QED
  BY DEF Init, RowsInv, GoodRows, SeenAreShown, SeenIsShown, OneAlive, OneOf, Present, Free, Empty,
     NoRequest

(* Every step keeps the invariant.                                         *)
LEMMA NextCache == CacheInv /\ [Next]_vars => CacheInv'
<1> SUFFICES ASSUME CacheInv, [Next]_vars PROVE CacheInv'
  OBVIOUS
<1>1. CASE \/ \E c \in Containers, i \in Images \union {NoImage} : HostChange(c, i)
           \/ \E r \in Requests : Run(r)
  BY <1>1, HostSteps
<1>2. CASE PollCollects \/ Report \/ CollectFails \/ Restart
           \/ \E r \in Requests : Refresh(r) \/ CollectAfter(r)
  BY <1>2, LockSteps
<1>3. CASE StoreReport
  BY <1>3, StoreStep
<1>4. ASSUME NEW r \in Requests, NEW c \in Containers,
             Inspect(r, c) \/ StartAction(r, c) \/ StartUpdate(r, c)
      PROVE  CacheInv'
  BY <1>4, MoveSteps
<1>5. ASSUME NEW r \in Requests,
             \/ InspectLeft(r) \/ RunFails(r) \/ RunChangesNothing(r) \/ SkipCollect(r)
             \/ FinalLost(r) \/ Complete(r)
      PROVE  CacheInv'
  BY <1>5, MoveSteps
<1>6. ASSUME NEW r \in Requests, NEW v \in {"yes", "no"},
             InspectCached(r) \/ InspectFails(r) \/ InspectUnanswered(r) \/ InspectChecks(r, v)
      PROVE  CacheInv'
  BY <1>6, InspectSteps
<1>7. ASSUME NEW r \in Requests, Reset(r) \/ ResetLost(r) \/ Final(r)
      PROVE  CacheInv'
  BY <1>7, TableSteps
<1>8. CASE Age
  BY <1>8, TableSteps
<1>9. CASE UNCHANGED vars
  BY <1>9 DEF vars, CacheInv, TypeInv, TypeOK, HandlersOK, HolderCollects, RowsInv, GoodRows,
     SeenAreShown, SeenIsShown, OneAlive, OneOf, Present
<1> QED
  BY <1>1, <1>2, <1>3, <1>4, <1>5, <1>6, <1>7, <1>8, <1>9 DEF Next

-----------------------------------------------------------------------------
(* What a handler waits for, what is stored and what is to be stored are   *)
(* versions of the host.                                                   *)
LEMMA Numbers ==
    CacheInv => /\ stored \in Nat /\ host.version \in Nat /\ lock.report.version \in Nat
                /\ \A r \in Requests : req[r].version \in Nat
BY CacheAssumption DEF CacheInv, TypeInv, TypeOK, Host, Request, Versions

(* Nothing is stored: a handler goes on with its version, ends, or takes   *)
(* note of the version of the host and waits for the lock.                 *)
LEMMA NothingStored ==
    ASSUME CacheInv, VersionsInv, CacheInv',
           stored' = stored, host.version <= host'.version, lock' = lock \/ lock'.pc # "store",
           \A r \in Requests :
              \/ req'[r].version = 0
              \/ /\ req'[r].version = req[r].version
                 /\ req'[r].pc \in {"final", "complete"} /\ ~req'[r].bounced
                       => req[r].pc \in {"final", "complete"} /\ ~req[r].bounced
              \/ /\ req'[r].version <= host'.version
                 /\ req[r].pc # "collect" /\ req'[r].pc = "lock"
    PROVE  VersionsInv'
<1> DEFINE N == /\ stored \in Nat /\ host.version \in Nat /\ lock.report.version \in Nat
                /\ \A r \in Requests : req[r].version \in Nat
<1>1. N /\ N'
  BY Numbers, PTL
<1>2. ASSUME NEW r \in Requests
      PROVE  VersionOK(r)'
  <2>1. VersionOK(r) /\ (lock.pc = "store" /\ lock.by = r => req[r].pc = "collect")
    BY DEF VersionsInv, CacheInv, TypeInv, HolderCollects
  <2> QED
    BY <1>1, <2>1 DEF VersionOK
<1> QED
  BY <1>1, <1>2 DEF VersionsInv

(* The report holds the version of the host at its time; its transaction   *)
(* makes it the stored one, which the handler that collected waited for.   *)
LEMMA Reported ==
    ASSUME CacheInv, VersionsInv, CacheInv', Report \/ StoreReport
    PROVE  VersionsInv'
<1> USE DEF CacheInv, TypeInv, TypeOK
<1>1. stored \in Nat /\ host.version \in Nat /\ \A r \in Requests : req[r].version \in Nat
  BY Numbers
<1>2. CASE Report
  <2>1. lock'.pc = "store" /\ lock'.by = lock.by /\ lock'.report.version = host.version
        /\ UNCHANGED <<stored, host, req>>
    <3> DEFINE silent == [host EXCEPT !.image = Empty.image]
    <3>1. silent.version = host.version
      BY DEF Host
    <3>2. /\ \/ lock' = [lock EXCEPT !.pc = "store", !.report = host]
             \/ lock' = [lock EXCEPT !.pc = "store", !.report = silent]
          /\ UNCHANGED <<stored, host, req>>
      BY <1>2, Zenon DEF Report
    <3> HIDE DEF silent
    <3> QED
      BY <3>1, <3>2
  <2> QED
    BY <1>1, <2>1 DEF VersionsInv, VersionOK
<1>3. CASE StoreReport
  <2>1. /\ lock.pc = "store" /\ lock'.pc = "free" /\ stored' = lock.report.version
        /\ host' = host /\ lock.report.version \in Nat
    BY <1>3, Numbers DEF StoreReport, Free
  <2>2. ASSUME NEW r \in Requests
        PROVE  VersionOK(r)'
    <3>1. req'[r].version = req[r].version /\ req'[r].bounced = req[r].bounced
          /\ (r # lock.by => req'[r].pc = req[r].pc)
      <4> DEFINE b == req[r].late \/ Overtaken(req[r], rows')
                 caught == [req[r] EXCEPT !.late = b]
      <4>1. req'[r] = IF r = lock.by THEN Resume(caught) ELSE caught
        BY <1>3, Zenon DEF StoreReport
      <4> HIDE DEF b
      <4>2. /\ caught.version = req[r].version /\ caught.bounced = req[r].bounced
            /\ caught.pc = req[r].pc /\ Resume(caught).version = caught.version
            /\ Resume(caught).bounced = caught.bounced
        BY DEF Resume, Request
      <4> HIDE DEF caught
      <4> QED
        BY <4>1, <4>2
    <3> QED
      BY <1>1, <2>1, <3>1 DEF VersionsInv, VersionOK
  <2> QED
    BY <1>1, <2>1, <2>2 DEF VersionsInv
<1> QED
  BY <1>2, <1>3

-----------------------------------------------------------------------------
(* Versions, in the first states and in every step.                        *)
LEMMA InitVersions == Init => VersionsInv
BY CacheAssumption DEF Init, VersionsInv, VersionOK, Free, Empty, NoRequest

LEMMA NextVersions ==
    ASSUME CacheInv, VersionsInv, CacheInv', [Next]_vars
    PROVE  VersionsInv'
<1> DEFINE Zero(r) == req'[r].version = 0
           Same(r) == /\ req'[r].version = req[r].version
                      /\ req'[r].pc \in {"final", "complete"} /\ ~req'[r].bounced
                            => req[r].pc \in {"final", "complete"} /\ ~req[r].bounced
           Waits(r) == /\ req'[r].version <= host'.version
                       /\ req[r].pc # "collect" /\ req'[r].pc = "lock"
           Quiet == /\ stored' = stored /\ host.version <= host'.version
                    /\ lock' = lock \/ lock'.pc # "store"
                    /\ \A r \in Requests : Zero(r) \/ Same(r) \/ Waits(r)
<1> USE DEF CacheInv, TypeInv, TypeOK
<1>1. /\ host.version \in Nat /\ req \in [Requests -> Request] /\ host \in Host
      /\ NoRequest.version = 0
  BY Numbers DEF NoRequest
<1>2. CASE Report \/ StoreReport
  BY <1>2, Reported
<1>3. CASE \E c \in Containers, i \in Images \union {NoImage} : HostChange(c, i)
  <2>1. Quiet
    BY <1>1, <1>3 DEF HostChange
  <2> QED
    BY <2>1, NothingStored
<1>4. CASE Age \/ PollCollects \/ UNCHANGED vars
  <2>1. Quiet
    BY <1>1, <1>4 DEF Age, PollCollects, Take, vars
  <2> QED
    BY <2>1, NothingStored
<1>5. CASE CollectFails \/ Restart
  <2>1. Quiet
    BY <1>1, <1>5 DEF CollectFails, Restart, Free
  <2> QED
    BY <2>1, NothingStored
<1>6. ASSUME NEW r \in Requests, Run(r) \/ RunChangesNothing(r)
      PROVE  VersionsInv'
  <2>1. Quiet
    <3>1. stored' = stored /\ lock' = lock /\ req[r].pc = "run" /\ host.version <= host'.version
      BY <1>1, <1>6 DEF Run, RunChangesNothing, Host
    <3>2. \/ req' = [req EXCEPT ![r] = [req[r] EXCEPT !.pc = "lock", !.version = host'.version]]
          \/ req' = [req EXCEPT ![r] = NoRequest]
      BY <1>6 DEF Run, RunChangesNothing, SetReq
    <3>3. host'.version \in Nat
      BY Numbers, <1>1, <1>6 DEF Run, RunChangesNothing, Host
    <3>4. CASE req' = [req EXCEPT ![r] = NoRequest]
      BY <1>1, <3>1, <3>4
    <3>5. CASE req' = [req EXCEPT ![r] = [req[r] EXCEPT !.pc = "lock", !.version = host'.version]]
      <4> DEFINE new == [req[r] EXCEPT !.pc = "lock", !.version = host'.version]
      <4>1. new.pc = "lock" /\ new.version = host'.version
        BY <1>1 DEF Request
      <4> HIDE DEF new
      <4>2. \A s \in Requests : req'[s] = IF s = r THEN new ELSE req[s]
        BY <1>1, <3>5 DEF new
      <4> QED
        BY <3>1, <3>3, <4>1, <4>2
    <3> QED
      BY <3>2, <3>4, <3>5
  <2> QED
    BY <2>1, NothingStored
<1>7. ASSUME NEW r \in Requests, NEW new, SetReq(r, new), stored' = stored, host' = host,
             lock' = lock \/ lock'.pc # "store",
             \/ new.version = 0
             \/ /\ new.version = req[r].version
                /\ new.pc \in {"final", "complete"} /\ ~new.bounced
                      => req[r].pc \in {"final", "complete"} /\ ~req[r].bounced
      PROVE  VersionsInv'
  <2>1. Quiet
    BY <1>1, <1>7 DEF SetReq
  <2> QED
    BY <2>1, NothingStored
<1>8. ASSUME NEW r \in Requests, NEW c,
             Inspect(r, c) \/ StartAction(r, c) \/ StartUpdate(r, c) \/ Refresh(r)
      PROVE  VersionsInv'
  <2> DEFINE inspect == [NoRequest EXCEPT !.kind = "inspect", !.pc = "checking",
                                          !.c = c, !.seen = rows[c]]
             action == [NoRequest EXCEPT !.kind = "action", !.pc = "run", !.c = c]
             update == [NoRequest EXCEPT !.kind = "update", !.pc = "run", !.c = c,
                                         !.seen = Unchecked(rows[c].image)]
             refresh == [NoRequest EXCEPT !.kind = "refresh", !.pc = "collect"]
  <2>1. \A new \in {inspect, action, update, refresh} : new.version = 0
    BY DEF NoRequest
  <2>2. /\ \/ SetReq(r, inspect) \/ SetReq(r, action) \/ SetReq(r, update)
           \/ SetReq(r, refresh)
        /\ stored' = stored /\ host' = host /\ (lock' = lock \/ lock'.pc # "store")
    BY <1>8 DEF Inspect, StartAction, StartUpdate, Refresh, Take
  <2> HIDE DEF inspect, action, update, refresh
  <2> QED
    BY <1>7, <2>1, <2>2
<1>9. ASSUME NEW r \in Requests,
             \/ InspectCached(r) \/ InspectFails(r) \/ InspectUnanswered(r) \/ InspectLeft(r)
             \/ InspectChecks(r, "yes") \/ InspectChecks(r, "no") \/ RunFails(r) \/ Complete(r)
      PROVE  VersionsInv'
  <2>1. SetReq(r, NoRequest) /\ UNCHANGED <<stored, host, lock>>
    BY <1>9, Zenon DEF InspectCached, InspectFails, InspectUnanswered, InspectLeft, InspectChecks,
       RunFails, Complete
  <2> QED
    BY <1>1, <1>7, <2>1
<1>10. ASSUME NEW r \in Requests, CollectAfter(r) \/ SkipCollect(r) \/ FinalLost(r) \/ Final(r)
       PROVE  VersionsInv'
  <2>1. /\ stored' = stored /\ host' = host /\ (lock' = lock \/ lock'.pc # "store")
        /\ \/ SetReq(r, NoRequest)
           \/ SetReq(r, [req[r] EXCEPT !.pc = "collect"])
           \/ \E pc \in {"final", "complete"} :
                 SetReq(r, [req[r] EXCEPT !.bounced = TRUE, !.pc = pc])
           \/ req[r].pc = "final" /\ SetReq(r, [req[r] EXCEPT !.pc = "complete"])
    <3> DEFINE next == IF req[r].kind = "update" THEN "final" ELSE "complete"
    <3>1. next \in {"final", "complete"}
      OBVIOUS
    <3>2. CASE SkipCollect(r)
      <4>1. /\ SetReq(r, [req[r] EXCEPT !.bounced = TRUE, !.pc = next])
            /\ UNCHANGED <<stored, host, lock>>
        BY <3>2, Zenon DEF SkipCollect
      <4> HIDE DEF next
      <4> QED
        BY <3>1, <4>1
    <3>3. CASE FinalLost(r)
      BY <3>3, Zenon DEF FinalLost
    <3>4. CASE CollectAfter(r)
      BY <3>4 DEF CollectAfter, Take
    <3>5. CASE Final(r)
      BY <3>5, Zenon DEF Final
    <3> QED
      BY <1>10, <3>2, <3>3, <3>4, <3>5
  <2>2. CASE SetReq(r, NoRequest)
    BY <1>1, <1>7, <2>1, <2>2
  <2>3. CASE SetReq(r, [req[r] EXCEPT !.pc = "collect"])
    <3>1. /\ [req[r] EXCEPT !.pc = "collect"].version = req[r].version
          /\ [req[r] EXCEPT !.pc = "collect"].pc = "collect"
      BY <1>1 DEF Request
    <3> QED
      BY <1>7, <2>1, <2>3, <3>1
  <2>4. ASSUME NEW pc \in {"final", "complete"},
               SetReq(r, [req[r] EXCEPT !.bounced = TRUE, !.pc = pc])
        PROVE  VersionsInv'
    <3> DEFINE new == [req[r] EXCEPT !.bounced = TRUE, !.pc = pc]
    <3>1. new.version = req[r].version /\ new.bounced = TRUE
      BY <1>1 DEF Request
    <3> HIDE DEF new
    <3> QED
      BY <1>7, <2>1, <2>4, <3>1 DEF new
  <2>5. CASE req[r].pc = "final" /\ SetReq(r, [req[r] EXCEPT !.pc = "complete"])
    <3> DEFINE new == [req[r] EXCEPT !.pc = "complete"]
    <3>1. new.version = req[r].version /\ new.bounced = req[r].bounced
      BY <1>1 DEF Request
    <3> HIDE DEF new
    <3> QED
      BY <1>7, <2>1, <2>5, <3>1 DEF new
  <2> QED
    BY <2>1, <2>2, <2>3, <2>4, <2>5
<1>11. ASSUME NEW r \in Requests, Reset(r) \/ ResetLost(r)
       PROVE  VersionsInv'
  <2>1. stored' = stored /\ host' = host /\ lock' = lock
    BY <1>11 DEF Reset, ResetLost, Refreshed
  <2>2. ASSUME NEW s \in Requests
        PROVE  Zero(s) \/ Same(s)
    <3> DEFINE b == IF req[s].kind \in {"inspect", "update"} THEN "excused" ELSE req[s].basis
    <3>1. req'[s] = NoRequest \/ req'[s] = [req[s] EXCEPT !.basis = b]
      BY <1>11 DEF Reset, ResetLost, Refreshed
    <3> HIDE DEF b
    <3> QED
      BY <1>1, <3>1 DEF Request
  <2>3. Quiet
    BY <1>1, <2>1, <2>2
  <2> QED
    BY <2>3, NothingStored
<1> QED
  <2>1. ASSUME NEW r \in Requests, NEW v \in {"yes", "no"}, InspectChecks(r, v)
        PROVE  VersionsInv'
    BY <1>9, <2>1
  <2>2. ASSUME NEW r \in Requests, Refresh(r)
        PROVE  VersionsInv'
    BY <1>8, <2>2
  <2>3. ASSUME NEW r \in Requests, NEW c \in Containers,
               Inspect(r, c) \/ StartAction(r, c) \/ StartUpdate(r, c)
        PROVE  VersionsInv'
    BY <1>8, <2>3
  <2> HIDE DEF CacheInv, TypeInv, TypeOK
  <2> QED
    BY <1>2, <1>3, <1>4, <1>5, <1>6, <1>9, <1>10, <1>11, <2>1, <2>2, <2>3 DEF Next

-----------------------------------------------------------------------------
(* Both invariants hold in every reachable state.                          *)
LEMMA Invariant == Spec => [](CacheInv /\ VersionsInv)
<1>1. Init => CacheInv /\ VersionsInv
  BY InitCache, InitVersions
<1>2. CacheInv /\ VersionsInv /\ [Next]_vars => (CacheInv /\ VersionsInv)'
  BY NextCache, NextVersions
<1> QED
  BY <1>1, <1>2, PTL DEF Spec

(* Every variable keeps its type.                                          *)
THEOREM TypeCorrect == Spec => []TypeOK
<1>1. CacheInv => TypeOK
  BY DEF CacheInv, TypeInv
<1> QED
  BY <1>1, Invariant, PTL

(* A verdict, and a version label, is about the image its row shows,       *)
(* unless its handler was overtaken by a collect: the upsert of collect    *)
(* and the keyed UPDATEs of inspectContainer and updateComposeContainer    *)
(* agree.                                                                  *)
THEOREM VerdictsAreOwn == Spec => []VerdictIsOwn
<1>1. CacheInv => VerdictIsOwn
  BY DEF CacheInv, RowsInv, GoodRows, GoodRow, OwnRow, VerdictIsOwn, Rows
<1> QED
  BY <1>1, Invariant, PTL

(* Of the verdicts from before a refresh that was answered with 200, each  *)
(* one that is shown as recent comes from a check under way at its end, or *)
(* from a row for which the registry was silent, or is left over from a    *)
(* reset whose error the refresh ignored, up to the next refresh.          *)
THEOREM RefreshesForce == Spec => []RefreshIsForcing
<1>1. CacheInv => RefreshIsForcing
  BY DEF CacheInv, RowsInv, GoodRows, GoodRow, ForcedRow, Row, RefreshIsForcing, Rows
<1> QED
  BY <1>1, Invariant, PTL

(* An action or an update reported as done, that found no collect in       *)
(* progress, has been followed by a report of the host as it left it.      *)
THEOREM DoneIsReported == Spec => []DoneIsShown
<1>1. CacheInv /\ VersionsInv => DoneIsShown
  BY Numbers DEF VersionsInv, VersionOK, DoneIsShown
<1> QED
  BY <1>1, Invariant, PTL

=============================================================================
