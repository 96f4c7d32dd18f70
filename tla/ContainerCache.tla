--------------------------- MODULE ContainerCache ---------------------------
(***************************************************************************)
(* The rows of table containers of one machine, for the successive         *)
(* containers of one Compose service, and everything that writes them      *)
(* (internal/app/app.go): collects, inspectContainer with its cached       *)
(* registry check, the forced checks of refreshAgent, and the container    *)
(* actions, one of which updates the service.                              *)
(*                                                                         *)
(* A handler reads its row, talks to the host and the registry for         *)
(* seconds or minutes, and then writes by key: whatever happened to the    *)
(* row in the meantime is overwritten.                                     *)
(***************************************************************************)
EXTENDS Integers

CONSTANTS
    Containers,   \* Docker ids; an id is never used again
    Images,       \* image references, as docker ps prints them
    Semantic,     \* the images whose tag is a semantic version
    Requests,     \* bound: handlers at work at the same time
    MaxVersion,   \* bound: changes of the host
    Poll,         \* the holder of the lock when Poll collects
    NoRow, NoImage

ASSUME CacheAssumption ==
    /\ Semantic \subseteq Images
    /\ MaxVersion \in Nat
    /\ Poll \notin Requests
    /\ NoImage \notin Images

(* update_available with the image it tells about, version_checked, and    *)
(* whether image_checked_at is set and less than 24 hours ago; and, as     *)
(* history, what the verdict, if there is one, rests on:                   *)
(*   check    a check that began after the last refresh                    *)
(*   excused  a check that was under way when a refresh ended, or none:    *)
(*            the registry was silent, the old verdict was kept            *)
(*   spared   a check from before the last refresh, whose reset failed     *)
(*   stale    a check from before the last refresh, whose reset was done   *)
(* A refresh is one that was answered with 200, whatever became of its     *)
(* reset.                                                                  *)
(* late: written by a handler that had read another image.                 *)
Row == [image : Images, label : Images,
        update : {"null", "no", "yes"}, about : Images \union {NoImage},
        verified : BOOLEAN, recent : BOOLEAN,
        basis : {"check", "excused", "spared", "stale"}, late : BOOLEAN]

Versions == 0..MaxVersion

ASSUME NoRowAssumption == NoRow \notin Row

(* The present containers with their images, and the count of changes.     *)
Host == [image : [Containers -> Images \union {NoImage}], version : Versions]

(* A handler: what it does, how far it is, the row it read, and history.   *)
Request == [kind : {"none", "inspect", "refresh", "action", "update"},
            pc : {"idle", "checking", "run", "lock", "collect", "reset", "final", "complete"},
            c : Containers \union {NoRow}, seen : Row \union {NoRow}, basis : {"check", "excused"},
            late : BOOLEAN, version : Versions, bounced : BOOLEAN]

VARIABLES
    rows,    \* table containers of the machine
    stored,  \* history: the version of the last stored report
    host,    \* the machine
    born,    \* the Docker ids used so far
    lock,    \* App.active of the machine: holder, phase and report of a collect
    req      \* the handlers

vars == <<rows, stored, host, born, lock, req>>

Empty == [image |-> [c \in Containers |-> NoImage], version |-> 0]

Free == [by |-> Poll, pc |-> "free", report |-> Empty]

NoRequest == [kind |-> "none", pc |-> "idle", c |-> NoRow, seen |-> NoRow,
              basis |-> "check", late |-> FALSE, version |-> 0, bounced |-> FALSE]

Present(c) == rows[c] # NoRow

Rows == {c \in Containers : Present(c)}

(* available_version is set exactly for a newer semantic version.          *)
Pinned(row) == row.update = "yes" /\ row.about \in Semantic

(* Mutant: the insert leaves image_version empty.                          *)
UncheckedUnlabelled(image) == [image |-> image, label |-> NoImage, update |-> "null",
                               about |-> NoImage, verified |-> FALSE, recent |-> FALSE,
                               basis |-> "stale", late |-> FALSE]

(* A row that a collect inserts, or whose image it finds changed.          *)
Unchecked(image) == [image |-> image, label |-> image, update |-> "null",
                     about |-> NoImage, verified |-> FALSE, recent |-> FALSE,
                     basis |-> "stale", late |-> FALSE]

(* checkRegistry, from the row as it was read.                             *)
NeedsCheck(row) ==
    \/ ~row.recent
    \/ row.image \in Semantic /\ ~row.verified

Alive == {c \in Containers : host.image[c] # NoImage}

SetReq(r, new) == req' = [req EXCEPT ![r] = new]

-----------------------------------------------------------------------------
Init ==
    /\ rows = [c \in Containers |-> NoRow]
    /\ stored = 0
    /\ host = Empty
    /\ born = {}
    /\ lock = Free
    /\ req = [r \in Requests |-> NoRequest]

(* Outside secontrol: the service starts, its container is removed, or its *)
(* tag is pulled anew so that docker ps names the image differently.       *)
HostChange(c, i) ==
    /\ host.version < MaxVersion
    /\ host.image[c] # i
    /\ IF c \in born THEN host.image[c] # NoImage ELSE Alive = {}
    /\ host' = [image |-> [host.image EXCEPT ![c] = i], version |-> host.version + 1]
    /\ born' = born \union {c}
    /\ UNCHANGED <<rows, stored, lock, req>>

(* 24 hours pass; no handler lasts that long.                              *)
Age ==
    /\ \A r \in Requests : req[r].kind = "none"
    /\ rows' = [c \in Containers |->
                  IF Present(c) THEN [rows[c] EXCEPT !.recent = FALSE] ELSE NoRow]
    /\ rows' # rows
    /\ UNCHANGED <<stored, host, born, lock, req>>

-----------------------------------------------------------------------------
(* collect, here for one machine: the lock, the report, the transaction.   *)

Take(holder) ==
    /\ lock.pc = "free"
    /\ lock' = [by |-> holder, pc |-> "ssh", report |-> Empty]

PollCollects ==
    /\ Take(Poll)
    /\ UNCHANGED <<rows, stored, host, born, req>>

(* docker ps answers with the present containers; when Docker does not     *)
(* answer, "|| true" leaves an empty section.                              *)
Report ==
    /\ lock.pc = "ssh"
    /\ \/ lock' = [lock EXCEPT !.pc = "store", !.report = host]
       \/ lock' = [lock EXCEPT !.pc = "store",
                       !.report = [host EXCEPT !.image = Empty.image]]
    /\ UNCHANGED <<rows, stored, host, born, req>>

(* Mutant: the upsert overwrites the image and keeps the cache columns.    *)
UpsertKeepsCache(row, image) ==
    IF row # NoRow THEN [row EXCEPT !.image = image] ELSE Unchecked(image)

(* The upsert of a container: the cache columns survive as long as the     *)
(* image is the same.                                                      *)
Upsert(row, image) == IF row # NoRow /\ row.image = image THEN row ELSE Unchecked(image)

(* A handler is late when the row it is going to write shows another image *)
(* than the one it read.                                                   *)
Overtaken(q, new) ==
    CASE q.kind = "inspect" -> new[q.c] # NoRow /\ new[q.c].image # q.seen.image
      [] q.kind = "update"  -> \E c \in Containers :
                                  new[c] # NoRow /\ new[c].image # q.seen.image
      [] OTHER -> FALSE

(* The handler that collected goes on.                                     *)
Resume(q) == [q EXCEPT !.pc = CASE q.kind = "refresh" -> "reset"
                                [] q.kind = "update"  -> "final"
                                [] OTHER -> "complete"]

(* The transaction: upserts, then the rows of absent containers go; with   *)
(* it the deferred unlock.                                                 *)
StoreReport ==
    /\ lock.pc = "store"
    /\ LET now == lock.report.image
           new == [c \in Containers |->
                     IF now[c] = NoImage THEN NoRow ELSE Upsert(rows[c], now[c])]
           Caught(q) == [q EXCEPT !.late = @ \/ Overtaken(q, new)]
       IN  /\ rows' = new
           /\ req' = [r \in Requests |-> IF r = lock.by THEN Resume(Caught(req[r]))
                                                         ELSE Caught(req[r])]
    /\ stored' = lock.report.version
    /\ lock' = Free
    /\ UNCHANGED <<host, born>>

(* Mutant: the error of the refresh after a container action is dropped.   *)
CollectFailsSilently ==
    /\ lock.pc \in {"ssh", "store"}
    /\ lock' = Free
    /\ req' = [r \in Requests |->
                 IF r = lock.by THEN [req[r] EXCEPT !.pc = "complete"] ELSE req[r]]
    /\ UNCHANGED <<rows, stored, host, born>>

(* SSH or the transaction fails: nothing is stored, the handler reports    *)
(* the error.                                                              *)
CollectFails ==
    /\ lock.pc \in {"ssh", "store"}
    /\ lock' = Free
    /\ req' = [r \in Requests |-> IF r = lock.by THEN NoRequest ELSE req[r]]
    /\ UNCHANGED <<rows, stored, host, born>>

-----------------------------------------------------------------------------
(* refreshAgent: collect, then ask for new checks of every container.      *)

Refresh(r) ==
    /\ req[r].kind = "none"
    /\ Take(r)
    /\ SetReq(r, [NoRequest EXCEPT !.kind = "refresh", !.pc = "collect"])
    /\ UNCHANGED <<rows, stored, host, born>>

(* The answer 200: whatever check is under way, its handler read its row   *)
(* before it.                                                              *)
Refreshed(r) ==
    req' = [q \in Requests |->
              IF q = r THEN NoRequest
              ELSE [req[q] EXCEPT !.basis = IF req[q].kind \in {"inspect", "update"}
                                            THEN "excused" ELSE @]]

(* Mutant: the refresh forgets image_checked_at.                           *)
ResetNothing(r) ==
    /\ req[r].pc = "reset"
    /\ rows' = [c \in Containers |->
                  IF Present(c) THEN [rows[c] EXCEPT !.basis = "stale"] ELSE NoRow]
    /\ Refreshed(r)
    /\ UNCHANGED <<stored, host, born, lock>>

(* UPDATE containers SET image_checked_at=NULL                             *)
Reset(r) ==
    /\ req[r].pc = "reset"
    /\ rows' = [c \in Containers |->
                  IF Present(c)
                  THEN [rows[c] EXCEPT !.recent = FALSE, !.basis = "stale"]
                  ELSE NoRow]
    /\ Refreshed(r)
    /\ UNCHANGED <<stored, host, born, lock>>

(* That UPDATE fails, or its context has expired: the error is ignored and *)
(* the answer is 200 all the same.  The columns stay as they were.         *)
ResetLost(r) ==
    /\ req[r].pc = "reset"
    /\ rows' = [c \in Containers |->
                  IF Present(c)
                  THEN [rows[c] EXCEPT !.basis = IF rows[c].recent THEN "spared" ELSE "stale"]
                  ELSE NoRow]
    /\ Refreshed(r)
    /\ UNCHANGED <<stored, host, born, lock>>

-----------------------------------------------------------------------------
(* inspectContainer: read the row, ask the host and perhaps the registry,  *)
(* write the row that has the key by then.                                 *)

Inspect(r, c) ==
    /\ req[r].kind = "none"
    /\ Present(c)
    /\ SetReq(r, [NoRequest EXCEPT !.kind = "inspect", !.pc = "checking",
                                   !.c = c, !.seen = rows[c]])
    /\ UNCHANGED <<rows, stored, host, born, lock>>

(* UPDATE ... WHERE agent_id=? AND id=?, or no row when the container went.*)
Write(c, new) == rows' = IF Present(c) THEN [rows EXCEPT ![c] = new] ELSE rows

(* The row was checked less than a day ago: only the label is written.     *)
InspectCached(r) ==
    LET q == req[r] IN
    /\ q.pc = "checking"
    /\ ~NeedsCheck(q.seen)
    /\ Write(q.c, [rows[q.c] EXCEPT !.label = q.seen.image, !.late = @ \/ q.late])
    /\ SetReq(r, NoRequest)
    /\ UNCHANGED <<stored, host, born, lock>>

(* SSH fails: the failure itself is cached, and counts as a check of a     *)
(* semantic version.                                                       *)
InspectFails(r) ==
    LET q == req[r] IN
    /\ q.pc = "checking"
    /\ IF NeedsCheck(q.seen)
       THEN Write(q.c, [rows[q.c] EXCEPT !.update = "null", !.about = NoImage,
                          !.verified = q.seen.image \in Semantic, !.recent = TRUE,
                          !.basis = "stale"])
       ELSE UNCHANGED rows
    /\ SetReq(r, NoRequest)
    /\ UNCHANGED <<stored, host, born, lock>>

(* The registry answers for the image that was read.                       *)
InspectChecks(r, verdict) ==
    LET q == req[r] IN
    /\ q.pc = "checking"
    /\ NeedsCheck(q.seen)
    /\ Write(q.c, [rows[q.c] EXCEPT
                     !.label = q.seen.image, !.update = verdict, !.about = q.seen.image,
                     !.verified = IF q.seen.image \in Semantic THEN TRUE ELSE q.seen.verified,
                     !.recent = TRUE, !.basis = q.basis, !.late = q.late])
    /\ SetReq(r, NoRequest)
    /\ UNCHANGED <<stored, host, born, lock>>

(* The registry does not answer.  For a semantic version the verdict is    *)
(* withdrawn; for any other image the verdict that was read is written     *)
(* back, with a new image_checked_at.                                      *)
InspectUnanswered(r) ==
    LET q == req[r]
        kept == IF q.seen.basis = "check" /\ q.basis = "check" THEN "check" ELSE "excused"
    IN
    /\ q.pc = "checking"
    /\ NeedsCheck(q.seen)
    /\ Write(q.c, IF q.seen.image \in Semantic
                  THEN [rows[q.c] EXCEPT
                          !.label = q.seen.image, !.update = "null", !.about = NoImage,
                          !.verified = FALSE, !.recent = TRUE, !.basis = "stale",
                          !.late = q.late]
                  ELSE [rows[q.c] EXCEPT
                          !.label = q.seen.image, !.update = q.seen.update,
                          !.about = q.seen.about, !.verified = q.seen.verified,
                          !.recent = TRUE, !.basis = kept,
                          !.late = q.late \/ q.seen.late])
    /\ SetReq(r, NoRequest)
    /\ UNCHANGED <<stored, host, born, lock>>

(* The client leaves: r.Context() is done and nothing is written.          *)
InspectLeft(r) ==
    /\ req[r].pc = "checking"
    /\ SetReq(r, NoRequest)
    /\ UNCHANGED <<rows, stored, host, born, lock>>

-----------------------------------------------------------------------------
(* containerAction and updateComposeContainer.                             *)

StartAction(r, c) ==
    /\ req[r].kind = "none"
    /\ Present(c)
    /\ SetReq(r, [NoRequest EXCEPT !.kind = "action", !.pc = "run", !.c = c])
    /\ UNCHANGED <<rows, stored, host, born, lock>>

(* 409 for a pinned image.  Of the row that was read only the image is     *)
(* written again.                                                          *)
StartUpdate(r, c) ==
    /\ req[r].kind = "none"
    /\ Present(c)
    /\ ~Pinned(rows[c])
    /\ SetReq(r, [NoRequest EXCEPT !.kind = "update", !.pc = "run", !.c = c,
                                   !.seen = Unchecked(rows[c].image)])
    /\ UNCHANGED <<rows, stored, host, born, lock>>

(* docker start, stop or restart changes the container; docker compose up  *)
(* recreates it, perhaps with the image a newer Compose file names.  The   *)
(* command may still be reported as failed, when its context expires.      *)
Run(r) ==
    LET q == req[r] IN
    /\ q.pc = "run"
    /\ host.version < MaxVersion
    /\ host.image[q.c] # NoImage
    /\ \/ /\ q.kind = "action"
          /\ host' = [host EXCEPT !.version = @ + 1]
          /\ UNCHANGED born
       \/ /\ q.kind = "update"
          /\ \E d \in Containers \ born, i \in Images :
                /\ host' = [image |-> [host.image EXCEPT ![q.c] = NoImage, ![d] = i],
                            version |-> host.version + 1]
                /\ born' = born \union {d}
    /\ \/ SetReq(r, [q EXCEPT !.pc = "lock", !.version = host'.version])
       \/ SetReq(r, NoRequest)
    /\ UNCHANGED <<rows, stored, lock>>

(* The image is up to date and docker compose up changes nothing.          *)
RunChangesNothing(r) ==
    /\ req[r].pc = "run"
    /\ req[r].kind = "update"
    /\ host.image[req[r].c] # NoImage
    /\ SetReq(r, [req[r] EXCEPT !.pc = "lock", !.version = host.version])
    /\ UNCHANGED <<rows, stored, host, born, lock>>

(* The command fails, for one when the container is gone.                  *)
RunFails(r) ==
    /\ req[r].pc = "run"
    /\ SetReq(r, NoRequest)
    /\ UNCHANGED <<rows, stored, host, born, lock>>

CollectAfter(r) ==
    /\ req[r].pc = "lock"
    /\ Take(r)
    /\ SetReq(r, [req[r] EXCEPT !.pc = "collect"])
    /\ UNCHANGED <<rows, stored, host, born>>

(* "already in progress" is not an error of the action.                    *)
SkipCollect(r) ==
    /\ req[r].pc = "lock"
    /\ lock.pc # "free"
    /\ SetReq(r, [req[r] EXCEPT !.bounced = TRUE,
                                !.pc = IF req[r].kind = "update" THEN "final"
                                                                 ELSE "complete"])
    /\ UNCHANGED <<rows, stored, host, born, lock>>

(* The last UPDATE of an update, by name: every row of the service.        *)
Final(r) ==
    LET q == req[r] IN
    /\ q.pc = "final"
    /\ rows' = [c \in Containers |->
                  IF Present(c)
                  THEN [rows[c] EXCEPT
                          !.label = q.seen.image, !.update = "no", !.about = q.seen.image,
                          !.verified = FALSE, !.recent = TRUE, !.basis = q.basis,
                          !.late = q.late]
                  ELSE NoRow]
    /\ SetReq(r, [q EXCEPT !.pc = "complete"])
    /\ UNCHANGED <<stored, host, born, lock>>

(* The last UPDATE of an update fails, or its context has expired: the     *)
(* error is ignored.                                                       *)
FinalLost(r) ==
    /\ req[r].pc = "final"
    /\ SetReq(r, [req[r] EXCEPT !.pc = "complete"])
    /\ UNCHANGED <<rows, stored, host, born, lock>>

(* The answer, or the event "complete" of the stream.                      *)
Complete(r) ==
    /\ req[r].pc = "complete"
    /\ SetReq(r, NoRequest)
    /\ UNCHANGED <<rows, stored, host, born, lock>>

(* The server restarts: handlers and the lock are gone, the rows stay.     *)
Restart ==
    /\ lock' = Free
    /\ req' = [r \in Requests |-> NoRequest]
    /\ UNCHANGED <<rows, stored, host, born>>

-----------------------------------------------------------------------------
Next ==
    \/ \E c \in Containers, i \in Images \union {NoImage} : HostChange(c, i)
    \/ Age
    \/ PollCollects \/ Report \/ StoreReport \/ CollectFails
    \/ \E r \in Requests : Refresh(r) \/ Reset(r) \/ ResetLost(r)
    \/ \E r \in Requests, c \in Containers :
          Inspect(r, c) \/ StartAction(r, c) \/ StartUpdate(r, c)
    \/ \E r \in Requests : InspectCached(r) \/ InspectFails(r) \/ InspectUnanswered(r)
                           \/ InspectLeft(r)
    \/ \E r \in Requests, v \in {"yes", "no"} : InspectChecks(r, v)
    \/ \E r \in Requests : Run(r) \/ RunChangesNothing(r) \/ RunFails(r)
                           \/ CollectAfter(r) \/ SkipCollect(r)
                           \/ Final(r) \/ FinalLost(r) \/ Complete(r)
    \/ Restart

Spec == Init /\ [][Next]_vars

-----------------------------------------------------------------------------
(* Every variable keeps its type.                                          *)
TypeOK ==
    /\ rows \in [Containers -> Row \union {NoRow}]
    /\ stored \in Versions
    /\ host \in Host
    /\ born \subseteq Containers
    /\ lock \in [by : Requests \union {Poll}, pc : {"free", "ssh", "store"},
                 report : Host]
    /\ req \in [Requests -> Request]

(* A verdict is about the image its row shows, and so is the version       *)
(* label, unless a collect changed the image under the handler that wrote  *)
(* them: the upsert's CASEs and the keyed UPDATEs agree.                   *)
VerdictIsOwn ==
    \A c \in Rows : ~rows[c].late =>
        /\ rows[c].update # "null" => rows[c].about = rows[c].image
        /\ rows[c].label = rows[c].image

(* After a refresh that was answered with 200 (refreshAgent) a verdict     *)
(* from before it is shown as recent only if a check was under way at its  *)
(* end, or the registry was silent since, or its own reset failed, an      *)
(* error it ignores; what one refresh spares, the next one does not.       *)
RefreshIsForcing ==
    \A c \in Rows : rows[c].recent /\ rows[c].update # "null"
                        => rows[c].basis \in {"check", "excused", "spared"}

(* An action or an update that is reported as done, and that did not find  *)
(* a collect in progress, has been followed by a report of the host.       *)
DoneIsShown ==
    \A r \in Requests : req[r].pc = "complete" /\ ~req[r].bounced
                            => stored >= req[r].version

(* "forced checks on refresh" (README.md:30): a verdict shown as recent    *)
(* rests on a check that began after the last refresh.                     *)
RefreshForcesChecks ==
    \A c \in Rows : rows[c].recent /\ rows[c].update # "null"
                        => rows[c].basis = "check"

(* "recreate that service with its existing configuration, then refresh    *)
(* container inventory" (app.js:95): when an action or an update is        *)
(* reported as done, the inventory has been refreshed after it.            *)
InventoryIsRefreshed ==
    \A r \in Requests : req[r].pc = "complete" => stored >= req[r].version

=============================================================================
