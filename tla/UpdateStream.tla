---------------------------- MODULE UpdateStream ----------------------------
(***************************************************************************)
(* The answer to "update this container", which is streamed while the      *)
(* update runs: updateComposeContainer with its emit (internal/app/app.go),*)
(* the session that it waits for and the goroutines that copy its output   *)
(* (ssh.go), and the console of the page that reads it (assets/app.js).    *)
(***************************************************************************)
EXTENDS Integers, SequencesExt

CONSTANTS
    Copiers,     \* the goroutines of the SSH library: standard output, standard error
    MaxOutput    \* bound: pieces of output

ASSUME OutputAssumption == MaxOutput \in Nat

VARIABLES
    handler,  \* what the handler does
    copiers,  \* the goroutines that still copy
    stream,   \* the events sent
    expired,  \* the context of the request has ended, or its connection has
    console,  \* of the page: what it shows, and how many events it has read
    late      \* history: events sent by a copier after the handler returned

streamVars == <<handler, copiers, stream, expired, console, late>>

StreamInit ==
    /\ handler = "none" /\ copiers = {} /\ stream = <<>> /\ expired = FALSE
    /\ console = [shows |-> "nothing", read |-> 0, complete |-> FALSE]
    /\ late = 0

Emit(event) == stream' = Append(stream, event)

(* The request, up to the start of the command.                            *)
StartStream ==
    /\ handler = "none"
    /\ handler' = "session"
    /\ copiers' = Copiers
    /\ stream' = <<"command", "status">>
    /\ expired' = FALSE
    /\ console' = [shows |-> "running", read |-> 0, complete |-> FALSE]
    /\ late' = 0

(* The 404s and 409s, and a failed inspect: no stream.                     *)
RefuseUpdate ==
    /\ handler = "none"
    /\ console' = [shows |-> "failed", read |-> 0, complete |-> FALSE]
    /\ UNCHANGED <<handler, copiers, stream, expired, late>>

(* A piece of output, whatever the handler does by now.                    *)
Copy(c) ==
    /\ c \in copiers
    /\ Len(SelectSeq(stream, LAMBDA e : e = "output")) + late < MaxOutput
    /\ IF handler = "returned" THEN late' = late + 1 /\ UNCHANGED stream
       ELSE Emit("output") /\ UNCHANGED late
    /\ UNCHANGED <<handler, copiers, expired, console>>

CopyEnds(c) ==
    /\ c \in copiers
    /\ copiers' = copiers \ {c}
    /\ UNCHANGED <<handler, stream, expired, console, late>>

(* Mutant: the exit status is taken without waiting for the output.        *)
CommandExits ==
    /\ handler = "session"
    /\ \/ handler' = "collect" /\ Emit("status")
       \/ handler' = "returned" /\ Emit("error")
    /\ UNCHANGED <<copiers, expired, console, late>>

(* session.Wait returns when the command has exited and all is copied.     *)
CommandEnds ==
    /\ handler = "session" /\ copiers = {}
    /\ \/ handler' = "collect" /\ Emit("status")
       \/ handler' = "returned" /\ Emit("error")
    /\ UNCHANGED <<copiers, expired, console, late>>

(* The ten minutes are over, or the client has left.                       *)
Expire ==
    /\ handler \in {"session", "collect", "final"}
    /\ ~expired
    /\ expired' = TRUE
    /\ UNCHANGED <<handler, copiers, stream, console, late>>

(* ctx.Done(): the session is closed, nobody waits for the copiers.        *)
Abandon ==
    /\ handler = "session" /\ expired
    /\ handler' = "abandoned"
    /\ Emit("error")
    /\ UNCHANGED <<copiers, expired, console, late>>

Return ==
    /\ handler = "abandoned"
    /\ handler' = "returned"
    /\ UNCHANGED <<copiers, stream, expired, console, late>>

(* Mutant: a failed refresh of the inventory is reported as well as success. *)
CollectedAnyway ==
    /\ handler = "collect"
    /\ \/ handler' = "final" /\ UNCHANGED stream
       \/ handler' = "final" /\ Emit("error")
    /\ UNCHANGED <<copiers, expired, console, late>>

(* The collect of the handler ends, finds another one, or fails.           *)
Collected ==
    /\ handler = "collect"
    /\ \/ handler' = "final" /\ UNCHANGED stream
       \/ handler' = "returned" /\ Emit("error")
    /\ UNCHANGED <<copiers, expired, console, late>>

(* The last UPDATE, whose error is ignored.                                *)
Succeed ==
    /\ handler = "final"
    /\ handler' = "returned"
    /\ Emit("complete")
    /\ UNCHANGED <<copiers, expired, console, late>>

-----------------------------------------------------------------------------
(* The console: an error event ends it, and so does a broken connection,   *)
(* which also ends the context of the request.                             *)

Read ==
    /\ console.shows = "running" /\ console.read < Len(stream)
    /\ LET event == stream[console.read + 1]
       IN  console' = [console EXCEPT !.read = @ + 1,
                                      !.complete = @ \/ event = "complete",
                                      !.shows = IF event = "error" THEN "failed" ELSE @]
    /\ UNCHANGED <<handler, copiers, stream, expired, late>>

StreamEnds ==
    /\ console.shows = "running" /\ handler = "returned" /\ console.read = Len(stream)
    /\ console' = [console EXCEPT !.shows = IF console.complete THEN "complete" ELSE "failed"]
    /\ UNCHANGED <<handler, copiers, stream, expired, late>>

Disconnect ==
    /\ console.shows = "running"
    /\ console' = [console EXCEPT !.shows = "failed"]
    /\ expired' = TRUE
    /\ UNCHANGED <<handler, copiers, stream, late>>

(* Both ends are done with it.                                             *)
EndStream ==
    /\ handler = "returned" /\ copiers = {} /\ console.shows # "running"
    /\ handler' = "none"
    /\ UNCHANGED <<copiers, stream, expired, console, late>>

(* The process ends.                                                       *)
CutStream ==
    /\ handler' = "none" /\ copiers' = {}
    /\ console' = [console EXCEPT !.shows = IF @ = "running" THEN "failed" ELSE @]
    /\ UNCHANGED <<stream, expired, late>>

StreamNext ==
    \/ StartStream
    \/ RefuseUpdate
    \/ \E c \in Copiers : Copy(c) \/ CopyEnds(c)
    \/ CommandEnds
    \/ Expire
    \/ Abandon
    \/ Return
    \/ Collected
    \/ Succeed
    \/ Read
    \/ StreamEnds
    \/ Disconnect
    \/ EndStream
    \/ CutStream

StreamSpec == StreamInit /\ [][StreamNext]_streamVars

-----------------------------------------------------------------------------
(* session.Wait covers the copiers: an event is sent after the handler has *)
(* returned only if its context ended (ssh.go 77: the response is written  *)
(* to when it is finished).                                                *)
QuietAfterReturn == late > 0 => expired

(* "Container updated successfully." is the last word: the command has     *)
(* ended well, all its output came before, no error did, and nothing will  *)
(* follow. The console says Complete after exactly that, however the       *)
(* stream was cut.                                                         *)
CompleteIsLast ==
    /\ console.shows = "complete" => "complete" \in ToSet(stream)
    /\ "complete" \in ToSet(stream) =>
          /\ Last(stream) = "complete"
          /\ "error" \notin ToSet(stream)
          /\ copiers = {} /\ late = 0

=============================================================================
