---------------------------- MODULE PartsProofs ----------------------------
(***************************************************************************)
(* Proofs about the parts that a request changes: the master key and the   *)
(* sealed credentials (MasterKey), for any number of rows, settings and    *)
(* keys; the tables of a report (Inventory), for any number of reports;    *)
(* and the stream of an update (UpdateStream), for any number of copiers   *)
(* and any output.                                                         *)
(***************************************************************************)
EXTENDS MasterKey, Inventory, UpdateStream, SequenceTheorems, TLAPS

(* A process runs on what APP_MASTER_KEY says, or on a generated key that  *)
(* is in master.key, unless the file was damaged below it.                 *)
RunsOnItsSetting ==
    master # Down =>
      \/ master = env /\ env \in EnvKeys
      \/ /\ env = Unset /\ master \in Generated
         /\ file = master \/ (master \in hit /\ file \notin Generated)

(* A generated key is in master.key as long as a credential needs it.      *)
SealedIsKept ==
    \A r \in Rows : sealed[r] \in Generated /\ sealed[r] \notin hit => file = sealed[r]

KeyInv == KeyType /\ RunsOnItsSetting /\ SealedIsKept

-----------------------------------------------------------------------------
(* The special values are no keys, and generated keys are numbers.         *)
LEMMA Specials ==
    /\ Unset \notin Keys /\ Invalid \notin Keys /\ Absent \notin Keys /\ Short \notin Keys
    /\ Down \notin Keys /\ NoSeal \notin Keys
    /\ \A k \in EnvKeys : k \notin Generated
    /\ Generated = 1..MaxKeys /\ MaxKeys \in Nat
    /\ EnvKeys \subseteq Keys /\ Generated \subseteq Keys
BY KeyAssumption DEF Keys, Generated

(* No process runs at first, and nothing is sealed.                        *)
LEMMA InitKeyInv == KeyInit => KeyInv
<1> SUFFICES ASSUME KeyInit PROVE KeyInv
  OBVIOUS
<1>1. KeyType
  BY Specials DEF KeyInit, KeyType
<1>2. RunsOnItsSetting /\ SealedIsKept
  BY Specials DEF KeyInit, RunsOnItsSetting, SealedIsKept
<1> QED
  BY <1>1, <1>2 DEF KeyInv

(* Starting a process, an encryption and the operator keep the invariant.  *)
LEMMA NextKeyInv ==
    ASSUME KeyInv, [KeyNext]_keyVars
    PROVE  KeyInv'
<1> USE DEF KeyInv, KeyType, RunsOnItsSetting, SealedIsKept
<1>1. CASE LoadEnv
  BY <1>1, Specials DEF LoadEnv
<1>2. CASE LoadFile
  BY <1>2, Specials DEF LoadFile
<1>3. CASE Generate
  <2>1. SealedIsKept'
    BY <1>3, Specials DEF Generate
  <2>2. CASE generated' = generated + 1 /\ file' = generated' /\ master' = generated'
    <3>1. generated' \in Generated /\ generated' \in 0..MaxKeys
      BY <1>3, <2>2, Specials DEF Generate
    <3> QED
      BY <1>3, <2>1, <2>2, <3>1, Specials DEF Generate
  <2>3. CASE file' = Short /\ UNCHANGED <<generated, master>>
    BY <1>3, <2>1, <2>3, Specials DEF Generate
  <2> QED
    BY <1>3, <2>2, <2>3 DEF Generate
<1>4. CASE StopProcess
  BY <1>4, Specials DEF StopProcess
<1>5. ASSUME NEW r \in Rows, Seal(r)
      PROVE  KeyInv'
  <2>1. master \in Keys
    BY <1>5 DEF Seal
  <2>2. KeyType'
    BY <1>5, <2>1 DEF Seal
  <2>3. SealedIsKept'
    BY <1>5, <2>1, Specials DEF Seal
  <2> QED
    BY <1>5, <2>2, <2>3 DEF Seal
<1>6. ASSUME NEW e \in EnvKeys \union {Unset, Invalid}, SetEnv(e)
      PROVE  KeyInv'
  BY <1>6, Specials DEF SetEnv
<1>7. ASSUME NEW f \in {Absent, Short}, DamageFile(f)
      PROVE  KeyInv'
  BY <1>7, Specials DEF DamageFile
<1>8. CASE UNCHANGED keyVars
  BY <1>8 DEF keyVars
<1> QED
  BY <1>1, <1>2, <1>3, <1>4, <1>5, <1>6, <1>7, <1>8 DEF KeyNext

(* A process under the setting of a sealed key runs on that key.           *)
LEMMA KeyInvOpens == KeyInv => CredentialsReadable
<1> SUFFICES ASSUME KeyInv, NEW r \in Rows, sealed[r] # NoSeal, master # Down,
                    env = Source(sealed[r]), sealed[r] \notin hit
             PROVE  master = sealed[r]
  BY DEF CredentialsReadable, Opens
<1> USE DEF KeyInv, KeyType, RunsOnItsSetting, SealedIsKept
<1>1. sealed[r] \in EnvKeys \/ sealed[r] \in Generated
  BY DEF Keys
<1>2. CASE sealed[r] \in EnvKeys
  BY <1>2, Specials DEF Source
<1>3. CASE sealed[r] \in Generated
  <2>1. env = Unset /\ file = sealed[r]
    BY <1>3, Specials DEF Source
  <2> QED
    BY <1>3, <2>1, Specials
<1> QED
  BY <1>1, <1>2, <1>3

(* Restarts, failed starts and detours over other settings lose no stored  *)
(* credential, whatever the number of keys, rows and restarts.             *)
THEOREM CredentialsStayReadable == KeySpec => []CredentialsReadable
<1>1. KeyInv /\ [KeyNext]_keyVars => KeyInv'
  BY NextKeyInv
<1> QED
  BY <1>1, InitKeyInv, KeyInvOpens, PTL DEF KeySpec

-----------------------------------------------------------------------------
(* The statements of a report's transaction.                               *)
Steps == 1..Len(Statements)

TxType ==
    /\ tx \in [next : Nat, report : Report, wrote : SUBSET Tables]
    /\ tables \in [Tables -> 0..MaxReports]
    /\ reports \in 0..MaxReports

(* What lies behind the transaction is written, or may be missing.         *)
BehindIsWritten ==
    \A i \in Steps : i < tx.next => Statements[i] \in tx.wrote \union Ignored

TxInv == TxType /\ BehindIsWritten /\ OneReport

-----------------------------------------------------------------------------
(* The list of statements: agents is in it, and its error is not ignored.  *)
LEMMA StatementsFacts ==
    /\ Len(Statements) = 7 /\ Len(Statements) \in Nat
    /\ \A t \in Tables : \E i \in Steps : Statements[i] = t
    /\ \A i \in Steps : Statements[i] \in Tables
    /\ "agents" \in Tables /\ "agents" \notin Ignored
<1>1. Len(Statements) = 7
  BY DEF Statements
<1>2. Statements[1] = "agents"
  BY DEF Statements
<1>3. "agents" \notin Ignored
  BY DEF Ignored
<1> QED
  BY <1>1, <1>2, <1>3 DEF Tables, Steps

(* No report and no transaction, at first.                                 *)
LEMMA InitTxInv == TxInit => TxInv
<1> SUFFICES ASSUME TxInit PROVE TxInv
  OBVIOUS
<1>1. TxType
  BY ReportsAssumption DEF TxInit, TxType, NoTx, Report
<1>2. BehindIsWritten
  BY DEF TxInit, NoTx, BehindIsWritten, Steps
<1>3. OneReport
  BY StatementsFacts DEF TxInit, OneReport
<1> QED
  BY <1>1, <1>2, <1>3 DEF TxInv

(* A statement that is behind was executed, or its error ignored.          *)
LEMMA NextTxInv ==
    ASSUME TxInv, [TxNext]_txVars
    PROVE  TxInv'
<1> USE DEF TxInv, TxType
<1>n. NoTx \in [next : Nat, report : Report, wrote : SUBSET Tables] /\ NoTx.next = 0
  BY ReportsAssumption DEF NoTx, Report
<1>1. ASSUME NEW broken \in SUBSET {"storage_volumes"}, BeginTx(broken)
      PROVE  TxInv'
  <2>a. [number |-> reports + 1, broken |-> broken] \in Report /\ reports' \in 0..MaxReports
    BY <1>1, ReportsAssumption DEF BeginTx, Report
  <2>1. TxType'
    BY <1>1, <1>n, <2>a DEF BeginTx
  <2>2. BehindIsWritten'
    BY <1>1, <1>n DEF BeginTx, BehindIsWritten, Steps
  <2> QED
    BY <1>1, <2>1, <2>2 DEF BeginTx, OneReport
<1>2. CASE Execute
  <2>a. tx.wrote \union {Statements[tx.next]} \in SUBSET Tables /\ tx.next + 1 \in Nat
    BY <1>2, StatementsFacts DEF Execute, Writing, Steps
  <2>1. TxType'
    BY <1>2, <2>a DEF Execute
  <2>2. BehindIsWritten'
    BY <1>2, StatementsFacts DEF Execute, Writing, BehindIsWritten, Steps
  <2> QED
    BY <1>2, <2>1, <2>2 DEF Execute, OneReport
<1>3. CASE Error
  <2>1. TxType'
    BY <1>3, <1>n DEF Error, Writing
  <2>2. BehindIsWritten'
    BY <1>3, <1>n, StatementsFacts DEF Error, Writing, BehindIsWritten, Steps
  <2> QED
    BY <1>3, <2>1, <2>2 DEF Error, OneReport
<1>4. CASE Rollback
  BY <1>4, <1>n DEF Rollback, BehindIsWritten, OneReport, Steps
<1>5. CASE Commit
  <2>6. tables' \in [Tables -> 0..MaxReports]
    <3>1. tx.report.number \in 0..MaxReports
      BY DEF Report
    <3> QED
      BY <1>5, <3>1 DEF Commit
  <2>1. TxType' /\ BehindIsWritten'
    BY <1>5, <1>n, <2>6 DEF Commit, BehindIsWritten, Steps
  <2>2. \A t \in Tables : t \in tx.wrote \union Ignored
    BY <1>5, StatementsFacts DEF Commit, BehindIsWritten, Steps
  <2>3. \A t \in Tables \ skipped' : tables'[t] = tx.report.number
    BY <1>5, <2>2 DEF Commit
  <2>4. "agents" \in Tables \ skipped'
    BY <1>5, StatementsFacts DEF Commit
  <2>5. OneReport'
    BY <2>3, <2>4 DEF OneReport
  <2> QED
    BY <2>1, <2>5
<1>6. CASE UNCHANGED txVars
  BY <1>6 DEF txVars, BehindIsWritten, OneReport
<1> QED
  BY <1>1, <1>2, <1>3, <1>4, <1>5, <1>6 DEF TxNext

(* Whatever statement of whatever collect fails, what a machine shows is   *)
(* one report, but for the tables whose errors are ignored.                *)
THEOREM StoredAsOneReport == TxSpec => []OneReport
<1>1. TxInv /\ [TxNext]_txVars => TxInv'
  BY NextTxInv
<1>2. TxInv => OneReport
  BY DEF TxInv
<1> QED
  BY <1>1, <1>2, InitTxInv, PTL DEF TxSpec

-----------------------------------------------------------------------------
Event == {"command", "status", "output", "error", "complete"}

Shows == {"nothing", "running", "complete", "failed"}

StreamType ==
    /\ handler \in {"none", "session", "collect", "final", "abandoned", "returned"}
    /\ stream \in Seq(Event) /\ late \in Nat
    /\ console \in [shows : Shows, read : Nat, complete : BOOLEAN]

(* Copiers outlive only a handler whose context has ended.                 *)
CopiersAreWaitedFor ==
    /\ handler \in {"none", "collect", "final"} => copiers = {}
    /\ handler \in {"abandoned", "returned"} => copiers = {} \/ expired
    /\ handler \in {"session", "collect", "final", "abandoned"} => late = 0

(* What is not yet in the stream while the handler runs.                   *)
NotYet ==
    /\ handler \in {"session", "collect", "final", "abandoned"} => "complete" \notin ToSet(stream)
    /\ handler \in {"session", "collect", "final"} => "error" \notin ToSet(stream)

ConsoleKnows == console.complete => "complete" \in ToSet(stream)

StreamInv ==
    /\ StreamType
    /\ CopiersAreWaitedFor
    /\ NotYet
    /\ ConsoleKnows
    /\ QuietAfterReturn
    /\ CompleteIsLast

-----------------------------------------------------------------------------
(* An event that is emitted is one more, and the last.                     *)
LEMMA Emitted ==
    ASSUME NEW S, NEW s \in Seq(S), NEW e \in S
    PROVE  /\ Append(s, e) \in Seq(S)
           /\ ToSet(Append(s, e)) = ToSet(s) \union {e}
           /\ Last(Append(s, e)) = e
<1>1. /\ Append(s, e) \in Seq(S) /\ Len(Append(s, e)) = Len(s) + 1
      /\ \A i \in 1..Len(s) : Append(s, e)[i] = s[i]
      /\ Append(s, e)[Len(s) + 1] = e
  BY AppendProperties
<1>2. DOMAIN s = 1..Len(s) /\ DOMAIN Append(s, e) = 1..Len(s) + 1 /\ Len(s) \in Nat
  BY <1>1
<1>3. \A x : x \in ToSet(Append(s, e)) <=> x \in ToSet(s) \/ x = e
  BY <1>1, <1>2 DEF ToSet
<1> QED
  BY <1>1, <1>3 DEF Last

(* So it is with what the handler emits.                                   *)
LEMMA EmitStep ==
    ASSUME stream \in Seq(Event), NEW e \in Event, Emit(e)
    PROVE  stream' \in Seq(Event) /\ ToSet(stream') = ToSet(stream) \union {e} /\ Last(stream') = e
BY Emitted DEF Emit

(* Nothing is said or copied at first.                                     *)
LEMMA InitStreamInv == StreamInit => StreamInv
<1> SUFFICES ASSUME StreamInit PROVE StreamInv
  OBVIOUS
<1>1. StreamType
  BY DEF StreamInit, StreamType, Shows
<1>2. ToSet(stream) = {}
  BY DEF StreamInit, ToSet
<1> QED
  BY <1>1, <1>2 DEF StreamInit, StreamInv, CopiersAreWaitedFor, NotYet, ConsoleKnows,
     QuietAfterReturn, CompleteIsLast

(* The handler's own steps keep the invariant: each emits one event.       *)
LEMMA HandlerStep ==
    ASSUME StreamInv, CommandEnds \/ Abandon \/ Collected \/ Succeed \/ Return \/ Expire
    PROVE  StreamInv'
<1> USE DEF StreamInv, StreamType, CopiersAreWaitedFor, NotYet, ConsoleKnows,
            QuietAfterReturn, CompleteIsLast
<1>1. CASE CommandEnds
  <2>1. CASE handler' = "collect" /\ Emit("status")
    BY <1>1, <2>1, EmitStep DEF CommandEnds, Event
  <2>2. CASE handler' = "returned" /\ Emit("error")
    BY <1>1, <2>2, EmitStep DEF CommandEnds, Event
  <2> QED
    BY <1>1, <2>1, <2>2 DEF CommandEnds
<1>2. CASE Abandon
  BY <1>2, EmitStep DEF Abandon, Event
<1>3. CASE Collected
  <2>1. CASE handler' = "final" /\ UNCHANGED stream
    BY <1>3, <2>1 DEF Collected
  <2>2. CASE handler' = "returned" /\ Emit("error")
    BY <1>3, <2>2, EmitStep DEF Collected, Event
  <2> QED
    BY <1>3, <2>1, <2>2 DEF Collected
<1>4. CASE Succeed
  BY <1>4, EmitStep DEF Succeed, Event
<1>5. CASE Return
  BY <1>5 DEF Return
<1>6. CASE Expire
  BY <1>6 DEF Expire
<1> QED
  BY <1>1, <1>2, <1>3, <1>4, <1>5, <1>6

(* The console's steps keep the invariant: it knows what it has read.      *)
LEMMA ConsoleStep ==
    ASSUME StreamInv, Read \/ StreamEnds \/ Disconnect \/ RefuseUpdate
    PROVE  StreamInv'
<1> USE DEF StreamInv, StreamType, CopiersAreWaitedFor, NotYet, ConsoleKnows,
            QuietAfterReturn, CompleteIsLast
<1>1. CASE Read
  <2> DEFINE event == stream[console.read + 1]
             known == console.complete \/ event = "complete"
             shown == IF event = "error" THEN "failed" ELSE console.shows
  <2>1. console.read + 1 \in 1..Len(stream)
    BY <1>1 DEF Read
  <2>2. event \in ToSet(stream)
    BY <2>1 DEF ToSet
  <2>3. console' = [console EXCEPT !.read = console.read + 1, !.complete = known, !.shows = shown]
    BY <1>1, Zenon DEF Read
  <2>4. known \in BOOLEAN /\ (known => "complete" \in ToSet(stream))
    BY <2>2
  <2>5. shown \in Shows /\ shown # "complete"
    BY <1>1 DEF Read, Shows
  <2> HIDE DEF known, shown
  <2>5a. console.read + 1 \in Nat
    OBVIOUS
  <2>6. /\ console' \in [shows : Shows, read : Nat, complete : BOOLEAN]
        /\ console'.complete = known /\ console'.shows = shown
    BY <2>3, <2>4, <2>5, <2>5a
  <2> QED
    BY <1>1, <2>4, <2>5, <2>6 DEF Read
<1>2. CASE StreamEnds
  BY <1>2 DEF StreamEnds, Shows
<1>3. CASE Disconnect
  BY <1>3 DEF Disconnect, Shows
<1>4. CASE RefuseUpdate
  BY <1>4 DEF RefuseUpdate, Shows
<1> QED
  BY <1>1, <1>2, <1>3, <1>4

(* Every step of an update keeps the invariant.                            *)
LEMMA NextStreamInv ==
    ASSUME StreamInv, [StreamNext]_streamVars
    PROVE  StreamInv'
<1> USE DEF StreamInv, StreamType, CopiersAreWaitedFor, NotYet, ConsoleKnows,
            QuietAfterReturn, CompleteIsLast
<1>1. CASE StartStream
  <2>1. stream' \in Seq(Event) /\ ToSet(stream') = {"command", "status"}
    <3>1. stream' \in Seq(Event) /\ Len(stream') = 2 /\ stream'[1] = "command" /\ stream'[2] = "status"
      BY <1>1 DEF StartStream, Event
    <3>2. DOMAIN stream' = 1..2
      BY <3>1
    <3>3. \A x : x \in ToSet(stream') <=> x \in {"command", "status"}
      BY <3>1, <3>2 DEF ToSet
    <3> QED
      BY <3>1, <3>3
  <2> QED
    BY <1>1, <2>1 DEF StartStream, Shows
<1>2. ASSUME NEW c \in Copiers, Copy(c)
      PROVE  StreamInv'
  <2>1. CASE handler = "returned"
    BY <1>2, <2>1 DEF Copy
  <2>2. CASE handler # "returned"
    BY <1>2, <2>2, EmitStep DEF Copy, Event
  <2> QED
    BY <2>1, <2>2
<1>3. ASSUME NEW c \in Copiers, CopyEnds(c)
      PROVE  StreamInv'
  BY <1>3 DEF CopyEnds
<1>4. CASE EndStream
  BY <1>4 DEF EndStream
<1>5. CASE CutStream
  BY <1>5 DEF CutStream, Shows
<1>6. CASE UNCHANGED streamVars
  BY <1>6 DEF streamVars
<1> QED
  BY <1>1, <1>2, <1>3, <1>4, <1>5, <1>6, HandlerStep, ConsoleStep DEF StreamNext

(* A session that is waited for leaves no copier behind: whatever is sent  *)
(* after the handler has returned was sent because its context ended.      *)
THEOREM HandlersReturnQuietly == StreamSpec => []QuietAfterReturn
<1>1. StreamInv /\ [StreamNext]_streamVars => StreamInv'
  BY NextStreamInv
<1>2. StreamInv => QuietAfterReturn
  BY DEF StreamInv
<1> QED
  BY <1>1, <1>2, InitStreamInv, PTL DEF StreamSpec

(* Success is the last word of an update, and the console only ever shows  *)
(* it after reading it.                                                    *)
THEOREM CompleteIsTheLastWord == StreamSpec => []CompleteIsLast
<1>1. StreamInv /\ [StreamNext]_streamVars => StreamInv'
  BY NextStreamInv
<1>2. StreamInv => CompleteIsLast
  BY DEF StreamInv
<1> QED
  BY <1>1, <1>2, InitStreamInv, PTL DEF StreamSpec

=============================================================================
