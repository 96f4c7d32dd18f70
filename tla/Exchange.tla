------------------------------ MODULE Exchange ------------------------------
(***************************************************************************)
(* One request or collect at work on one machine, from its credential to   *)
(* its answer, inside a process that is stopped and started around it:     *)
(* MasterKey opens the credential, Sections takes the output apart,        *)
(* Inventory stores a report, Registry checks an image, UpdateStream       *)
(* streams an update. What two handlers do to each other is the subject of *)
(* Collector and ContainerCache; here it is what the world does to one.    *)
(***************************************************************************)
EXTENDS MasterKey, Registry, Inventory, UpdateStream, Sections

CONSTANTS
    Machine,    \* the row of the machine in agents
    Networks,   \* lists of Docker networks of a container, by name and address
    Catalogs    \* the registry, at first

ASSUME ExchangeAssumption ==
    /\ Machine \in Rows
    /\ Catalogs \subseteq [Tags -> Digests \union {Gone}]

(* No name of a network is empty or has the ":" of a digest.               *)
ASSUME LinesAssumption ==
    /\ Blank \notin Digests
    /\ \A networks \in Networks :
          networks \in Seq(STRING) /\ ToSet(networks) \intersect (Digests \union {Blank}) = {}

(* What the handler does; and, for an inspection, the sections that the    *)
(* machine printed, and the two digests found in them; history: guessed,   *)
(* the second was one of several.                                          *)
VARIABLE slot

(* What this behaviour is about. Handlers of different kinds share nothing *)
(* but the master key, so that each is looked at by itself; the operator   *)
(* meddles with the key in behaviours of a kind of their own.              *)
VARIABLE kind

vars == <<keyVars, checkVars, txVars, streamVars, slot, kind>>

NoSlot == [kind |-> "none", blocks |-> <<>>, local |-> NoDigest, found |-> NoDigest,
           guessed |-> FALSE]

Init ==
    /\ kind \in {"operate", "collect", "inspect", "update"}
    /\ KeyInit /\ TxInit /\ StreamInit
    /\ CheckInit(IF kind = "inspect" THEN Catalogs ELSE {[t \in Tags |-> Gone]})
    /\ slot = NoSlot

(* A handler of this kind reads the credential and opens it; without that  *)
(* it answers with an error.                                               *)
Connect(k) ==
    /\ kind = k /\ slot.kind = "none"
    /\ Opens(Machine)
    /\ slot' = [NoSlot EXCEPT !.kind = k]

End == slot' = NoSlot

-----------------------------------------------------------------------------
(* collect.                                                                *)

StartCollect ==
    /\ Connect("collect")
    /\ UNCHANGED <<keyVars, checkVars, txVars, streamVars>>

Collect ==
    /\ slot.kind = "collect"
    /\ \/ \E broken \in SUBSET {"storage_volumes"} : BeginTx(broken) /\ UNCHANGED slot
       \/ Execute /\ UNCHANGED slot
       \/ Error /\ IF tx'.next = 0 THEN End ELSE UNCHANGED slot
       \/ Rollback /\ End
       \/ Commit /\ End
       \/ UNCHANGED txVars /\ tx.next = 0 /\ End
    /\ UNCHANGED <<keyVars, checkVars, streamVars>>

-----------------------------------------------------------------------------
(* inspectContainer.                                                       *)

sections == parseSections(Written(slot.blocks))

(* The text of a section that is one value; joined with other lines it is  *)
(* no JSON.                                                                *)
Value(text) == LET lines == nonEmptyLines(text) IN IF Len(lines) = 1 THEN lines[1] ELSE Blank

Digest(line) == IF line \in Digests THEN line ELSE NoDigest

(* findDigest: imagetools prints the digest. The manifest plugin prints an *)
(* object with the digests of the manifest, its layers and its platforms,  *)
(* which is walked in the order of a Go map.                               *)
findDigest(line) == IF line = "verbose" THEN Digests ELSE {Digest(line)}

StartInspect(image) ==
    /\ Connect("inspect")
    /\ BeginCheck(image)
    /\ UNCHANGED <<keyVars, txVars, streamVars>>

(* What docker buildx imagetools or docker manifest inspect may print.     *)
Remote ==
    LET r == Reference(Name(check.image))
        d == IF r \in Tags THEN catalog[r] ELSE r
    IN  {<<>>, <<"verbose">>} \union IF d = Gone THEN {} ELSE {<<d>>}

Output(networks, local, remote) ==
    << [header |-> "NETWORKS", lines |-> networks],
       [header |-> "MOUNTS", lines |-> <<>>],
       [header |-> "IMAGE_META", lines |-> local],
       [header |-> "REGISTRY", lines |-> remote] >>

(* Commands of the machine that fail print nothing.                        *)
Answers(networks, local) ==
    /\ check.pc = "host" /\ slot.blocks = <<>>
    /\ \E remote \in Remote : slot' = [slot EXCEPT !.blocks = Output(networks, local, remote)]
    /\ UNCHANGED <<keyVars, checkVars, txVars, streamVars>>

(* The registry is asked about semantic versions, and for a digest that    *)
(* the machine could not tell.                                             *)
ReadAnswer ==
    /\ slot.blocks # <<>>
    /\ \E found \in findDigest(Value(sections["REGISTRY"])) :
         LET trusted == IF Semantic(check.image) THEN NoDigest ELSE found
         IN  /\ slot' = [slot EXCEPT !.blocks = <<>>, !.found = trusted,
                                     !.local = Digest(Value(sections["IMAGE_META"])),
                                     !.guessed = Value(sections["REGISTRY"]) = "verbose"]
             /\ IF trusted = NoDigest THEN AskRegistry ELSE SkipRegistry
    /\ UNCHANGED <<keyVars, txVars, streamVars>>

(* Mutant: the error is answered, and the handler goes on.                 *)
SSHFailsOn ==
    /\ check.pc = "host" /\ slot.blocks = <<>>
    /\ AskRegistry
    /\ End
    /\ UNCHANGED <<keyVars, txVars, streamVars>>

SSHFails ==
    /\ check.pc = "host" /\ slot.blocks = <<>>
    /\ DropCheck
    /\ End
    /\ UNCHANGED <<keyVars, txVars, streamVars>>

CheckRegistry ==
    /\ slot.kind = "inspect"
    /\ \/ Challenged \/ Granted \/ Unanswered \/ SearchEnds
       \/ \E page \in SUBSET Published : Listed(page)
       \/ \E t \in check.left : Examine(t)
       \/ \E d \in Digests : DigestFound(d)
    /\ UNCHANGED <<keyVars, txVars, streamVars, slot>>

RegistryDigest == IF slot.found # NoDigest THEN slot.found ELSE check.digest

(* Mutant: digests are compared whether both are known or not.             *)
VerdictUnguarded ==
    IF Semantic(check.image)
    THEN IF check.checked THEN IF check.best # NoTag THEN "yes" ELSE "no" ELSE "null"
    ELSE IF slot.local # RegistryDigest THEN "yes" ELSE "no"

(* update_available; "kept" is what the row had before.                    *)
Verdict ==
    IF Semantic(check.image)
    THEN IF check.checked THEN IF check.best # NoTag THEN "yes" ELSE "no" ELSE "null"
    ELSE IF NoDigest \in {slot.local, RegistryDigest} THEN "kept"
    ELSE IF slot.local # RegistryDigest THEN "yes" ELSE "no"

(* The row is written and the answer sent.                                 *)
EndInspect ==
    /\ slot.kind = "inspect"
    /\ EndCheck /\ End
    /\ UNCHANGED <<keyVars, txVars, streamVars>>

-----------------------------------------------------------------------------
(* updateComposeContainer.                                                 *)

StartUpdate ==
    /\ \/ Connect("update") /\ StartStream
       \/ kind = "update" /\ slot.kind = "none" /\ RefuseUpdate /\ UNCHANGED slot
    /\ UNCHANGED <<keyVars, checkVars, txVars>>

Update ==
    /\ \/ CommandEnds \/ Expire \/ Abandon \/ Return \/ Collected \/ Succeed
       \/ \E c \in Copiers : Copy(c) \/ CopyEnds(c)
       \/ Read \/ StreamEnds \/ Disconnect
    /\ UNCHANGED <<keyVars, checkVars, txVars, slot>>

EndUpdate ==
    /\ slot.kind = "update"
    /\ EndStream
    /\ End
    /\ UNCHANGED <<keyVars, checkVars, txVars>>

-----------------------------------------------------------------------------
(* createAgent, or another way to store the credential.                    *)
Register ==
    /\ slot.kind = "none"
    /\ \E r \in Rows : Seal(r)
    /\ UNCHANGED <<checkVars, txVars, streamVars, slot>>

(* The process ends with its handlers; the database rolls back.            *)
Stop ==
    /\ StopProcess
    /\ slot' = NoSlot
    /\ Rollback \/ (tx.next = 0 /\ UNCHANGED txVars)
    /\ DropCheck
    /\ CutStream

Start ==
    /\ LoadEnv \/ LoadFile \/ Generate
    /\ UNCHANGED <<checkVars, txVars, streamVars, slot>>

Operate ==
    /\ kind = "operate"
    /\ \/ \E e \in EnvKeys \union {Unset, Invalid} : SetEnv(e)
       \/ \E f \in {Absent, Short} : DamageFile(f)
    /\ UNCHANGED <<checkVars, txVars, streamVars, slot>>

RegistryChanges ==
    /\ \E t \in Tags, d \in Digests \union {Gone} : Publish(t, d)
    /\ UNCHANGED <<keyVars, txVars, streamVars, slot>>

Step ==
    \/ Start
    \/ Operate
    \/ Stop
    \/ Register
    \/ RegistryChanges
    \/ StartCollect
    \/ Collect
    \/ \E image \in Images : StartInspect(image)
    \/ \E networks \in Networks, local \in {<<>>} \union {<<d>> : d \in Digests} :
          Answers(networks, local)
    \/ ReadAnswer
    \/ SSHFails
    \/ CheckRegistry
    \/ EndInspect
    \/ StartUpdate
    \/ Update
    \/ EndUpdate

Next == Step /\ UNCHANGED kind

Spec == Init /\ [][Next]_vars

-----------------------------------------------------------------------------
TypeOK ==
    /\ KeyType
    /\ catalog \in [Tags -> Digests \union {Gone}] /\ changes \in 0..MaxChanges
    /\ check.pc \in {"idle", "host", "ask", "token", "search", "done"}
    /\ check.left \subseteq check.page /\ check.best \in Tags \union {NoTag}
    /\ check.digest \in Digests \union {NoDigest}
    /\ tables \in [Tables -> 0..MaxReports] /\ tx.report \in Report
    /\ handler \in {"none", "session", "collect", "final", "abandoned", "returned"}
    /\ slot.kind \in {"none", "collect", "inspect", "update"}
    /\ {slot.local, slot.found} \subseteq Digests \union {NoDigest}
    /\ tx.next > 0 => slot.kind = "collect"
    /\ check.pc # "idle" <=> slot.kind = "inspect"
    /\ handler # "none" <=> slot.kind = "update"

(* Every section that the machine printed is read back as it was, unless a *)
(* line of it is itself a header (app.go 1015: a network named REGISTRY    *)
(* that has no address, as all have of a container that is stopped).       *)
SectionsAreOwn ==
    \A i \in 1..Len(slot.blocks) :
       \/ \E j \in 1..Len(slot.blocks) : ToSet(slot.blocks[j].lines) \intersect Headers # {}
       \/ nonEmptyLines(sections[slot.blocks[i].header]) = slot.blocks[i].lines

(* For an image without a semantic tag: a check finds "Current" only if    *)
(* the machine's digest is one that the registry had under its reference   *)
(* during the check, "Update available" only if the registry had another;  *)
(* whatever failed, moved or was misread. A check that knows no digest     *)
(* finds nothing, and the row keeps what it had (app.go 684): what that    *)
(* rests on is the subject of ContainerCache. The output of the manifest   *)
(* plugin, from which any digest may be taken, is the exception (app.go    *)
(* 836).                                                                   *)
VerdictHolds ==
    slot.kind = "inspect" /\ check.pc = "done" /\ ~Semantic(check.image)
      /\ ~slot.guessed =>
    LET had == IF Current \in Tags THEN check.had[Current] ELSE {Current}
    IN  /\ Verdict = "no" => slot.local \in had
        /\ Verdict = "yes" => slot.local # NoDigest /\ had \ {slot.local} # {}

=============================================================================
