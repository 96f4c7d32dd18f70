--------------------------- MODULE ExchangeProofs ---------------------------
(***************************************************************************)
(* The composition implements the specification of each of its parts, and  *)
(* so keeps what is proved of it; and the output of an inspection is read  *)
(* back as it was printed, up to the verdict on an image.                  *)
(***************************************************************************)
EXTENDS Exchange, PartsProofs, RegistryProofs, SectionsProofs, TLAPS

(* The first state is one of each part.                                    *)
LEMMA InitParts ==
    Init => KeyInit /\ TxInit /\ StreamInit /\ CheckInit([Tags -> Digests \union {Gone}])
BY ExchangeAssumption DEF Init, CheckInit

(* Requests leave the master key alone.                                    *)
LEMMA NextKeys == [Next]_vars => [KeyNext]_keyVars
<1> SUFFICES ASSUME Step PROVE [KeyNext]_keyVars
  BY DEF Next, vars
<1>1. CASE Start
  BY <1>1 DEF Start, KeyNext
<1>2. CASE Operate
  BY <1>2 DEF Operate, KeyNext
<1>3. CASE Stop
  BY <1>3 DEF Stop, KeyNext
<1>4. CASE Register
  BY <1>4 DEF Register, KeyNext
<1>5. CASE \/ RegistryChanges \/ StartCollect \/ Collect
           \/ \E image \in Images : StartInspect(image)
           \/ \E networks \in Networks, local \in {<<>>} \union {<<d>> : d \in Digests} :
                 Answers(networks, local)
           \/ ReadAnswer \/ SSHFails \/ CheckRegistry \/ EndInspect
           \/ StartUpdate \/ Update \/ EndUpdate
  BY <1>5, Zenon DEF RegistryChanges, StartCollect, Collect, StartInspect, Answers, ReadAnswer,
     SSHFails, CheckRegistry, EndInspect, StartUpdate, Update, EndUpdate
<1> QED
  BY <1>1, <1>2, <1>3, <1>4, <1>5 DEF Step

(* Only a collect, or the end of its process, touches the transaction.     *)
LEMMA NextTx == [Next]_vars => [TxNext]_txVars
<1> SUFFICES ASSUME Step PROVE [TxNext]_txVars
  BY DEF Next, vars
<1>1. CASE Collect
  BY <1>1, Zenon DEF Collect, TxNext
<1>2. CASE Stop
  BY <1>2, Zenon DEF Stop, TxNext
<1>3. CASE \/ Start \/ Operate \/ Register \/ RegistryChanges \/ StartCollect
           \/ \E image \in Images : StartInspect(image)
           \/ \E networks \in Networks, local \in {<<>>} \union {<<d>> : d \in Digests} :
                 Answers(networks, local)
           \/ ReadAnswer \/ SSHFails \/ CheckRegistry \/ EndInspect
           \/ StartUpdate \/ Update \/ EndUpdate
  BY <1>3, Zenon DEF Start, Operate, Register, RegistryChanges, StartCollect, StartInspect,
     Answers, ReadAnswer, SSHFails, CheckRegistry, EndInspect, StartUpdate, Update, EndUpdate
<1> QED
  BY <1>1, <1>2, <1>3 DEF Step

(* Only an update, or the end of its process, touches the stream.          *)
LEMMA NextStream == [Next]_vars => [StreamNext]_streamVars
<1> SUFFICES ASSUME Step PROVE [StreamNext]_streamVars
  BY DEF Next, vars
<1>1. CASE StartUpdate \/ Update \/ EndUpdate
  BY <1>1, Zenon DEF StartUpdate, Update, EndUpdate, StreamNext
<1>2. CASE Stop
  BY <1>2, Zenon DEF Stop, StreamNext
<1>3. CASE \/ Start \/ Operate \/ Register \/ RegistryChanges \/ StartCollect \/ Collect
           \/ \E image \in Images : StartInspect(image)
           \/ \E networks \in Networks, local \in {<<>>} \union {<<d>> : d \in Digests} :
                 Answers(networks, local)
           \/ ReadAnswer \/ SSHFails \/ CheckRegistry \/ EndInspect
  BY <1>3, Zenon DEF Start, Operate, Register, RegistryChanges, StartCollect, Collect,
     StartInspect, Answers, ReadAnswer, SSHFails, CheckRegistry, EndInspect
<1> QED
  BY <1>1, <1>2, <1>3 DEF Step

(* Only an inspection, the registry, or the end of the process touches the *)
(* check.                                                                  *)
LEMMA NextChecks == CheckInv /\ [Next]_vars => [CheckNext]_checkVars
<1> SUFFICES ASSUME CheckInv, Step PROVE [CheckNext]_checkVars
  BY DEF Next, vars
<1>1. CASE \E image \in Images : StartInspect(image)
  BY <1>1, Zenon DEF StartInspect, CheckNext
<1>2. CASE CheckRegistry
  <2>1. \A t \in check.left : t \in Tags
    BY DEF CheckInv, CheckType
  <2> QED
    BY <1>2, <2>1, Zenon DEF CheckRegistry, CheckNext
<1>3. CASE ReadAnswer
  BY <1>3, Zenon DEF ReadAnswer, CheckNext
<1>4. CASE EndInspect \/ SSHFails \/ Stop
  BY <1>4, Zenon DEF EndInspect, SSHFails, Stop, CheckNext
<1>5. CASE RegistryChanges
  BY <1>5, Zenon DEF RegistryChanges, CheckNext
<1>6. CASE \/ Start \/ Operate \/ Register \/ StartCollect \/ Collect
           \/ \E networks \in Networks, local \in {<<>>} \union {<<d>> : d \in Digests} :
                 Answers(networks, local)
           \/ StartUpdate \/ Update \/ EndUpdate
  BY <1>6, Zenon DEF Start, Operate, Register, StartCollect, Collect, Answers, StartUpdate,
     Update, EndUpdate
<1> QED
  BY <1>1, <1>2, <1>3, <1>4, <1>5, <1>6 DEF Step

-----------------------------------------------------------------------------
(* Whatever requests, failures and restarts there are: the key, the        *)
(* transaction, the stream and the check only ever do their own steps.     *)
THEOREM PartsAreImplemented == Spec => KeySpec /\ TxSpec /\ StreamSpec /\ CheckSpec
<1>1. CheckInv /\ [CheckNext]_checkVars => CheckInv'
  BY NextCheckInv
<1>2. CheckInit([Tags -> Digests \union {Gone}]) => CheckInv
  BY NoCheckInv DEF CheckInit
<1> QED
  BY <1>1, <1>2, InitParts, NextKeys, NextTx, NextStream, NextChecks, PTL
     DEF Spec, KeySpec, TxSpec, StreamSpec, CheckSpec

(* The handler of each kind is the one that its part knows of.             *)
SlotInv ==
    /\ slot = [kind |-> slot.kind, blocks |-> slot.blocks, local |-> slot.local,
               found |-> slot.found, guessed |-> slot.guessed]
    /\ slot.kind \in {"none", "collect", "inspect", "update"}
    /\ {slot.local, slot.found} \subseteq Digests \union {NoDigest}
    /\ tx.next > 0 => slot.kind = "collect"
    /\ check.pc # "idle" <=> slot.kind = "inspect"
    /\ handler # "none" <=> slot.kind = "update"

ExchangeInv == KeyInv /\ TxInv /\ StreamInv /\ CheckInv /\ HistoryInv /\ SlotInv

(* A slot whose handler, if any, has just connected.                       *)
Fresh(k) == [kind |-> k, blocks |-> <<>>, local |-> NoDigest, found |-> NoDigest, guessed |-> FALSE]

(* So is the empty one, and what Connect makes of it.                      *)
LEMMA Connected ==
    /\ NoSlot = Fresh("none")
    /\ \A k : /\ [NoSlot EXCEPT !.kind = k] = Fresh(k)
             /\ Fresh(k).kind = k /\ Fresh(k).local = NoDigest /\ Fresh(k).found = NoDigest
             /\ Fresh(k) = [kind |-> Fresh(k).kind, blocks |-> Fresh(k).blocks,
                            local |-> Fresh(k).local, found |-> Fresh(k).found,
                            guessed |-> Fresh(k).guessed]
<1>1. NoSlot = Fresh("none")
  BY DEF NoSlot, Fresh
<1>2. ASSUME NEW k PROVE [NoSlot EXCEPT !.kind = k] = Fresh(k)
  <2>1. \A e, g : [[kind |-> "none", blocks |-> e, local |-> NoDigest, found |-> NoDigest,
                   guessed |-> g] EXCEPT !.kind = k]
                = [kind |-> k, blocks |-> e, local |-> NoDigest, found |-> NoDigest, guessed |-> g]
    OBVIOUS
  <2> QED
    BY <2>1, Zenon DEF NoSlot, Fresh
<1>3. ASSUME NEW k
      PROVE  /\ Fresh(k).kind = k /\ Fresh(k).local = NoDigest /\ Fresh(k).found = NoDigest
             /\ Fresh(k).blocks = <<>> /\ Fresh(k).guessed = FALSE
  BY DEF Fresh
<1>4. ASSUME NEW k
      PROVE  Fresh(k) = [kind |-> Fresh(k).kind, blocks |-> Fresh(k).blocks,
                         local |-> Fresh(k).local, found |-> Fresh(k).found,
                         guessed |-> Fresh(k).guessed]
  BY <1>3 DEF Fresh
<1> QED
  BY <1>1, <1>2, <1>3, <1>4

(* The steps of a collect, and what begins or ends a handler.              *)
LEMMA HandlerKeepsSlot ==
    ASSUME ExchangeInv,
           \/ Stop \/ StartCollect \/ Collect \/ \E image \in Images : StartInspect(image)
           \/ SSHFails \/ EndInspect \/ StartUpdate \/ EndUpdate
    PROVE  SlotInv'
<1> USE DEF ExchangeInv
<1>1. NoSlot.kind = "none" /\ NoTx.next = 0 /\ NoCheck.pc = "idle" /\ tx.next \in Nat
  BY DEF NoSlot, NoTx, NoCheck, TxInv, TxType
<1>2. NoSlot = Fresh("none") /\ \A k : [NoSlot EXCEPT !.kind = k] = Fresh(k)
  BY Connected
<1>3. CASE Stop
  <2>1. tx'.next = 0 /\ slot' = NoSlot /\ check' = NoCheck /\ handler' = "none"
    BY <1>1, <1>3 DEF Stop, Rollback, DropCheck, CutStream, txVars
  <2> QED
    BY <1>1, <1>2, <2>1, Connected DEF SlotInv
<1>4. CASE StartCollect
  <2>1. /\ slot.kind = "none" /\ slot' = [NoSlot EXCEPT !.kind = "collect"]
        /\ tx' = tx /\ check' = check /\ handler' = handler
    BY <1>4 DEF StartCollect, Connect, checkVars, txVars, streamVars
  <2> QED
    BY <1>1, <1>2, <2>1, Connected DEF SlotInv
<1>5. CASE Collect
  <2>1. slot.kind = "collect" /\ check' = check /\ handler' = handler
    BY <1>5 DEF Collect, checkVars, streamVars
  <2>2. slot' = slot \/ (slot' = NoSlot /\ tx'.next = 0)
    BY <1>1, <1>5 DEF Collect, End, Rollback, Commit, txVars
  <2> QED
    BY <1>1, <1>2, <2>1, <2>2, Connected DEF SlotInv
<1>6. ASSUME NEW image \in Images, StartInspect(image)
      PROVE  SlotInv'
  <2>1. /\ slot.kind = "none" /\ slot' = [NoSlot EXCEPT !.kind = "inspect"]
        /\ tx' = tx /\ handler' = handler
        /\ check' = [NoCheck EXCEPT !.pc = "host", !.image = image,
                                    !.had = [t \in Tags |-> {catalog[t]} \ {Gone}]]
    BY <1>6, Zenon DEF StartInspect, BeginCheck, Connect, txVars, streamVars
  <2>2. check'.pc = "host"
    BY <2>1 DEF NoCheck
  <2> QED
    BY <1>1, <1>2, <2>1, <2>2, Connected DEF SlotInv
<1>7. CASE SSHFails \/ EndInspect
  <2>1. slot' = NoSlot /\ check' = NoCheck /\ tx' = tx /\ handler' = handler /\ slot.kind = "inspect"
    BY <1>7 DEF SSHFails, EndInspect, DropCheck, EndCheck, End, txVars, streamVars, SlotInv
  <2> QED
    BY <1>1, <1>2, <2>1, Connected DEF SlotInv
<1>8. CASE StartUpdate
  <2>1. tx' = tx /\ check' = check /\ slot.kind = "none"
    BY <1>8 DEF StartUpdate, Connect, txVars, checkVars
  <2>2. \/ slot' = [NoSlot EXCEPT !.kind = "update"] /\ handler' = "session"
        \/ slot' = slot /\ handler' = handler
    BY <1>8 DEF StartUpdate, Connect, StartStream, RefuseUpdate
  <2> QED
    BY <1>1, <1>2, <2>1, <2>2, Connected DEF SlotInv
<1>9. CASE EndUpdate
  <2>1. /\ slot.kind = "update" /\ slot' = NoSlot /\ handler' = "none"
        /\ tx' = tx /\ check' = check
    BY <1>9 DEF EndUpdate, EndStream, End, txVars, checkVars
  <2> QED
    BY <1>1, <1>2, <2>1, Connected DEF SlotInv
<1> QED
  BY <1>3, <1>4, <1>5, <1>6, <1>7, <1>8, <1>9

(* What goes on inside of a handler.                                       *)
LEMMA ProgressKeepsSlot ==
    ASSUME ExchangeInv,
           \/ \E networks \in Networks, local \in {<<>>} \union {<<d>> : d \in Digests} :
                 Answers(networks, local)
           \/ ReadAnswer \/ CheckRegistry \/ Update
    PROVE  SlotInv'
<1> USE DEF ExchangeInv
<1>1. ASSUME NEW networks \in Networks, NEW local \in {<<>>} \union {<<d>> : d \in Digests},
             Answers(networks, local)
      PROVE  SlotInv'
  <2>1. PICK blocks : slot' = [slot EXCEPT !.blocks = blocks]
    BY <1>1, Zenon DEF Answers
  <2>2. tx' = tx /\ check' = check /\ handler' = handler
    BY <1>1, Zenon DEF Answers, txVars, checkVars, streamVars
  <2> QED
    BY <2>1, <2>2 DEF SlotInv
<1>2. CASE ReadAnswer
  <2>1. PICK found \in findDigest(Value(sections["REGISTRY"])) :
          LET trusted == IF Semantic(check.image) THEN NoDigest ELSE found
          IN  /\ slot' = [slot EXCEPT !.blocks = <<>>, !.found = trusted,
                                      !.local = Digest(Value(sections["IMAGE_META"])),
                                      !.guessed = Value(sections["REGISTRY"]) = "verbose"]
              /\ IF trusted = NoDigest THEN AskRegistry ELSE SkipRegistry
    BY <1>2, Zenon DEF ReadAnswer
  <2> DEFINE trusted == IF Semantic(check.image) THEN NoDigest ELSE found
             own == Digest(Value(sections["IMAGE_META"]))
             guessed == Value(sections["REGISTRY"]) = "verbose"
  <2>2. slot' = [slot EXCEPT !.blocks = <<>>, !.found = trusted, !.local = own, !.guessed = guessed]
        /\ (AskRegistry \/ SkipRegistry)
    BY <2>1, Zenon
  <2>3. \A line : findDigest(line) \subseteq Digests \union {NoDigest}
                  /\ Digest(line) \in Digests \union {NoDigest}
    BY DEF findDigest, Digest
  <2>4. trusted \in Digests \union {NoDigest} /\ own \in Digests \union {NoDigest}
    BY <2>3
  <2> HIDE DEF trusted, own, guessed
  <2>5. /\ slot' = [kind |-> slot.kind, blocks |-> <<>>, local |-> own, found |-> trusted,
                    guessed |-> guessed]
    <3>1. slot = [kind |-> slot.kind, blocks |-> slot.blocks, local |-> slot.local,
                  found |-> slot.found, guessed |-> slot.guessed]
      BY DEF SlotInv
    <3> QED
      BY <2>2, <3>1
  <2>6. check.pc = "host" /\ check'.pc # "idle" /\ tx' = tx /\ handler' = handler
    BY <1>2, <2>2 DEF ReadAnswer, AskRegistry, SkipRegistry, CheckInv, CheckType, txVars, streamVars
  <2>7. slot'.kind = slot.kind /\ slot'.local = own /\ slot'.found = trusted
    BY <2>5
  <2> QED
    BY <2>4, <2>5, <2>6, <2>7 DEF SlotInv
<1>3. CASE CheckRegistry
  <2>1. slot' = slot /\ tx' = tx /\ handler' = handler /\ slot.kind = "inspect"
    BY <1>3 DEF CheckRegistry, txVars, streamVars
  <2>2. check'.pc # "idle"
    <3> USE DEF CheckInv, CheckType
    <3>1. CASE Challenged \/ Granted \/ Unanswered \/ SearchEnds
      BY <3>1 DEF Challenged, Granted, Unanswered, SearchEnds
    <3>2. CASE \E page \in SUBSET Published : Listed(page)
      BY <3>2 DEF Listed
    <3>3. ASSUME NEW t \in check.left, Examine(t) PROVE check'.pc # "idle"
      BY <3>3 DEF Examine
    <3>4. CASE \E d \in Digests : DigestFound(d)
      BY <3>4 DEF DigestFound
    <3> QED
      BY <1>3, <3>1, <3>2, <3>3, <3>4 DEF CheckRegistry
  <2> QED
    BY <2>1, <2>2 DEF SlotInv
<1>4. CASE Update
  <2>1. slot' = slot /\ tx' = tx /\ check' = check
    BY <1>4 DEF Update, txVars, checkVars
  <2>2. handler' # "none" <=> handler # "none"
    <3>1. \A c : Copy(c) \/ CopyEnds(c) => handler' = handler
      BY DEF Copy, CopyEnds
    <3> QED
      BY <1>4, <3>1 DEF Update, CommandEnds, Expire, Abandon, Return, Collected, Succeed, Read,
         StreamEnds, Disconnect
  <2> QED
    BY <2>1, <2>2 DEF SlotInv
<1> QED
  BY <1>1, <1>2, <1>3, <1>4

(* A behaviour of the whole program keeps the invariants of its parts, and *)
(* what ties them together.                                                *)
LEMMA NextExchangeInv ==
    ASSUME ExchangeInv, [Next]_vars
    PROVE  ExchangeInv'
<1>1. KeyInv' /\ TxInv' /\ StreamInv'
  BY NextKeys, NextTx, NextStream, NextKeyInv, NextTxInv, NextStreamInv DEF ExchangeInv
<1>2. CheckInv' /\ HistoryInv'
  BY NextChecks, NextCheckInv, NextHistoryInv DEF ExchangeInv
<1>3. SlotInv'
  <2>1. CASE Start \/ Operate \/ Register
    BY <2>1 DEF Start, Operate, Register, ExchangeInv, SlotInv, checkVars, txVars, streamVars
  <2>2. CASE RegistryChanges
    <3>1. slot' = slot /\ tx' = tx /\ handler' = handler /\ check.pc # "idle" /\ check'.pc # "idle"
      BY <2>2 DEF RegistryChanges, Publish, ExchangeInv, CheckInv, CheckType, txVars, streamVars
    <3> QED
      BY <3>1 DEF ExchangeInv, SlotInv
  <2>3. CASE UNCHANGED vars
    BY <2>3 DEF vars, ExchangeInv, SlotInv, checkVars, txVars, streamVars
  <2> QED
    BY <2>1, <2>2, <2>3, HandlerKeepsSlot, ProgressKeepsSlot, Zenon DEF Next, Step
<1> QED
  BY <1>1, <1>2, <1>3 DEF ExchangeInv

(* No handler, at first.                                                   *)
LEMMA InitExchangeInv == Init => ExchangeInv
<1> SUFFICES ASSUME Init PROVE ExchangeInv
  OBVIOUS
<1>1. KeyInv /\ TxInv /\ StreamInv
  BY InitParts, InitKeyInv, InitTxInv, InitStreamInv
<1>2. catalog \in [Tags -> Digests \union {Gone}] /\ changes = 0 /\ check = NoCheck
  BY InitParts DEF CheckInit
<1>3. SlotInv
  BY <1>2 DEF Init, TxInit, StreamInit, NoSlot, NoTx, NoCheck, SlotInv
<1> QED
  BY <1>1, <1>2, <1>3, NoCheckInv, NoHistoryInv DEF ExchangeInv

(* Types, and that at any time at most the handler of one kind is at work  *)
(* and its part is the only one that is under way: through every failure   *)
(* and restart.                                                            *)
THEOREM TypeCorrect == Spec => []TypeOK
<1>1. Init => ExchangeInv
  BY InitExchangeInv
<1>2. ExchangeInv /\ [Next]_vars => ExchangeInv'
  BY NextExchangeInv
<1>3. ExchangeInv => TypeOK
  BY DEF ExchangeInv, TypeOK, KeyInv, TxInv, TxType, StreamInv, StreamType, CheckInv, CheckType,
     SearchInv, HistoryInv, SlotInv
<1> QED
  BY <1>1, <1>2, <1>3, PTL DEF Spec

(* Stored credentials, stored reports, streamed updates, the repositories  *)
(* that are asked, the versions offered and the digests reported are right *)
(* in the whole program, as they are in the parts.                         *)
THEOREM ExchangeIsSafe ==
    Spec => [](/\ CredentialsReadable
               /\ OneReport
               /\ QuietAfterReturn
               /\ CompleteIsLast
               /\ OfferIsNewest
               /\ AsksOwnRepository
               /\ DigestIsOfOffer)
BY PartsAreImplemented, CredentialsStayReadable, StoredAsOneReport, HandlersReturnQuietly,
   CompleteIsTheLastWord, NewestIsOffered, OwnRepositoryIsAsked, DigestsAreOfOffer, PTL

-----------------------------------------------------------------------------
(* The same four sections, one after the other.                            *)
LEMMA SectionsPlaced ==
    ASSUME NEW networks \in Seq(Line), NEW local \in Seq(Line), NEW remote \in Seq(Line), NEW out,
           Joins(out, Printed("NETWORKS", networks), Printed("MOUNTS", <<>>),
                 Printed("IMAGE_META", local), Printed("REGISTRY", remote))
    PROVE  LET m == Len(networks)
               n == m + Len(local)
           IN  /\ out \in Seq(Line) /\ Len(out) = n + Len(remote) + 8
               /\ PrintedAt(out, 0, m + 2, "NETWORKS", networks)
               /\ PrintedAt(out, m + 2, m + 4, "MOUNTS", <<>>)
               /\ PrintedAt(out, m + 4, n + 6, "IMAGE_META", local)
               /\ PrintedAt(out, n + 6, n + Len(remote) + 8, "REGISTRY", remote)
<1> DEFINE none == <<>>
           a == Printed("NETWORKS", networks)
           b == Printed("MOUNTS", none)
           c == Printed("IMAGE_META", local)
           d == Printed("REGISTRY", remote)
           m == Len(networks)
           l == Len(local)
           r == Len(remote)
<1>1. m \in Nat /\ l \in Nat /\ r \in Nat /\ none \in Seq(Line) /\ Len(none) = 0
  OBVIOUS
<1>2. "NETWORKS" \in Headers /\ "MOUNTS" \in Headers /\ "IMAGE_META" \in Headers /\ "REGISTRY" \in Headers
  BY Zenon DEF Headers
<1> HIDE DEF none, m, l, r
<1>3. /\ Len(a) = m + 2 /\ Len(b) = Len(none) + 2 /\ Len(c) = l + 2 /\ Len(d) = r + 2
  <2>1. /\ networks \in Seq(Line) /\ local \in Seq(Line) /\ remote \in Seq(Line)
        /\ \A h \in Headers, lines \in Seq(Line) : Len(Printed(h, lines)) = Len(lines) + 2
    BY SectionPrinted
  <2> QED
    BY ONLY <1>1, <1>2, <2>1, Zenon DEF m, l, r
<1>4. /\ out \in Seq(Line) /\ Len(out) = Len(a) + Len(b) + Len(c) + Len(d)
      /\ \A i \in 1..Len(a) : out[i] = a[i]
      /\ \A i \in 1..Len(b) : out[Len(a) + i] = b[i]
      /\ \A i \in 1..Len(c) : out[Len(a) + Len(b) + i] = c[i]
      /\ \A i \in 1..Len(d) : out[Len(a) + Len(b) + Len(c) + i] = d[i]
  <2>1. Joins(out, a, b, c, d)
    BY DEF none
  <2> HIDE DEF a, b, c, d
  <2> QED
    BY ONLY <2>1, FourPlaced
<1> DEFINE na == Len(a)
           nb == Len(b)
           nc == Len(c)
           nd == Len(d)
           w == Len(out)
<1> HIDE DEF na, nb, nc, nd, w
<1>5. na = m + 2 /\ nb = 2 /\ nc = l + 2 /\ nd = r + 2 /\ w = na + nb + nc + nd
  BY <1>1, <1>3, <1>4 DEF na, nb, nc, nd, w
<1>6. /\ na + nb = m + 4 /\ na + nb + nc = m + l + 6 /\ w = m + l + r + 8
      /\ m + 2 \in Nat /\ m + 4 \in Nat /\ m + l + 6 \in Nat
      /\ m + 2 <= w /\ m + 4 <= w /\ m + l + 6 <= w
  BY <1>1, <1>5
<1>7. PrintedAt(out, 0, m + 2, "NETWORKS", networks)
  <2>1. m + 2 = 0 + m + 2 /\ \A i \in 1..m + 2 : out[0 + i] = a[i]
    <3>1. m + 2 \in Nat /\ \A i \in 1..m + 2 : 0 + i = i
      BY <1>1
    <3> QED
      BY <1>1, <1>4, <1>5, <3>1 DEF na
  <2> QED
    BY <1>2, <1>4, <1>6, <2>1, PlacedSection DEF m, w
<1>8. PrintedAt(out, m + 2, m + 4, "MOUNTS", none)
  <2>1. m + 4 = m + 2 + Len(none) + 2 /\ \A i \in 1..Len(none) + 2 : out[m + 2 + i] = b[i]
    <3>1. m + 4 = m + 2 + Len(none) + 2 /\ Len(none) + 2 = nb
      BY <1>1, <1>5
    <3> QED
      BY <1>4, <1>5, <3>1 DEF na, nb
  <2> QED
    BY <1>1, <1>2, <1>4, <1>6, <2>1, PlacedSection DEF w
<1>9. PrintedAt(out, m + 4, m + l + 6, "IMAGE_META", local)
  <2>1. m + l + 6 = m + 4 + l + 2 /\ \A i \in 1..l + 2 : out[m + 4 + i] = c[i]
    <3>1. m + l + 6 = m + 4 + l + 2
      BY <1>1
    <3> QED
      BY <1>4, <1>5, <1>6, <3>1 DEF na, nb, nc
  <2> QED
    BY <1>2, <1>4, <1>6, <2>1, PlacedSection DEF l, w
<1>10. PrintedAt(out, m + l + 6, m + l + r + 8, "REGISTRY", remote)
  <2>1. /\ m + l + r + 8 = m + l + 6 + r + 2 /\ w <= w
        /\ \A i \in 1..r + 2 : out[m + l + 6 + i] = d[i]
    <3>1. m + l + r + 8 = m + l + 6 + r + 2 /\ w <= w
      BY <1>1, <1>6
    <3> QED
      BY <1>4, <1>5, <1>6, <3>1 DEF na, nb, nc, nd
  <2> QED
    BY <1>2, <1>4, <1>6, <2>1, PlacedSection DEF r, w
<1> QED
  BY <1>4, <1>6, <1>7, <1>8, <1>9, <1>10 DEF m, l, r, w, none

(* The four sections of an inspection, one after the other.                *)
LEMMA OutputPlaced ==
    ASSUME NEW networks \in Seq(Line), NEW local \in Seq(Line), NEW remote \in Seq(Line)
    PROVE  LET out == Written(Output(networks, local, remote))
               m == Len(networks)
               n == m + Len(local)
           IN  /\ out \in Seq(Line) /\ Len(out) = n + Len(remote) + 8
               /\ PrintedAt(out, 0, m + 2, "NETWORKS", networks)
               /\ PrintedAt(out, m + 2, m + 4, "MOUNTS", <<>>)
               /\ PrintedAt(out, m + 4, n + 6, "IMAGE_META", local)
               /\ PrintedAt(out, n + 6, n + Len(remote) + 8, "REGISTRY", remote)
<1> DEFINE a == Printed("NETWORKS", networks)
           b == Printed("MOUNTS", <<>>)
           c == Printed("IMAGE_META", local)
           d == Printed("REGISTRY", remote)
           seqs == <<a, b, c, d>>
           out == ((a \o b) \o c) \o d
<1>1. "NETWORKS" \in Headers /\ "MOUNTS" \in Headers /\ "IMAGE_META" \in Headers /\ "REGISTRY" \in Headers
  BY Zenon DEF Headers
<1>2. <<>> \in Seq(Line)
  OBVIOUS
<1>3. a \in Seq(Line) /\ b \in Seq(Line) /\ c \in Seq(Line) /\ d \in Seq(Line)
  BY <1>1, <1>2, SectionPrinted, Zenon
<1>4. Written(Output(networks, local, remote)) = FlattenSeq(seqs)
  <2> DEFINE blocks == Output(networks, local, remote)
  <2>1. Len(blocks) = 4
    BY DEF Output
  <2>2. /\ blocks[1].header = "NETWORKS" /\ blocks[1].lines = networks
        /\ blocks[2].header = "MOUNTS" /\ blocks[2].lines = <<>>
        /\ blocks[3].header = "IMAGE_META" /\ blocks[3].lines = local
        /\ blocks[4].header = "REGISTRY" /\ blocks[4].lines = remote
    BY DEF Output
  <2> HIDE DEF blocks
  <2>3. [i \in 1..4 |-> <<blocks[i].header>> \o blocks[i].lines \o <<Blank>>] = seqs
    <3> DEFINE f == [i \in 1..4 |-> <<blocks[i].header>> \o blocks[i].lines \o <<Blank>>]
    <3>1. \A i \in 1..4 : f[i] = <<blocks[i].header>> \o blocks[i].lines \o <<Blank>>
      OBVIOUS
    <3>2. f = [i \in 1..4 |-> f[i]]
      OBVIOUS
    <3>3. 1 \in 1..4 /\ 2 \in 1..4 /\ 3 \in 1..4 /\ 4 \in 1..4
      OBVIOUS
    <3> HIDE DEF f
    <3>4. f[1] = a /\ f[2] = b /\ f[3] = c /\ f[4] = d
      BY <2>2, <3>1, <3>3, Zenon DEF Printed
    <3> HIDE DEF a, b, c, d
    <3>5. f = seqs
      BY <3>2, <3>4
    <3> QED
      BY <3>5 DEF f, a, b, c, d
  <2> QED
    BY <2>1, <2>3 DEF Written, blocks
<1> HIDE DEF a, b, c, d
<1>5. FlattenSeq(seqs) = out
  <2>1. seqs \in Seq(Seq(Line)) /\ Len(seqs) = 4
    BY <1>3
  <2>2. seqs[1] = a /\ seqs[2] = b /\ seqs[3] = c /\ seqs[4] = d
    OBVIOUS
  <2>3. FlattenSeq(seqs) = ((seqs[1] \o seqs[2]) \o seqs[3]) \o seqs[4]
    BY <2>1, FourFlattened
  <2> QED
    BY <2>2, <2>3
<1>6. Written(Output(networks, local, remote)) = out
  BY <1>4, <1>5
<1> DEFINE w == Written(Output(networks, local, remote))
<1>7. Joins(w, a, b, c, d)
  BY <1>3, <1>6 DEF Joins
<1> HIDE DEF w
<1> QED
  BY <1>7, SectionsPlaced DEF w, a, b, c, d

(* The four sections of an inspection are read.                             *)
LEMMA OutputIsRead ==
    ASSUME NEW networks \in Seq(Line), NEW local \in Seq(Line), NEW remote \in Seq(Line),
           (ToSet(networks) \union ToSet(local) \union ToSet(remote))
              \intersect (Headers \union {Blank}) = {}
    PROVE  LET text == parseSections(Written(Output(networks, local, remote)))
           IN  /\ nonEmptyLines(text["NETWORKS"]) = networks
               /\ nonEmptyLines(text["MOUNTS"]) = <<>>
               /\ nonEmptyLines(text["IMAGE_META"]) = local
               /\ nonEmptyLines(text["REGISTRY"]) = remote
<1> DEFINE out == Written(Output(networks, local, remote))
           r == Reading(out)
           m == Len(networks)
           n == m + Len(local)
           z == n + Len(remote) + 8
           none == <<>>
           Plain(lines) == ToSet(lines) \intersect (Headers \union {Blank}) = {}
<1>1. m \in Nat /\ Len(local) \in Nat /\ Len(remote) \in Nat
  OBVIOUS
<1>2. n \in Nat /\ none \in Seq(Line) /\ ToSet(none) = {}
  BY <1>1 DEF ToSet
<1>3. m + 2 \in Nat /\ m + 4 \in Nat /\ n + 6 \in Nat /\ z \in Nat
  BY <1>1, <1>2
<1>4. /\ out \in Seq(Line) /\ Len(out) = z
      /\ PrintedAt(out, 0, m + 2, "NETWORKS", networks)
      /\ PrintedAt(out, m + 2, m + 4, "MOUNTS", none)
      /\ PrintedAt(out, m + 4, n + 6, "IMAGE_META", local)
      /\ PrintedAt(out, n + 6, z, "REGISTRY", remote)
  BY OutputPlaced
<1>5. /\ "NETWORKS" \in Headers /\ "MOUNTS" \in Headers /\ "IMAGE_META" \in Headers
      /\ "REGISTRY" \in Headers
  BY Zenon DEF Headers
<1>6. Plain(networks) /\ Plain(none) /\ Plain(local) /\ Plain(remote)
  BY <1>2
<1>7. \A h \in Headers : r[0].text[h] = none
  <2>1. Len(out) \in Nat
    BY <1>3, <1>4
  <2>2. r[0] = NothingRead
    BY <2>1, ReadingSteps
  <2> QED
    BY <2>2 DEF NothingRead
(* One section after the other.                                            *)
<1> DEFINE Unread(o, h) == r[o].text[h] = none
           IsRead(o, e, h, lines) == /\ nonEmptyLines(r[e].text[h]) = lines
                                     /\ \A g \in Headers \ {h} : r[e].text[g] = r[o].text[g]
<1>8. ASSUME NEW o \in Nat, NEW e, NEW h \in Headers, NEW lines \in Seq(Line),
             PrintedAt(out, o, e, h, lines), Plain(lines), Unread(o, h)
      PROVE  IsRead(o, e, h, lines)
  BY <1>4, <1>8, SectionIsRead
<1>9. parseSections(out) = r[z].text
  BY <1>4 DEF parseSections
<1> HIDE DEF out, r, m, n, z, none, Plain, Unread, IsRead
<1>10. /\ nonEmptyLines(r[m + 2].text["NETWORKS"]) = networks
       /\ \A g \in Headers \ {"NETWORKS"} : r[m + 2].text[g] = none
  <2>1. 0 \in Nat /\ networks \in Seq(Line) /\ Unread(0, "NETWORKS")
    BY <1>5, <1>7 DEF Unread
  <2>2. IsRead(0, m + 2, "NETWORKS", networks)
    BY ONLY <1>4, <1>5, <1>6, <1>8, <2>1
  <2> QED
    BY <1>7, <2>2 DEF IsRead
<1>11. /\ nonEmptyLines(r[m + 4].text["MOUNTS"]) = none
       /\ \A g \in Headers \ {"MOUNTS"} : r[m + 4].text[g] = r[m + 2].text[g]
  <2>1. Unread(m + 2, "MOUNTS")
    BY <1>5, <1>10 DEF Unread
  <2>2. IsRead(m + 2, m + 4, "MOUNTS", none)
    BY ONLY <1>2, <1>3, <1>4, <1>5, <1>6, <1>8, <2>1
  <2> QED
    BY <2>2 DEF IsRead
<1>12. /\ nonEmptyLines(r[n + 6].text["IMAGE_META"]) = local
       /\ \A g \in Headers \ {"IMAGE_META"} : r[n + 6].text[g] = r[m + 4].text[g]
  <2>1. local \in Seq(Line) /\ Unread(m + 4, "IMAGE_META")
    BY <1>5, <1>10, <1>11 DEF Unread
  <2>2. IsRead(m + 4, n + 6, "IMAGE_META", local)
    BY ONLY <1>3, <1>4, <1>5, <1>6, <1>8, <2>1
  <2> QED
    BY <2>2 DEF IsRead
<1>13. /\ nonEmptyLines(r[z].text["REGISTRY"]) = remote
       /\ \A g \in Headers \ {"REGISTRY"} : r[z].text[g] = r[n + 6].text[g]
  <2>1. remote \in Seq(Line) /\ Unread(n + 6, "REGISTRY")
    BY <1>5, <1>10, <1>11, <1>12 DEF Unread
  <2>2. IsRead(n + 6, z, "REGISTRY", remote)
    BY ONLY <1>3, <1>4, <1>5, <1>6, <1>8, <2>1
  <2> QED
    BY <2>2 DEF IsRead
<1>14. /\ r[z].text["NETWORKS"] = r[m + 2].text["NETWORKS"]
       /\ r[z].text["MOUNTS"] = r[m + 4].text["MOUNTS"]
       /\ r[z].text["IMAGE_META"] = r[n + 6].text["IMAGE_META"]
  BY <1>5, <1>11, <1>12, <1>13
<1> QED
  BY <1>9, <1>10, <1>11, <1>12, <1>13, <1>14 DEF out, none

(* Whatever the names of the networks are: a line of the last section that *)
(* is none of them was printed there.                                      *)
LEMMA RemoteIsRead ==
    ASSUME NEW networks \in Seq(Line), NEW local \in Seq(Line), NEW remote \in Seq(Line),
           Len(local) <= 1, NEW x \in Line, x # Blank, x \notin ToSet(networks),
           x \in ToSet(parseSections(Written(Output(networks, local, remote)))["REGISTRY"])
    PROVE  x \in ToSet(remote)
<1> DEFINE out == Written(Output(networks, local, remote))
           m == Len(networks)
           l == Len(local)
           n == m + l
           k == Len(remote)
           none == <<>>
<1>1. m \in Nat /\ l \in {0, 1} /\ k \in Nat /\ Len(none) = 0
  <2>1. l \in Nat /\ l <= 1
    OBVIOUS
  <2>2. m \in Nat /\ k \in Nat /\ Len(none) = 0
    OBVIOUS
  <2> HIDE DEF l, m, k, none
  <2> QED
    BY <2>1, <2>2
<1>2. /\ out \in Seq(Line) /\ Len(out) = n + k + 8
      /\ PrintedAt(out, 0, m + 2, "NETWORKS", networks)
      /\ PrintedAt(out, m + 2, m + 4, "MOUNTS", none)
      /\ PrintedAt(out, m + 4, n + 6, "IMAGE_META", local)
      /\ PrintedAt(out, n + 6, n + k + 8, "REGISTRY", remote)
  BY OutputPlaced
<1>3. /\ "NETWORKS" \in Headers /\ "MOUNTS" \in Headers /\ "IMAGE_META" \in Headers
      /\ "REGISTRY" \in Headers
  BY Zenon DEF Headers
<1>4. PICK j \in 1..Len(out) : /\ out[j] = x /\ x \notin Headers
                               /\ Reading(out)[j - 1].current = "REGISTRY"
  <2>1. x \in ToSet(parseSections(out)["REGISTRY"]) /\ out \in Seq(Line)
    BY <1>2
  <2> HIDE DEF out
  <2>2. PrintedIn(out, "REGISTRY", x)
    BY ONLY <1>3, <2>1, LinesHaveOrigin
  <2> QED
    BY <2>2 DEF PrintedIn
<1> HIDE DEF out, m, l, n, k, none
<1>5. /\ out[0 + 1] = "NETWORKS" /\ out[m + 2] = Blank
      /\ \A i \in 1..m : out[0 + 1 + i] = networks[i]
  BY <1>2 DEF PrintedAt, m
<1>6. out[m + 2 + 1] = "MOUNTS" /\ out[m + 4] = Blank
  BY <1>2 DEF PrintedAt
<1>7. out[m + 4 + 1] = "IMAGE_META" /\ out[n + 6] = Blank
  BY <1>2 DEF PrintedAt
<1>8. /\ out[n + 6 + 1] = "REGISTRY" /\ out[n + k + 8] = Blank
      /\ \A i \in 1..k : out[n + 6 + 1 + i] = remote[i]
  BY <1>2 DEF PrintedAt, k
<1>9. j \in Nat /\ j >= 1 /\ j <= n + k + 8
  BY <1>1, <1>2, <1>4 DEF n
<1>10. j \notin {1, m + 2, m + 3, m + 4, m + 5, n + 6, n + 7, n + k + 8}
  <2>1. 1 = 0 + 1 /\ m + 3 = m + 2 + 1 /\ m + 5 = m + 4 + 1 /\ n + 7 = n + 6 + 1
    BY <1>1 DEF n
  <2>2. out[1] \in Headers /\ out[m + 3] \in Headers /\ out[m + 5] \in Headers /\ out[n + 7] \in Headers
    BY <1>3, <1>5, <1>6, <1>7, <1>8, <2>1
  <2> QED
    BY <1>4, <1>5, <1>6, <1>7, <1>8, <2>2
<1>11. ~(j \in 2..m + 1)
  <2> SUFFICES ASSUME j \in 2..m + 1 PROVE FALSE
    OBVIOUS
  <2>1. j - 1 \in 1..m /\ 0 + 1 + (j - 1) = j
    BY <1>1
  <2>2. x = networks[j - 1]
    BY <1>4, <1>5, <2>1
  <2> QED
    BY <2>1, <2>2 DEF ToSet, m
<1>12. ~(l = 1 /\ j = m + 6)
  <2> SUFFICES ASSUME l = 1, j = m + 6 PROVE FALSE
    OBVIOUS
  <2>1. m + 5 \in 1..Len(out) /\ j - 1 = m + 5 /\ m + 4 + 1 = m + 5
    BY <1>1, <1>2, <1>9
  <2>2. out[m + 5] = "IMAGE_META"
    BY <1>7, <2>1
  <2> DEFINE r == Reading(out)
  <2>3. \A i \in 1..Len(out) : out[i] \in Headers => r[i].current = out[i]
    BY <1>2, ReadingLine
  <2> HIDE DEF r
  <2>4. r[m + 5].current = "IMAGE_META"
    BY <1>3, <2>1, <2>2, <2>3
  <2> QED
    BY <1>4, <2>1, <2>4 DEF r
<1>13. j - (n + 7) \in 1..k /\ n + 6 + 1 + (j - (n + 7)) = j
  BY <1>1, <1>9, <1>10, <1>11, <1>12 DEF n
<1>14. x = remote[j - (n + 7)]
  BY <1>4, <1>8, <1>13
<1> QED
  BY <1>13, <1>14 DEF ToSet, k

-----------------------------------------------------------------------------
(* What the registry has had under the reference of the image.             *)
HadNow == IF Current \in Tags THEN check.had[Current] ELSE {Current}

(* The machine prints what the registry has, and a digest that was read    *)
(* and not guessed is one that the registry had.                           *)
BlocksInv ==
    slot.blocks # <<>> =>
      /\ check.pc = "host"
      /\ \E networks \in Networks, local \in {<<>>} \union {<<d>> : d \in Digests},
            remote \in {<<>>, <<"verbose">>} \union {<<d>> : d \in HadNow \intersect (Digests \union {"latest"})} :
            slot.blocks = Output(networks, local, remote)

FoundInv ==
    slot.found # NoDigest /\ ~slot.guessed => check.pc # "idle" /\ slot.found \in HadNow

AnswerInv == BlocksInv /\ FoundInv

(* The lines that a machine prints.                                        *)
LEMMA PrintedLines ==
    ASSUME NEW networks \in Networks, NEW local \in {<<>>} \union {<<d>> : d \in Digests},
           NEW remote \in {<<>>, <<"verbose">>} \union {<<d>> : d \in Digests \union {"latest"}}
    PROVE  /\ networks \in Seq(Line) /\ local \in Seq(Line) /\ remote \in Seq(Line)
           /\ Len(local) <= 1
           /\ Blank \notin ToSet(networks) \union ToSet(local) \union ToSet(remote)
           /\ ToSet(networks) \intersect Digests = {}
           /\ \A x \in ToSet(remote) : remote = <<x>>
<1>1. networks \in Seq(Line) /\ Blank \notin ToSet(networks) /\ ToSet(networks) \intersect Digests = {}
  <2>1. networks \in Seq(STRING) /\ ToSet(networks) \intersect (Digests \union {Blank}) = {}
    BY LinesAssumption
  <2>2. \A seq \in Seq(STRING) : seq \in Seq(Line)
    BY DEF Line
  <2> QED
    BY <2>1, <2>2
<1>2. \A x \in Line : <<x>> \in Seq(Line) /\ Len(<<x>>) = 1 /\ ToSet(<<x>>) = {x}
  BY DEF ToSet
<1>3. <<>> \in Seq(Line) /\ Len(<<>>) = 0 /\ ToSet(<<>>) = {}
  BY DEF ToSet
<1>4. /\ "verbose" \in Line /\ "latest" \in Line /\ \A d \in Digests : d \in Line /\ d # Blank
  BY LinesAssumption DEF Line
<1>5. "verbose" # Blank /\ "latest" # Blank
  BY Zenon DEF Blank
<1>6. local \in Seq(Line) /\ Len(local) <= 1 /\ Blank \notin ToSet(local)
  <2>1. CASE local = <<>>
    BY <1>3, <2>1
  <2>2. ASSUME NEW d \in Digests, local = <<d>>
        PROVE  local \in Seq(Line) /\ Len(local) <= 1 /\ Blank \notin ToSet(local)
    BY <1>2, <1>4, <2>2
  <2> QED
    BY <2>1, <2>2
<1>7. remote \in Seq(Line) /\ Blank \notin ToSet(remote) /\ \A x \in ToSet(remote) : remote = <<x>>
  <2>1. CASE remote = <<>>
    BY <1>3, <2>1
  <2>2. ASSUME NEW d \in {"verbose", "latest"} \union Digests, remote = <<d>>
        PROVE  /\ remote \in Seq(Line) /\ Blank \notin ToSet(remote)
               /\ \A x \in ToSet(remote) : remote = <<x>>
    <3>1. d \in Line /\ d # Blank
      BY <1>4, <1>5
    <3>2. <<d>> \in Seq(Line) /\ ToSet(<<d>>) = {d}
      BY <1>2, <3>1
    <3> QED
      BY <2>2, <3>1, <3>2
  <2> QED
    BY <2>1, <2>2
<1> QED
  BY <1>1, <1>6, <1>7

(* While a check goes on, the registry's history only grows.               *)
LEMMA HistoryGrows ==
    ASSUME CheckInv, [CheckNext]_checkVars, check.pc # "idle", check'.pc # "idle"
    PROVE  check'.image = check.image /\ HadNow \subseteq HadNow'
<1>1. check'.image = check.image /\ \A t \in Tags : check.had[t] \subseteq check'.had[t]
  <2> USE DEF CheckInv, CheckType
  <2>1. ASSUME NEW t \in Tags, NEW d \in Digests \union {Gone}, Publish(t, d)
        PROVE  check'.image = check.image /\ \A u \in Tags : check.had[u] \subseteq check'.had[u]
    <3>1. check' = [check EXCEPT !.had[t] = check.had[t] \union ({d} \ {Gone})]
      BY <2>1, Zenon DEF Publish
    <3>2. /\ check'.image = check.image
          /\ check'.had = [check.had EXCEPT ![t] = check.had[t] \union ({d} \ {Gone})]
      BY <3>1
    <3>3. check.had \in [Tags -> SUBSET (Digests \union {Gone})]
      OBVIOUS
    <3> QED
      BY <3>2, <3>3
  <2>2. CASE \E image \in Images : BeginCheck(image)
    BY <2>2 DEF BeginCheck
  <2>3. CASE AskRegistry \/ SkipRegistry
    BY <2>3 DEF AskRegistry, SkipRegistry
  <2>4. CASE Challenged \/ Granted
    BY <2>4 DEF Challenged, Granted
  <2>5. CASE Unanswered
    BY <2>5 DEF Unanswered
  <2>6. CASE SearchEnds
    BY <2>6 DEF SearchEnds
  <2>7. CASE EndCheck \/ DropCheck
    BY <2>7 DEF EndCheck, DropCheck, NoCheck
  <2>8. CASE \E page \in SUBSET Published : Listed(page)
    BY <2>8 DEF Listed
  <2>9. ASSUME NEW t \in Tags, Examine(t)
        PROVE  check'.image = check.image /\ \A u \in Tags : check.had[u] \subseteq check'.had[u]
    <3>1. PICK best : check' = [check EXCEPT !.left = check.left \ {t}, !.best = best]
      BY <2>9, Zenon DEF Examine
    <3> QED
      BY <3>1
  <2>10. CASE \E d \in Digests : DigestFound(d)
    BY <2>10 DEF DigestFound
  <2>11. CASE UNCHANGED checkVars
    BY <2>11 DEF checkVars
  <2> QED
    BY <2>1, <2>2, <2>3, <2>4, <2>5, <2>6, <2>7, <2>8, <2>9, <2>10, <2>11,
     Zenon DEF CheckNext
<1> QED
  BY <1>1 DEF HadNow, Current

(* A handler that begins or ends has nothing read, and one that goes on    *)
(* without new output keeps what it has.                                   *)
LEMMA AnswerKept ==
    /\ slot'.blocks = <<>> /\ slot'.found = NoDigest => AnswerInv'
    /\ AnswerInv /\ slot' = slot /\ check' = check => AnswerInv'
    /\ CheckInv /\ AnswerInv /\ [CheckNext]_checkVars /\ slot' = slot
         /\ check.pc # "idle" /\ check'.pc # "idle" /\ (check.pc = "host" => check'.pc = "host")
       => AnswerInv'
<1>1. slot'.blocks = <<>> /\ slot'.found = NoDigest => AnswerInv'
  BY DEF AnswerInv, BlocksInv, FoundInv
<1>2. AnswerInv /\ slot' = slot /\ check' = check => AnswerInv'
  BY DEF AnswerInv, BlocksInv, FoundInv, HadNow, Current
<1>3. ASSUME CheckInv, AnswerInv, [CheckNext]_checkVars, slot' = slot,
             check.pc # "idle", check'.pc # "idle", check.pc = "host" => check'.pc = "host"
      PROVE  AnswerInv'
  <2>1. HadNow \subseteq HadNow'
    BY <1>3, HistoryGrows
  <2>2. BlocksInv'
    BY <1>3, <2>1 DEF AnswerInv, BlocksInv
  <2>3. FoundInv'
    BY <1>3, <2>1 DEF AnswerInv, FoundInv
  <2> QED
    BY <2>2, <2>3 DEF AnswerInv
<1> QED
  BY <1>1, <1>2, <1>3

(* A digest that is found in the last section is printed there: not the    *)
(* local one, not a name of a network.                                     *)
LEMMA FoundIsPrinted ==
    ASSUME AnswerInv, slot.blocks # <<>>, Value(sections["REGISTRY"]) \in Digests
    PROVE  Value(sections["REGISTRY"]) \in HadNow \union {"verbose"}
<1> DEFINE text == sections["REGISTRY"]
           x == Value(text)
<1>1. PICK networks \in Networks, local \in {<<>>} \union {<<d>> : d \in Digests},
           remote \in {<<>>, <<"verbose">>}
                        \union {<<d>> : d \in HadNow \intersect (Digests \union {"latest"})} :
        slot.blocks = Output(networks, local, remote)
  BY DEF AnswerInv, BlocksInv
<1>2. remote \in {<<>>, <<"verbose">>} \union {<<d>> : d \in Digests \union {"latest"}}
  BY <1>1
<1>3. /\ networks \in Seq(Line) /\ local \in Seq(Line) /\ remote \in Seq(Line) /\ Len(local) <= 1
      /\ ToSet(networks) \intersect Digests = {} /\ \A y \in ToSet(remote) : remote = <<y>>
  BY <1>2, PrintedLines
<1> DEFINE out == Written(Output(networks, local, remote))
<1>4. text = parseSections(out)["REGISTRY"] /\ out \in Seq(Line) /\ Len(out) \in Nat
  BY <1>1, <1>3, OutputPlaced DEF sections
<1>5. text \in Seq(Line)
  <2>1. "REGISTRY" \in Headers
    BY Zenon DEF Headers
  <2>2. Reading(out)[Len(out)] \in Accumulator
    <3> HIDE DEF out
    <3> QED
      BY <1>4, ReadingType
  <2> HIDE DEF out
  <2> QED
    BY <1>4, <2>1, <2>2 DEF parseSections, Accumulator
<1> HIDE DEF text
<1>6. x \in ToSet(text) /\ x \in Line /\ x # Blank /\ x \in Digests
  <2>1. nonEmptyLines(text) \in Seq(Line) /\ ToSet(nonEmptyLines(text)) \subseteq ToSet(text)
    BY <1>5, KeptIsThere
  <2>2. x \in Digests /\ Blank \notin Digests
    BY LinesAssumption DEF text
  <2>3. Len(nonEmptyLines(text)) = 1 /\ x = nonEmptyLines(text)[1]
    BY <2>2 DEF Value
  <2>4. x \in ToSet(nonEmptyLines(text))
    BY <2>3 DEF ToSet
  <2> QED
    BY <2>1, <2>2, <2>4 DEF Line
<1> HIDE DEF x
<1>7. x \in ToSet(remote)
  <2>1. x \notin ToSet(networks)
    BY <1>3, <1>6
  <2>2. x \in ToSet(parseSections(Written(Output(networks, local, remote)))["REGISTRY"])
    BY <1>4, <1>6
  <2> QED
    BY <1>3, <1>6, <2>1, <2>2, RemoteIsRead
<1>8. remote = <<x>>
  BY <1>3, <1>7
<1>9. x \in HadNow \union {"verbose"}
  BY <1>1, <1>8
<1> QED
  BY <1>9 DEF x, text

(* What the handler reads.                                                 *)
LEMMA ReadKeepsAnswer ==
    ASSUME ExchangeInv, AnswerInv, ReadAnswer
    PROVE  AnswerInv'
<1> DEFINE x == Value(sections["REGISTRY"])
<1>1. PICK found \in findDigest(x) :
        LET trusted == IF Semantic(check.image) THEN NoDigest ELSE found
        IN  /\ slot' = [slot EXCEPT !.blocks = <<>>, !.found = trusted,
                                    !.local = Digest(Value(sections["IMAGE_META"])),
                                    !.guessed = Value(sections["REGISTRY"]) = "verbose"]
            /\ IF trusted = NoDigest THEN AskRegistry ELSE SkipRegistry
  BY Zenon DEF ReadAnswer
<1> DEFINE trusted == IF Semantic(check.image) THEN NoDigest ELSE found
           own == Digest(Value(sections["IMAGE_META"]))
           guessed == x = "verbose"
<1>2. /\ slot' = [slot EXCEPT !.blocks = <<>>, !.found = trusted, !.local = own, !.guessed = guessed]
      /\ AskRegistry \/ SkipRegistry
  BY <1>1, Zenon
<1>3. slot.blocks # <<>> /\ check.pc = "host"
  BY DEF ReadAnswer, AnswerInv, BlocksInv
<1>4. trusted # NoDigest /\ ~guessed => trusted \in HadNow
  <2> SUFFICES ASSUME trusted # NoDigest, ~guessed PROVE trusted \in HadNow
    OBVIOUS
  <2>1. trusted = found /\ found \in findDigest(x) /\ x # "verbose"
    BY <1>1
  <2>2. found = Digest(x)
    BY <2>1 DEF findDigest
  <2>3. found = x /\ x \in Digests
    BY <2>1, <2>2 DEF Digest
  <2>4. x \in HadNow \union {"verbose"}
    BY <1>3, <2>3, FoundIsPrinted
  <2> QED
    BY <2>1, <2>3, <2>4
<1>5. check'.pc # "idle" /\ HadNow \subseteq HadNow'
  <2>1. check'.pc # "idle"
    BY <1>2 DEF ExchangeInv, CheckInv, CheckType, AskRegistry, SkipRegistry
  <2>2. [CheckNext]_checkVars
    BY <1>2 DEF CheckNext
  <2> QED
    BY <1>3, <2>1, <2>2, HistoryGrows DEF ExchangeInv
<1> HIDE DEF trusted, own, guessed
<1>6. slot'.blocks = <<>> /\ slot'.found = trusted /\ slot'.guessed = guessed
  <2>1. slot = [kind |-> slot.kind, blocks |-> slot.blocks, local |-> slot.local,
                found |-> slot.found, guessed |-> slot.guessed]
    BY DEF ExchangeInv, SlotInv
  <2>2. slot' = [kind |-> slot.kind, blocks |-> <<>>, local |-> own, found |-> trusted,
                 guessed |-> guessed]
    BY <1>2, <2>1
  <2> QED
    BY <2>2
<1> QED
  BY <1>4, <1>5, <1>6 DEF AnswerInv, BlocksInv, FoundInv

(* What the machine prints.                                                *)
LEMMA AnswerIsPrinted ==
    ASSUME ExchangeInv, AnswerInv, NEW networks \in Networks,
           NEW local \in {<<>>} \union {<<d>> : d \in Digests}, Answers(networks, local)
    PROVE  AnswerInv'
<1>1. PICK remote \in Remote : slot' = [slot EXCEPT !.blocks = Output(networks, local, remote)]
  BY Zenon DEF Answers
<1>2. check' = check /\ check.pc = "host"
  BY DEF Answers, checkVars
<1>3. remote \in {<<>>, <<"verbose">>}
                  \union {<<d>> : d \in HadNow \intersect (Digests \union {"latest"})}
  <2> DEFINE d == IF Current \in Tags THEN catalog[Current] ELSE Current
  <2>1. remote \in {<<>>, <<"verbose">>} \union IF d = Gone THEN {} ELSE {<<d>>}
    BY DEF Remote, Current
  <2>2. d # Gone => d \in HadNow \intersect (Digests \union {"latest"})
    <3> SUFFICES ASSUME d # Gone PROVE d \in HadNow \intersect (Digests \union {"latest"})
      OBVIOUS
    <3>1. check.image \in Images
      BY <1>2 DEF ExchangeInv, HistoryInv
    <3>2. Current \in {"latest"} \union Tags \union Digests
      BY <3>1, NameParts, ImagesAssumption DEF Current
    <3>3. CASE Current \in Tags
      <4>1. catalog[Current] \in Digests /\ catalog[Current] \in check.had[Current]
        BY <1>2, <3>3 DEF ExchangeInv, CheckInv, HistoryInv
      <4> QED
        BY <3>3, <4>1 DEF HadNow
    <3>4. CASE Current \notin Tags
      BY <3>2, <3>4 DEF HadNow
    <3> QED
      BY <3>3, <3>4
  <2> HIDE DEF d
  <2> QED
    BY <2>1, <2>2
<1>4. slot'.blocks = Output(networks, local, remote) /\ slot'.found = slot.found
      /\ slot'.guessed = slot.guessed
  BY <1>1 DEF ExchangeInv, SlotInv
<1>5. HadNow' = HadNow
  BY <1>2 DEF HadNow, Current
<1>6. BlocksInv'
  BY <1>2, <1>3, <1>4, <1>5 DEF BlocksInv
<1>7. FoundInv'
  BY <1>2, <1>4, <1>5 DEF AnswerInv, FoundInv
<1> QED
  BY <1>6, <1>7 DEF AnswerInv

(* Every step of the program.                                              *)
LEMMA NextAnswerInv ==
    ASSUME ExchangeInv, AnswerInv, [Next]_vars
    PROVE  AnswerInv'
<1>1. [CheckNext]_checkVars /\ CheckInv
  BY NextChecks DEF ExchangeInv
<1>2. NoSlot = Fresh("none") /\ \A k : [NoSlot EXCEPT !.kind = k] = Fresh(k)
  BY Connected
<1>3. \A k : Fresh(k).blocks = <<>> /\ Fresh(k).found = NoDigest
  BY DEF Fresh
<1>4. CASE Stop \/ StartCollect \/ SSHFails \/ EndInspect \/ EndUpdate
           \/ \E image \in Images : StartInspect(image)
  <2>1. slot' = NoSlot \/ \E k : slot' = [NoSlot EXCEPT !.kind = k]
    BY <1>4, Zenon DEF Stop, StartCollect, SSHFails, EndInspect, EndUpdate, StartInspect, Connect, End
  <2>2. PICK k : slot' = Fresh(k)
    BY <1>2, <2>1, Zenon
  <2> QED
    BY <1>3, <2>2, AnswerKept
<1>5. CASE Collect \/ StartUpdate
  <2>1. /\ check' = check
        /\ slot' = slot \/ slot' = NoSlot \/ slot' = [NoSlot EXCEPT !.kind = "update"]
    BY <1>5 DEF Collect, StartUpdate, Connect, End, checkVars
  <2>2. slot' = slot \/ slot' = Fresh("none") \/ slot' = Fresh("update")
    BY <1>2, <2>1, Zenon
  <2> QED
    BY <1>3, <2>1, <2>2, AnswerKept
<1>6. CASE Start \/ Operate \/ Register \/ Update \/ UNCHANGED vars
  <2>1. slot' = slot /\ check' = check
    BY <1>6 DEF Start, Operate, Register, Update, vars, checkVars
  <2> QED
    BY <2>1, AnswerKept
<1>7. CASE RegistryChanges \/ CheckRegistry
  <2>1. slot' = slot
    BY <1>7 DEF RegistryChanges, CheckRegistry
  <2>2. check.pc # "idle" /\ check'.pc # "idle" /\ (check.pc = "host" => check'.pc = "host")
    <3> USE DEF CheckInv, CheckType
    <3>1. CASE RegistryChanges
      BY <1>1, <3>1 DEF RegistryChanges, Publish
    <3>2. CASE Challenged \/ Granted \/ Unanswered \/ SearchEnds
      BY <1>1, <3>2 DEF Challenged, Granted, Unanswered, SearchEnds
    <3>3. CASE \E page \in SUBSET Published : Listed(page)
      BY <1>1, <3>3 DEF Listed
    <3>4. ASSUME NEW t \in check.left, Examine(t)
          PROVE  check.pc # "idle" /\ check'.pc # "idle" /\ (check.pc = "host" => check'.pc = "host")
      BY <1>1, <3>4 DEF Examine
    <3>5. CASE \E d \in Digests : DigestFound(d)
      BY <1>1, <3>5 DEF DigestFound
    <3> QED
      BY <1>7, <3>1, <3>2, <3>3, <3>4, <3>5 DEF CheckRegistry
  <2> QED
    BY <1>1, <2>1, <2>2, AnswerKept
<1> QED
  BY <1>4, <1>5, <1>6, <1>7, AnswerIsPrinted, ReadKeepsAnswer, Zenon DEF Next, Step

(* Invariants of every behaviour.                                          *)
LEMMA AlwaysAnswerInv == Spec => [](ExchangeInv /\ AnswerInv)
<1>1. Init => ExchangeInv
  BY InitExchangeInv
<1>2. Init => AnswerInv
  BY DEF Init, NoSlot, AnswerInv, BlocksInv, FoundInv
<1>3. ExchangeInv /\ AnswerInv /\ [Next]_vars => (ExchangeInv /\ AnswerInv)'
  BY NextExchangeInv, NextAnswerInv
<1> QED
  BY <1>1, <1>2, <1>3, PTL DEF Spec

(* Every section that a machine prints is read back as it was, unless one  *)
(* of its lines, the name of a network, is a header.                       *)
THEOREM OwnSectionsAreRead == Spec => []SectionsAreOwn
<1>1. AnswerInv => SectionsAreOwn
  <2> SUFFICES ASSUME AnswerInv, NEW i \in 1..Len(slot.blocks),
                      \A j \in 1..Len(slot.blocks) :
                         ToSet(slot.blocks[j].lines) \intersect Headers = {}
               PROVE  nonEmptyLines(sections[slot.blocks[i].header]) = slot.blocks[i].lines
    BY DEF SectionsAreOwn
  <2>1. slot.blocks # <<>>
    OBVIOUS
  <2>2. PICK networks \in Networks, local \in {<<>>} \union {<<d>> : d \in Digests},
             remote \in {<<>>, <<"verbose">>}
                          \union {<<d>> : d \in HadNow \intersect (Digests \union {"latest"})} :
          slot.blocks = Output(networks, local, remote)
    BY <2>1 DEF AnswerInv, BlocksInv
  <2>3. remote \in {<<>>, <<"verbose">>} \union {<<d>> : d \in Digests \union {"latest"}}
    BY <2>2
  <2>4. /\ networks \in Seq(Line) /\ local \in Seq(Line) /\ remote \in Seq(Line)
        /\ Blank \notin ToSet(networks) \union ToSet(local) \union ToSet(remote)
    BY <2>3, PrintedLines
  <2> DEFINE b == slot.blocks
  <2>5. /\ Len(b) = 4
        /\ b[1].header = "NETWORKS" /\ b[1].lines = networks
        /\ b[2].header = "MOUNTS" /\ b[2].lines = <<>>
        /\ b[3].header = "IMAGE_META" /\ b[3].lines = local
        /\ b[4].header = "REGISTRY" /\ b[4].lines = remote
    BY <2>2 DEF Output
  <2>6. \A j \in 1..Len(b) : ToSet(b[j].lines) \intersect Headers = {}
    OBVIOUS
  <2>7. sections = parseSections(Written(Output(networks, local, remote)))
    BY <2>2 DEF sections
  <2>8. i \in 1..Len(b)
    OBVIOUS
  <2> HIDE DEF b
  <2>9. (ToSet(networks) \union ToSet(local) \union ToSet(remote)) \intersect (Headers \union {Blank}) = {}
    <3>1. 1 \in 1..Len(b) /\ 3 \in 1..Len(b) /\ 4 \in 1..Len(b)
      BY <2>5
    <3>2. /\ ToSet(networks) \intersect Headers = {} /\ ToSet(local) \intersect Headers = {}
          /\ ToSet(remote) \intersect Headers = {}
      BY <2>5, <2>6, <3>1
    <3> QED
      BY <2>4, <3>2
  <2>10. /\ nonEmptyLines(sections["NETWORKS"]) = networks
         /\ nonEmptyLines(sections["MOUNTS"]) = <<>>
         /\ nonEmptyLines(sections["IMAGE_META"]) = local
         /\ nonEmptyLines(sections["REGISTRY"]) = remote
    BY <2>4, <2>7, <2>9, OutputIsRead
  <2>11. i = 1 \/ i = 2 \/ i = 3 \/ i = 4
    BY <2>5, <2>8
  <2>12. nonEmptyLines(sections[b[i].header]) = b[i].lines
    BY <2>5, <2>10, <2>11
  <2> QED
    BY <2>12 DEF b
<1> QED
  BY <1>1, AlwaysAnswerInv, PTL

(* Whatever failed, moved or was misread: of an image without a semantic   *)
(* tag it is only said that it is current, or that there is an update, if  *)
(* the registry had the machine's digest, or another, during the check.    *)
THEOREM VerdictsHold == Spec => []VerdictHolds
<1>1. ExchangeInv /\ AnswerInv => VerdictHolds
  <2> SUFFICES ASSUME ExchangeInv, AnswerInv, slot.kind = "inspect", check.pc = "done",
                      ~Semantic(check.image), ~slot.guessed
               PROVE  /\ Verdict = "no" => slot.local \in HadNow
                      /\ Verdict = "yes" => slot.local # NoDigest /\ HadNow \ {slot.local} # {}
    BY DEF VerdictHolds, HadNow
  <2>1. RegistryDigest # NoDigest => RegistryDigest \in HadNow
    <3>1. CASE slot.found # NoDigest
      BY <3>1 DEF RegistryDigest, AnswerInv, FoundInv
    <3>2. CASE slot.found = NoDigest
      <4>1. check.best = NoTag
        BY DEF ExchangeInv, CheckInv, SearchInv
      <4>2. check.digest # NoDigest => check.digest \in HadNow
        BY <4>1 DEF ExchangeInv, HistoryInv, DigestIsOfOffer, HadNow
      <4> QED
        BY <3>2, <4>2 DEF RegistryDigest
    <3> QED
      BY <3>1, <3>2
  <2>2. Verdict = IF NoDigest \in {slot.local, RegistryDigest} THEN "kept"
                  ELSE IF slot.local # RegistryDigest THEN "yes" ELSE "no"
    BY DEF Verdict
  <2> QED
    BY <2>1, <2>2
<1> QED
  BY <1>1, AlwaysAnswerInv, PTL

=============================================================================
