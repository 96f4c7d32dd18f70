------------------------- MODULE MachineDialogProofs -------------------------
(***************************************************************************)
(* Proofs about MachineDialog and the SSHKeys it is composed with, for any *)
(* number of hosts, keys, requests and tests.                              *)
(***************************************************************************)
EXTENDS MachineDialog, TLAPS

(* What a registration has in hand: the key or the secret that was sent,   *)
(* and after the read always a secret.                                     *)
CallsAreWhole ==
    \A c \in Calls :
        /\ calls[c].pc = "sent" => (calls[c].key = NoKey <=> calls[c].secret # NoSecret)
        /\ calls[c].pc = "read" => calls[c].secret \in Secrets
        /\ calls[c].pc \in {"sent", "read"} => calls[c].host \in Hosts

(* A test under way has a key to read or a secret to try.                  *)
TestsAreWhole ==
    \A t \in Tests : tests[t] # NoTest /\ tests[t].key = NoKey => tests[t].secret \in Secrets

TypeInv == TypeOK /\ CallsAreWhole /\ TestsAreWhole

(* The key that a registration has read is still the one with its id, or   *)
(* is gone, unless the id was reissued.                                    *)
Holds(k, s) == keys[k] = s \/ keys[k] = NoSecret

ReadIsKey ==
    \A c \in Calls : calls[c].pc = "read" /\ calls[c].key # NoKey /\ ~calls[c].reissued
                        => Holds(calls[c].key, calls[c].secret)

KeysInv == KeysInUseStay /\ CredentialIsKey /\ ReadIsKey

(* The secret that the form stands for is s, or its key is gone.           *)
FormMeans(s) == IF form.key = NoKey THEN form.password = s ELSE Holds(form.key, s)

(* A test that was not overtaken tries what the form stands for.           *)
TestsAreOfForm ==
    \A t \in Tests : tests[t] # NoTest /\ ~tests[t].excused =>
        /\ tests[t].host = form.host
        /\ IF tests[t].key # NoKey THEN form.key = tests[t].key ELSE FormMeans(tests[t].secret)

(* connectionVerified tells the truth about the form, unless overtaken.    *)
VerifiedIsForm ==
    verified => /\ basis.proof \in Proof
                /\ ~basis.excused => /\ basis.proof.host = form.host
                                     /\ FormMeans(basis.proof.secret)

(* A post that was not overtaken registers what was tested.                *)
PostsAreTested ==
    \A c \in Calls : posts[c] # NoProof =>
        /\ calls[c].op = "register" /\ calls[c].pc \in {"sent", "read"}
        /\ posts[c].proof \in Proof
        /\ ~posts[c].excused =>
              /\ calls[c].host = posts[c].proof.host
              /\ IF calls[c].pc = "sent" /\ calls[c].key # NoKey
                 THEN Holds(calls[c].key, posts[c].proof.secret)
                 ELSE calls[c].secret = posts[c].proof.secret

DialogInv == TestsAreOfForm /\ VerifiedIsForm /\ PostsAreTested /\ SavedIsTestedUnlessOvertaken

-----------------------------------------------------------------------------
(* Records that the actions build.                                         *)
LEMMA Values ==
    /\ NoCall \in Call
    /\ NoPost \in Post
    /\ NoMachine \notin Machine
    /\ Blank \in [host : Hosts \union {NoHost}, key : {NoKey} \union KeyIds,
                  password : Passwords \union {NoSecret}]
BY NoMachineAssumption DEF Blank, NoCall, Call, NoPost, Post, NoKey

(* The initial state has the types.                                        *)
LEMMA InitType == Init => TypeInv
<1> SUFFICES ASSUME Init PROVE TypeInv
  OBVIOUS
<1> USE DEF Init, KeysInit
<1>1. KeysTypeOK
  BY Values DEF KeysTypeOK
<1>2. TypeOK
  BY <1>1, Values DEF TypeOK, Blank, NoKey
<1>3. CallsAreWhole
  BY DEF CallsAreWhole, NoCall
<1>4. TestsAreWhole
  BY DEF TestsAreWhole
<1> QED
  BY <1>2, <1>3, <1>4 DEF TypeInv

(* Overtaking a test excuses it and changes nothing else.                  *)
LEMMA OvertakenTests ==
    ASSUME TypeOK
    PROVE  /\ Overtaken \in [Tests -> Test \union {NoTest}]
           /\ \A t \in Tests : Overtaken[t] # NoTest =>
                 /\ tests[t] # NoTest
                 /\ Overtaken[t].excused
                 /\ Overtaken[t].key = tests[t].key
                 /\ Overtaken[t].secret = tests[t].secret
<1> SUFFICES ASSUME NEW t \in Tests
             PROVE  /\ Overtaken[t] \in Test \union {NoTest}
                    /\ Overtaken[t] # NoTest =>
                         /\ tests[t] # NoTest
                         /\ Overtaken[t].excused
                         /\ Overtaken[t].key = tests[t].key
                         /\ Overtaken[t].secret = tests[t].secret
  BY DEF Overtaken
<1>1. CASE tests[t] = NoTest
  BY <1>1 DEF Overtaken
<1>2. CASE tests[t] # NoTest
  <2>1. tests[t] \in Test
    BY <1>2 DEF TypeOK
  <2>2. Overtaken[t] = [tests[t] EXCEPT !.excused = TRUE]
    BY <1>2 DEF Overtaken
  <2> QED
    BY <1>2, <2>1, <2>2 DEF Test
<1> QED
  BY <1>1, <1>2

(* resetMachineDialog keeps the types.                                     *)
LEMMA ResetType ==
    ASSUME TypeInv, ResetDialog
    PROVE  /\ form' = Blank /\ testing' = FALSE /\ verified' = FALSE /\ basis' = NoPost
           /\ tests' \in [Tests -> Test \union {NoTest}]
           /\ TestsAreWhole'
<1>1. tests' = Overtaken
  BY DEF ResetDialog
<1>2. TestsAreWhole'
  BY <1>1, OvertakenTests DEF TestsAreWhole, TypeInv
<1> QED
  BY <1>1, <1>2, OvertakenTests DEF ResetDialog, Invalidate, TypeInv

(* The steps of the server keep the types of its variables.                *)
LEMMA KeyStepType ==
    ASSUME TypeInv,
           \/ \E k \in KeyIds, s \in PrivateKeys : SaveKey(k, s)
           \/ \E c \in Calls, k \in KeyIds : CountUses(c, k)
           \/ \E c \in Calls : RemoveKey(c) \/ ReadKey(c) \/ KeyNotFound(c) \/ InsertFails(c)
           \/ \E c \in Calls, m \in Machines : Insert(c, m)
           \/ \E m \in Machines : DeleteMachine(m)
           \/ UNCHANGED keyVars
    PROVE  KeysTypeOK' /\ CallsAreWhole'
<1> USE DEF TypeInv, TypeOK, KeysTypeOK
<1>0. \A c \in Calls : calls' = [calls EXCEPT ![c] = NoCall]
                          => calls' \in [Calls -> Call] /\ CallsAreWhole'
  BY Values DEF NoCall, CallsAreWhole
<1>1. ASSUME NEW k \in KeyIds, NEW s \in PrivateKeys, SaveKey(k, s)
      PROVE  KeysTypeOK' /\ CallsAreWhole'
  <2>1. \A c \in Calls : /\ calls'[c] \in Call
                         /\ calls'[c].pc = calls[c].pc
                         /\ calls'[c].key = calls[c].key
                         /\ calls'[c].secret = calls[c].secret
                         /\ calls'[c].host = calls[c].host
    <3> SUFFICES ASSUME NEW c \in Calls
                 PROVE  /\ calls'[c] \in Call
                        /\ calls'[c].pc = calls[c].pc
                        /\ calls'[c].key = calls[c].key
                        /\ calls'[c].secret = calls[c].secret
                        /\ calls'[c].host = calls[c].host
      OBVIOUS
    <3> DEFINE b == calls[c].reissued \/ (calls[c].pc = "read" /\ calls[c].key = k)
    <3>1. calls'[c] = [calls[c] EXCEPT !.reissued = b]
      BY <1>1, Zenon DEF SaveKey
    <3>2. calls[c] \in Call
      OBVIOUS
    <3>3. b \in BOOLEAN
      OBVIOUS
    <3> HIDE DEF b
    <3> QED
      BY <3>1, <3>2, <3>3 DEF Call
  <2>2. KeysTypeOK'
    BY <1>1, <2>1 DEF SaveKey
  <2> QED
    BY <2>1, <2>2 DEF CallsAreWhole
<1>2. ASSUME NEW c \in Calls, NEW k \in KeyIds, CountUses(c, k)
      PROVE  KeysTypeOK' /\ CallsAreWhole'
  BY <1>2 DEF CountUses, NoCall, Call, CallsAreWhole
<1>3. ASSUME NEW c \in Calls, RemoveKey(c)
      PROVE  KeysTypeOK' /\ CallsAreWhole'
  BY <1>0, <1>3 DEF RemoveKey
<1>4. ASSUME NEW c \in Calls, ReadKey(c)
      PROVE  KeysTypeOK' /\ CallsAreWhole'
  <2> DEFINE s == IF calls[c].key = NoKey THEN calls[c].secret ELSE keys[calls[c].key]
  <2>1. s \in Secrets
    <3>1. CASE calls[c].key = NoKey
      <4>1. calls[c].secret # NoSecret
        BY <1>4, <3>1 DEF ReadKey, CallsAreWhole
      <4> QED
        BY <3>1, <4>1 DEF Call
    <3>2. CASE calls[c].key # NoKey
      <4>1. calls[c].key \in KeyIds /\ keys[calls[c].key] # NoSecret
        BY <1>4, <3>2 DEF ReadKey, Stored
      <4> QED
        BY <3>2, <4>1 DEF Secrets
    <3> QED
      BY <3>1, <3>2
  <2>2. /\ calls'[c] \in Call
        /\ calls'[c].pc = "read" /\ calls'[c].secret \in Secrets
        /\ calls'[c].host = calls[c].host
    <3>1. calls[c] \in Call
      OBVIOUS
    <3>2. calls' = [calls EXCEPT ![c] = [calls[c] EXCEPT !.pc = "read", !.secret = s]]
      BY <1>4 DEF ReadKey
    <3> HIDE DEF s
    <3> QED
      BY <2>1, <3>1, <3>2 DEF Call
  <2>3. \A d \in Calls : d # c => calls'[d] = calls[d]
    BY <1>4 DEF ReadKey
  <2>4. KeysTypeOK'
    BY <1>4, <2>2, <2>3 DEF ReadKey
  <2>5. calls[c].host \in Hosts
    BY <1>4 DEF ReadKey, CallsAreWhole
  <2>6. CallsAreWhole'
    <3> SUFFICES ASSUME NEW d \in Calls
                 PROVE  /\ calls'[d].pc = "sent" => (calls'[d].key = NoKey <=> calls'[d].secret # NoSecret)
                        /\ calls'[d].pc = "read" => calls'[d].secret \in Secrets
                        /\ calls'[d].pc \in {"sent", "read"} => calls'[d].host \in Hosts
      BY DEF CallsAreWhole
    <3>1. CASE d = c
      BY <2>2, <2>5, <3>1
    <3>2. CASE d # c
      BY <2>3, <3>2 DEF CallsAreWhole
    <3> QED
      BY <3>1, <3>2
  <2> QED
    BY <2>4, <2>6
<1>5. ASSUME NEW c \in Calls, KeyNotFound(c) \/ InsertFails(c)
      PROVE  KeysTypeOK' /\ CallsAreWhole'
  <2>1. calls' = [calls EXCEPT ![c] = NoCall] /\ UNCHANGED <<keys, machines>>
    BY <1>5 DEF KeyNotFound, InsertFails
  <2> QED
    BY <2>1, <1>0
<1>6. ASSUME NEW c \in Calls, NEW m \in Machines, Insert(c, m)
      PROVE  KeysTypeOK' /\ CallsAreWhole'
  <2>1. machines'[m] \in Machine
    BY <1>6 DEF Insert, CallsAreWhole, Call, Machine
  <2> QED
    BY <1>0, <1>6, <2>1 DEF Insert
<1>7. ASSUME NEW m \in Machines, DeleteMachine(m)
      PROVE  KeysTypeOK' /\ CallsAreWhole'
  BY <1>7 DEF DeleteMachine, CallsAreWhole
<1>8. CASE UNCHANGED keyVars
  BY <1>8 DEF keyVars, CallsAreWhole
<1> QED
  BY <1>1, <1>2, <1>3, <1>4, <1>5, <1>6, <1>7, <1>8

(* Every step keeps the type invariant.                                    *)
LEMMA NextType ==
    ASSUME TypeInv, [Next]_vars
    PROVE  TypeInv'
<1> USE DEF TypeInv, TypeOK
<1>1. CASE Open \/ Close
  <2>1. ResetDialog /\ open' \in BOOLEAN /\ UNCHANGED <<keyVars, posts, saved>>
    BY <1>1 DEF Open, Close
  <2>2. KeysTypeOK' /\ CallsAreWhole'
    BY <2>1, KeyStepType
  <2>3. TypeOK'
    BY <2>1, <2>2, ResetType, Values
  <2> QED
    BY <2>1, <2>2, <2>3, ResetType
<1>2. ASSUME NEW h \in Hosts, NEW k \in {NoKey} \union KeyIds,
             NEW p \in Passwords \union {NoSecret}, Edit(h, k, p)
      PROVE  TypeInv'
  <2>1. KeysTypeOK' /\ CallsAreWhole'
    BY <1>2, KeyStepType DEF Edit
  <2>2. tests' = Overtaken
    BY <1>2 DEF Edit
  <2>3. TestsAreWhole' /\ tests' \in [Tests -> Test \union {NoTest}]
    BY <2>2, OvertakenTests DEF TestsAreWhole
  <2> QED
    BY <1>2, <2>1, <2>3, Values DEF Edit, Invalidate
<1>3. CASE RenderKeys
  <2>1. KeysTypeOK' /\ CallsAreWhole'
    BY <1>3, KeyStepType DEF RenderKeys
  <2>2. tests' = Overtaken
    BY <1>3 DEF RenderKeys
  <2>3. TestsAreWhole' /\ tests' \in [Tests -> Test \union {NoTest}]
    BY <2>2, OvertakenTests DEF TestsAreWhole
  <2> QED
    BY <1>3, <2>1, <2>3 DEF RenderKeys, Post, NoKey
<1>4. ASSUME NEW t \in Tests, StartTest(t)
      PROVE  TypeInv'
  <2>1. KeysTypeOK' /\ CallsAreWhole'
    BY <1>4, KeyStepType DEF StartTest
  <2>2. /\ tests'[t] \in Test
        /\ tests'[t].key = NoKey => tests'[t].secret \in Secrets
    BY <1>4 DEF StartTest, Filled, Test, Secrets
  <2>3. TestsAreWhole' /\ tests' \in [Tests -> Test \union {NoTest}]
    BY <1>4, <2>2 DEF StartTest, TestsAreWhole
  <2> QED
    BY <1>4, <2>1, <2>3 DEF StartTest
<1>5. ASSUME NEW t \in Tests, ReadForTest(t)
      PROVE  TypeInv'
  <2>1. KeysTypeOK' /\ CallsAreWhole'
    BY <1>5, KeyStepType DEF ReadForTest
  <2>2. keys[tests[t].key] \in Secrets
    BY <1>5 DEF ReadForTest, Stored, KeysTypeOK, Secrets
  <2>3. /\ tests'[t] \in Test
        /\ tests'[t].secret \in Secrets
    <3>1. tests[t] \in Test /\ tests \in [Tests -> Test \union {NoTest}]
      BY <1>5 DEF ReadForTest
    <3>2. tests'[t] = [tests[t] EXCEPT !.key = NoKey, !.secret = keys[tests[t].key]]
      BY <1>5, <3>1, Zenon DEF ReadForTest
    <3> QED
      BY ONLY <2>2, <3>1, <3>2 DEF Test
  <2>4. TestsAreWhole' /\ tests' \in [Tests -> Test \union {NoTest}]
    BY <1>5, <2>3 DEF ReadForTest, TestsAreWhole
  <2> QED
    BY <1>5, <2>1, <2>4 DEF ReadForTest
<1>6. ASSUME NEW t \in Tests, TestSucceeds(t)
      PROVE  TypeInv'
  <2>1. KeysTypeOK' /\ CallsAreWhole'
    BY <1>6, KeyStepType DEF TestSucceeds
  <2>2. basis' \in Post
    BY <1>6 DEF TestSucceeds, TestsAreWhole, Test, Post, Proof
  <2>3. TestsAreWhole' /\ tests' \in [Tests -> Test \union {NoTest}]
    BY <1>6 DEF TestSucceeds, TestsAreWhole
  <2> QED
    BY <1>6, <2>1, <2>2, <2>3 DEF TestSucceeds
<1>7. ASSUME NEW t \in Tests, TestFails(t)
      PROVE  TypeInv'
  <2>1. KeysTypeOK' /\ CallsAreWhole'
    BY <1>7, KeyStepType DEF TestFails
  <2>2. TestsAreWhole' /\ tests' \in [Tests -> Test \union {NoTest}]
    BY <1>7 DEF TestFails, TestsAreWhole
  <2> QED
    BY <1>7, <2>1, <2>2, Values DEF TestFails, Invalidate
<1>8. ASSUME NEW c \in Calls, Submit(c)
      PROVE  TypeInv'
  <2>1. calls'[c] \in Call
    BY <1>8 DEF Submit, Register, NoCall, Call, Secrets, KeysTypeOK
  <2>2. /\ calls'[c].pc = "sent" /\ calls'[c].host \in Hosts
        /\ calls'[c].key = NoKey <=> calls'[c].secret # NoSecret
    BY <1>8 DEF Submit, Register, NoCall, Filled, KeysTypeOK
  <2>3. KeysTypeOK' /\ CallsAreWhole'
    BY <1>8, <2>1, <2>2 DEF Submit, Register, KeysTypeOK, CallsAreWhole
  <2> QED
    BY <1>8, <2>3 DEF Submit, TestsAreWhole
<1>9. ASSUME NEW c \in Calls, Refused(c)
      PROVE  TypeInv'
  <2>1. KeysTypeOK' /\ CallsAreWhole'
    BY <1>9, KeyStepType DEF Refused
  <2> QED
    BY <1>9, <2>1 DEF Refused, Done, TestsAreWhole
<1>10. ASSUME NEW c \in Calls, NEW m \in Machines, Saved(c, m)
       PROVE  TypeInv'
  <2>1. KeysTypeOK' /\ CallsAreWhole'
    BY <1>10, KeyStepType DEF Saved
  <2>2. ResetDialog
    BY <1>10 DEF Saved
  <2>3. TypeOK'
    BY <1>10, <2>1, <2>2, ResetType, Values DEF Saved, Done
  <2> QED
    BY <2>1, <2>2, <2>3, ResetType
<1>11. ASSUME NEW m \in Machines, Forget(m)
       PROVE  TypeInv'
  <2>1. KeysTypeOK' /\ CallsAreWhole'
    BY <1>11, KeyStepType DEF Forget
  <2> QED
    BY <1>11, <2>1 DEF Forget, TestsAreWhole
<1>12. ASSUME NEW k \in KeyIds, NEW s \in PrivateKeys, NewKey(k, s)
       PROVE  TypeInv'
  <2>1. SaveKey(k, s)
    BY <1>12 DEF NewKey, GenerateKey
  <2>2. KeysTypeOK' /\ CallsAreWhole'
    BY <2>1, KeyStepType
  <2>3. tests' = Overtaken \/ tests' = tests
    BY <1>12 DEF NewKey
  <2>4. TestsAreWhole' /\ tests' \in [Tests -> Test \union {NoTest}]
    BY <2>3, OvertakenTests DEF TestsAreWhole
  <2>5. basis' \in Post
    <3> DEFINE b == basis.excused \/ (verified /\ form.key = k)
    <3>1. basis' = [basis EXCEPT !.excused = b]
      BY <1>12, Zenon DEF NewKey
    <3>2. b \in BOOLEAN
      OBVIOUS
    <3> HIDE DEF b
    <3> QED
      BY <3>1, <3>2 DEF Post
  <2>6. posts' \in [Calls -> Post \union {NoProof}]
    BY <1>12 DEF NewKey, Post
  <2> QED
    BY <1>12, <2>2, <2>4, <2>5, <2>6 DEF NewKey
<1>13. CASE Server
  <2>1. KeysTypeOK' /\ CallsAreWhole'
    BY <1>13, KeyStepType DEF Server
  <2> QED
    BY <1>13, <2>1 DEF Server, pageVars, TestsAreWhole
<1>14. CASE UNCHANGED vars
  <2>1. KeysTypeOK' /\ CallsAreWhole'
    BY <1>14, KeyStepType DEF vars
  <2> QED
    BY <1>14, <2>1 DEF vars, pageVars, TestsAreWhole
<1> QED
  BY <1>1, <1>2, <1>3, <1>4, <1>5, <1>6, <1>7, <1>8, <1>9, <1>10, <1>11, <1>12, <1>13,
     <1>14 DEF Next

(* Every variable keeps its type: a key, a host or a secret never stands   *)
(* where another kind of value belongs, a field is never left undefined.   *)
THEOREM TypeCorrect == Spec => []TypeOK
<1>1. TypeInv => TypeOK
  BY DEF TypeInv
<1>2. TypeInv /\ [Next]_vars => TypeInv'
  BY NextType
<1> QED
  BY <1>1, <1>2, InitType, PTL DEF Spec

-----------------------------------------------------------------------------
(* A new key takes an id that no machine refers to.                        *)
LEMMA NewIdIsFree ==
    ASSUME TypeInv, NEW k \in KeyIds, IsNextKeyId(k)
    PROVE  keys[k] = NoSecret
BY DEF IsNextKeyId, Stored, KeyIds

(* The steps of the server keep what concerns the keys.                    *)
LEMMA KeyStep ==
    ASSUME TypeInv, KeysInv,
           \/ \E k \in KeyIds, s \in PrivateKeys : SaveKey(k, s)
           \/ \E c \in Calls, k \in KeyIds : CountUses(c, k)
           \/ \E c \in Calls : RemoveKey(c) \/ ReadKey(c) \/ KeyNotFound(c) \/ InsertFails(c)
           \/ \E c \in Calls, m \in Machines : Insert(c, m)
           \/ \E m \in Machines : DeleteMachine(m)
           \/ \E c \in Calls : Register(c, form.host, form.key, form.password)
           \/ UNCHANGED keyVars
    PROVE  KeysInv'
<1> USE DEF TypeInv, TypeOK, KeysTypeOK
<1>0. \A c \in Calls : calls' = [calls EXCEPT ![c] = NoCall] /\ keys' = keys => ReadIsKey'
  BY DEF ReadIsKey, KeysInv, NoCall, Holds
<1>1. ASSUME NEW k \in KeyIds, NEW s \in PrivateKeys, SaveKey(k, s)
      PROVE  KeysInv'
  <2>1. keys[k] = NoSecret
    BY <1>1, NewIdIsFree DEF SaveKey
  <2>2. /\ machines' = machines
        /\ keys' = [keys EXCEPT ![k] = s]
        /\ s # NoSecret
    BY <1>1, KeysAssumption DEF SaveKey, Secrets
  <2>3. KeysInUseStay'
    BY <2>1, <2>2 DEF KeysInv, KeysInUseStay, Registered, Stored
  <2>4. CredentialIsKey'
    BY <2>1, <2>2 DEF KeysInv, KeysInUseStay, CredentialIsKey, Registered, Stored
  <2>5. ASSUME NEW c \in Calls, calls'[c].pc = "read", calls'[c].key # NoKey, ~calls'[c].reissued
        PROVE  \/ keys'[calls'[c].key] = calls'[c].secret
               \/ keys'[calls'[c].key] = NoSecret
    <3> DEFINE b == calls[c].reissued \/ (calls[c].pc = "read" /\ calls[c].key = k)
    <3>1. calls'[c] = [calls[c] EXCEPT !.reissued = b]
      BY <1>1, Zenon DEF SaveKey
    <3>2. calls[c] \in Call
      OBVIOUS
    <3>3. ~b
      <4> HIDE DEF b
      <4> QED
        BY <2>5, <3>1, <3>2 DEF Call
    <3>4. /\ calls'[c].pc = calls[c].pc /\ calls'[c].key = calls[c].key
          /\ calls'[c].secret = calls[c].secret
      <4> HIDE DEF b
      <4> QED
        BY <3>1, <3>2 DEF Call
    <3>5. calls[c].key # k /\ Holds(calls[c].key, calls[c].secret)
      BY <2>5, <3>3, <3>4 DEF KeysInv, ReadIsKey
    <3>6. calls[c].key \in KeyIds
      BY <2>5, <3>2, <3>4 DEF Call
    <3> QED
      BY <2>2, <3>4, <3>5, <3>6 DEF Holds
  <2>6. ReadIsKey'
    BY <2>5 DEF ReadIsKey, Holds
  <2> QED
    BY <2>3, <2>4, <2>6 DEF KeysInv
<1>2. ASSUME NEW c \in Calls, NEW k \in KeyIds, CountUses(c, k)
      PROVE  KeysInv'
  <2>1. UNCHANGED <<keys, machines>> /\ calls'[c].pc = "counted"
        /\ \A d \in Calls : d # c => calls'[d] = calls[d]
    BY <1>2 DEF CountUses, NoCall
  <2> QED
    BY <2>1 DEF KeysInv, KeysInUseStay, CredentialIsKey, ReadIsKey, Registered, Stored, Holds
<1>3. ASSUME NEW c \in Calls, RemoveKey(c)
      PROVE  KeysInv'
  <2>1. /\ machines' = machines
        /\ calls' = [calls EXCEPT ![c] = NoCall]
        /\ \A k \in KeyIds : keys'[k] = keys[k] \/ (keys'[k] = NoSecret /\ ~InUse(k))
    BY <1>3 DEF RemoveKey
  <2>2. KeysInUseStay' /\ CredentialIsKey'
    BY <2>1 DEF KeysInv, KeysInUseStay, CredentialIsKey, Registered, Stored, InUse, Machine
  <2>3. ReadIsKey'
    BY <2>1 DEF KeysInv, ReadIsKey, Holds, NoCall, Call
  <2> QED
    BY <2>2, <2>3 DEF KeysInv
<1>4. ASSUME NEW c \in Calls, ReadKey(c)
      PROVE  KeysInv'
  <2> DEFINE s == IF calls[c].key = NoKey THEN calls[c].secret ELSE keys[calls[c].key]
  <2>1. /\ UNCHANGED <<keys, machines>>
        /\ calls' = [calls EXCEPT ![c] = [calls[c] EXCEPT !.pc = "read", !.secret = s]]
    BY <1>4 DEF ReadKey
  <2>2. calls'[c].key # NoKey => calls'[c].secret = keys[calls'[c].key]
    BY <2>1 DEF Call
  <2>3. \A d \in Calls : d # c => calls'[d] = calls[d]
    BY <2>1
  <2> HIDE DEF s
  <2> QED
    BY <2>1, <2>2, <2>3 DEF KeysInv, KeysInUseStay, CredentialIsKey, ReadIsKey, Registered, Stored, Holds
<1>5. ASSUME NEW c \in Calls, KeyNotFound(c) \/ InsertFails(c)
      PROVE  KeysInv'
  <2>1. calls' = [calls EXCEPT ![c] = NoCall] /\ UNCHANGED <<keys, machines>>
    BY <1>5 DEF KeyNotFound, InsertFails
  <2> QED
    BY <1>0, <2>1 DEF KeysInv, KeysInUseStay, CredentialIsKey, Registered, Stored
<1>6. ASSUME NEW c \in Calls, NEW m \in Machines, Insert(c, m)
      PROVE  KeysInv'
  <2>1. /\ keys' = keys
        /\ machines'[m].key = calls[c].key
        /\ machines'[m].credential = calls[c].secret
        /\ machines'[m].reissued = calls[c].reissued
        /\ \A n \in Machines : n # m => machines'[n] = machines[n]
    BY <1>6 DEF Insert
  <2>2. calls[c].key = NoKey \/ Stored(calls[c].key)
    BY <1>6 DEF Insert
  <2>3. calls[c].key # NoKey /\ ~calls[c].reissued => calls[c].secret = keys[calls[c].key]
    BY <1>6, <2>2 DEF Insert, KeysInv, ReadIsKey, Holds, Stored
  <2>4. KeysInUseStay' /\ CredentialIsKey'
    BY <2>1, <2>2, <2>3 DEF KeysInv, KeysInUseStay, CredentialIsKey, Registered, Stored
  <2> QED
    BY <1>0, <1>6, <2>1, <2>4 DEF KeysInv, Insert
<1>7. ASSUME NEW m \in Machines, DeleteMachine(m)
      PROVE  KeysInv'
  BY <1>7 DEF DeleteMachine, KeysInv, KeysInUseStay, CredentialIsKey, ReadIsKey, Registered, Stored, Holds
<1>8. ASSUME NEW c \in Calls, Register(c, form.host, form.key, form.password)
      PROVE  KeysInv'
  <2>1. UNCHANGED <<keys, machines>> /\ calls'[c].pc = "sent"
        /\ \A d \in Calls : d # c => calls'[d] = calls[d]
    BY <1>8 DEF Register
  <2> QED
    BY <2>1 DEF KeysInv, KeysInUseStay, CredentialIsKey, ReadIsKey, Registered, Stored, Holds
<1>9. CASE UNCHANGED keyVars
  BY <1>9 DEF keyVars, KeysInv, KeysInUseStay, CredentialIsKey, ReadIsKey, Registered, Stored, Holds
<1> QED
  BY <1>1, <1>2, <1>3, <1>4, <1>5, <1>6, <1>7, <1>8, <1>9

(* Every step keeps what concerns the keys.                                *)
LEMMA NextKeys ==
    ASSUME TypeInv, KeysInv, [Next]_vars
    PROVE  KeysInv'
<1>1. CASE UNCHANGED keyVars
  BY <1>1, KeyStep
<1>2. CASE Open \/ Close \/ RenderKeys
  BY <1>1, <1>2 DEF Open, Close, RenderKeys, keyVars
<1>3. ASSUME NEW h \in Hosts, NEW k \in {NoKey} \union KeyIds,
             NEW p \in Passwords \union {NoSecret}, Edit(h, k, p)
      PROVE  KeysInv'
  BY <1>1, <1>3 DEF Edit, keyVars
<1>4. ASSUME NEW t \in Tests, StartTest(t) \/ ReadForTest(t) \/ TestSucceeds(t) \/ TestFails(t)
      PROVE  KeysInv'
  BY <1>1, <1>4 DEF StartTest, ReadForTest, TestSucceeds, TestFails, keyVars
<1>5. ASSUME NEW c \in Calls, Submit(c)
      PROVE  KeysInv'
  BY <1>5, KeyStep DEF Submit
<1>6. ASSUME NEW c \in Calls, Refused(c)
      PROVE  KeysInv'
  BY <1>6, KeyStep DEF Refused
<1>7. ASSUME NEW c \in Calls, NEW m \in Machines, Saved(c, m)
      PROVE  KeysInv'
  BY <1>7, KeyStep DEF Saved
<1>8. ASSUME NEW m \in Machines, Forget(m)
      PROVE  KeysInv'
  BY <1>8, KeyStep DEF Forget
<1>9. ASSUME NEW k \in KeyIds, NEW s \in PrivateKeys, NewKey(k, s)
      PROVE  KeysInv'
  <2>1. SaveKey(k, s)
    BY <1>9 DEF NewKey, GenerateKey
  <2> QED
    BY <2>1, KeyStep
<1>10. CASE Server
  BY <1>10, KeyStep DEF Server
<1>11. CASE UNCHANGED vars
  BY <1>1, <1>11 DEF vars
<1> QED
  BY <1>2, <1>3, <1>4, <1>5, <1>6, <1>7, <1>8, <1>9, <1>10, <1>11 DEF Next

(* At the start there are neither keys nor machines nor calls.             *)
LEMMA InitKeys == Init => KeysInv
BY DEF Init, KeysInit, KeysInv, KeysInUseStay, CredentialIsKey, ReadIsKey, Registered, NoCall

(* "deletion protection for assigned keys" (README.md:18): whatever the    *)
(* order of the statements of deleteSSHKey and createAgent, the key that a *)
(* machine refers to is there.                                             *)
THEOREM AssignedKeysStay == Spec => []KeysInUseStay
<1>1. TypeInv /\ KeysInv /\ [Next]_vars => TypeInv' /\ KeysInv'
  BY NextType, NextKeys
<1>2. KeysInv => KeysInUseStay
  BY DEF KeysInv
<1> QED
  BY <1>1, <1>2, InitType, InitKeys, PTL DEF Spec

(* The credential that a machine keeps is the key it is shown with, unless *)
(* the id of that key was reissued under the registration.                 *)
THEOREM CredentialsMatch == Spec => []CredentialIsKey
<1>1. TypeInv /\ KeysInv /\ [Next]_vars => TypeInv' /\ KeysInv'
  BY NextType, NextKeys
<1>2. KeysInv => CredentialIsKey
  BY DEF KeysInv
<1> QED
  BY <1>1, <1>2, InitType, InitKeys, PTL DEF Spec

-----------------------------------------------------------------------------
(* What a step leaves alone it does not disturb.                           *)
LEMMA Undisturbed ==
    ASSUME DialogInv
    PROVE  /\ UNCHANGED <<keys, form, tests>> => TestsAreOfForm'
           /\ UNCHANGED <<keys, form, verified, basis>> => VerifiedIsForm'
           /\ UNCHANGED <<keys, calls, posts>> => PostsAreTested'
           /\ UNCHANGED <<machines, saved>> => SavedIsTestedUnlessOvertaken'
<1>1. UNCHANGED <<keys, form, tests>> => TestsAreOfForm'
  BY DEF DialogInv, TestsAreOfForm, FormMeans, Holds
<1>2. UNCHANGED <<keys, form, verified, basis>> => VerifiedIsForm'
  BY DEF DialogInv, VerifiedIsForm, FormMeans, Holds
<1>3. UNCHANGED <<keys, calls, posts>> => PostsAreTested'
  BY DEF DialogInv, PostsAreTested, Holds
<1>4. UNCHANGED <<machines, saved>> => SavedIsTestedUnlessOvertaken'
  BY DEF DialogInv, SavedIsTestedUnlessOvertaken, ProofOf
<1> QED
  BY <1>1, <1>2, <1>3, <1>4

(* The tests that were overtaken bind nothing.                             *)
LEMMA OvertakenBindNothing ==
    ASSUME TypeInv, tests' = Overtaken
    PROVE  TestsAreOfForm'
BY OvertakenTests DEF TypeInv, TestsAreOfForm

(* Nor does a flag that is down.                                           *)
LEMMA InvalidBindsNothing == Invalidate => VerifiedIsForm'
BY DEF Invalidate, VerifiedIsForm

(* Opening, closing and editing take back the permission to save.          *)
LEMMA FormSteps ==
    ASSUME TypeInv, DialogInv,
           \/ Open \/ Close \/ RenderKeys
           \/ \E h \in Hosts, k \in {NoKey} \union KeyIds,
                p \in Passwords \union {NoSecret} : Edit(h, k, p)
    PROVE  DialogInv'
<1>1. tests' = Overtaken /\ UNCHANGED <<keyVars, posts, saved>>
  BY DEF Open, Close, RenderKeys, Edit, ResetDialog
<1>2. VerifiedIsForm'
  <2>1. CASE RenderKeys
    <3>1. verified' = verified /\ basis' = [basis EXCEPT !.excused = verified]
      BY <2>1 DEF RenderKeys
    <3> QED
      BY <3>1 DEF DialogInv, VerifiedIsForm, TypeInv, TypeOK, Post
  <2>2. CASE ~RenderKeys
    BY <2>2, InvalidBindsNothing DEF Open, Close, Edit, ResetDialog
  <2> QED
    BY <2>1, <2>2
<1> QED
  BY <1>1, <1>2, Undisturbed, OvertakenBindNothing DEF DialogInv, keyVars

(* A test tries what the form stood for when it began.                     *)
LEMMA TestSteps ==
    ASSUME TypeInv, DialogInv, NEW t \in Tests,
           StartTest(t) \/ ReadForTest(t) \/ TestSucceeds(t) \/ TestFails(t)
    PROVE  DialogInv'
<1> USE DEF TypeInv, TypeOK
<1>1. /\ UNCHANGED <<keyVars, form, posts, saved>>
      /\ \A u \in Tests : u # t => tests'[u] = tests[u]
      /\ DOMAIN tests' = Tests
  BY DEF StartTest, ReadForTest, TestSucceeds, TestFails
<1>2. PostsAreTested' /\ SavedIsTestedUnlessOvertaken'
  BY <1>1, Undisturbed DEF keyVars
<1>3. TestsAreOfForm'
  <2>1. ASSUME tests'[t] # NoTest, ~tests'[t].excused
        PROVE  /\ tests'[t].host = form.host
               /\ IF tests'[t].key # NoKey THEN form.key = tests'[t].key
                                           ELSE FormMeans(tests'[t].secret)
    <3>1. CASE StartTest(t)
      BY <3>1 DEF StartTest, FormMeans
    <3>2. CASE ReadForTest(t)
      <4>1. tests[t] # NoTest /\ tests[t] \in Test /\ tests[t].key # NoKey
        BY <3>2, KeysAssumption DEF ReadForTest, Stored, KeyIds, NoKey
      <4>2. /\ tests'[t].key = NoKey /\ tests'[t].secret = keys[tests[t].key]
            /\ tests'[t].host = tests[t].host /\ ~tests[t].excused
        BY <2>1, <3>2, <4>1 DEF ReadForTest, Test
      <4>3. form.key = tests[t].key /\ form.host = tests[t].host
        BY <4>1, <4>2 DEF DialogInv, TestsAreOfForm
      <4> QED
        BY <4>1, <4>2, <4>3 DEF FormMeans, Holds
    <3>3. CASE TestSucceeds(t) \/ TestFails(t)
      BY <2>1, <3>3 DEF TestSucceeds, TestFails
    <3> QED
      BY <3>1, <3>2, <3>3
  <2> QED
    BY <1>1, <2>1 DEF DialogInv, TestsAreOfForm, FormMeans, Holds, keyVars
<1>4. VerifiedIsForm'
  <2>1. CASE StartTest(t) \/ ReadForTest(t)
    BY <1>1, <2>1, Undisturbed DEF StartTest, ReadForTest, keyVars
  <2>2. CASE TestSucceeds(t)
    <3>1. tests[t] # NoTest /\ tests[t] \in Test /\ tests[t].key = NoKey
      BY <2>2 DEF TestSucceeds
    <3>2. /\ basis'.proof \in Proof
          /\ basis'.proof.host = tests[t].host /\ basis'.proof.secret = tests[t].secret
          /\ basis'.excused = tests[t].excused
      BY <2>2, <3>1 DEF TestSucceeds, TestsAreWhole, Test, Proof
    <3>3. ~tests[t].excused => tests[t].host = form.host /\ FormMeans(tests[t].secret)
      BY <3>1 DEF DialogInv, TestsAreOfForm
    <3> QED
      BY <1>1, <3>2, <3>3 DEF VerifiedIsForm, FormMeans, Holds, keyVars
  <2>3. CASE TestFails(t)
    BY <2>3, InvalidBindsNothing DEF TestFails
  <2> QED
    BY <2>1, <2>2, <2>3
<1> QED
  BY <1>2, <1>3, <1>4 DEF DialogInv

(* A submit sends the form that the flag speaks of.                        *)
LEMMA SubmitStep ==
    ASSUME TypeInv, DialogInv, NEW c \in Calls, Submit(c)
    PROVE  DialogInv'
<1> USE DEF TypeInv, TypeOK, KeysTypeOK
<1>1. /\ UNCHANGED <<keys, machines, form, verified, basis, tests, saved>>
      /\ calls'[c].op = "register" /\ calls'[c].pc = "sent" /\ calls'[c].host = form.host
      /\ calls'[c].key = form.key /\ calls'[c].secret = form.password
      /\ posts'[c] = basis /\ verified
      /\ \A d \in Calls : d # c => calls'[d] = calls[d] /\ posts'[d] = posts[d]
  BY DEF Submit, Register
<1>2. /\ basis.proof \in Proof
      /\ ~basis.excused => /\ basis.proof.host = form.host
                           /\ FormMeans(basis.proof.secret)
  BY <1>1 DEF DialogInv, VerifiedIsForm
<1>3. PostsAreTested'
  BY <1>1, <1>2 DEF DialogInv, PostsAreTested, FormMeans, Holds
<1> QED
  BY <1>1, <1>3, Undisturbed DEF DialogInv

(* A machine that is saved is what the post has in hand.                   *)
LEMMA SavedStep ==
    ASSUME TypeInv, DialogInv, NEW c \in Calls, NEW m \in Machines, Saved(c, m)
    PROVE  DialogInv'
<1> USE DEF TypeInv, TypeOK, KeysTypeOK
<1>1. /\ keys' = keys
      /\ calls[c].pc = "read"
      /\ machines'[m].host = calls[c].host /\ machines'[m].credential = calls[c].secret
      /\ saved'[m] = posts[c] /\ posts'[c] = NoProof
      /\ \A n \in Machines : n # m => machines'[n] = machines[n] /\ saved'[n] = saved[n]
      /\ \A d \in Calls : d # c => calls'[d] = calls[d] /\ posts'[d] = posts[d]
      /\ ResetDialog
  BY DEF Saved, Insert, Done
<1>2. ASSUME posts[c] # NoProof, ~posts[c].excused
      PROVE  posts[c].proof = ProofOf(m)'
  <2>1. /\ posts[c].proof \in Proof
        /\ calls[c].host = posts[c].proof.host /\ calls[c].secret = posts[c].proof.secret
    BY <1>1, <1>2 DEF DialogInv, PostsAreTested
  <2>2. posts[c].proof = [host |-> machines'[m].host, secret |-> machines'[m].credential]
    BY <1>1, <2>1 DEF Proof
  <2> QED
    BY <2>2 DEF ProofOf
<1>3. SavedIsTestedUnlessOvertaken'
  BY <1>1, <1>2 DEF DialogInv, SavedIsTestedUnlessOvertaken, ProofOf
<1>4. PostsAreTested'
  BY <1>1 DEF DialogInv, PostsAreTested, Holds
<1> QED
  BY <1>1, <1>3, <1>4, OvertakenBindNothing, InvalidBindsNothing DEF DialogInv, ResetDialog

(* A request that was refused, and a machine that is deleted, are gone.    *)
LEMMA EndSteps ==
    ASSUME TypeInv, DialogInv,
           (\E c \in Calls : Refused(c)) \/ (\E m \in Machines : Forget(m))
    PROVE  DialogInv'
<1> USE DEF TypeInv, TypeOK, KeysTypeOK
<1>1. ASSUME NEW c \in Calls, Refused(c)
      PROVE  DialogInv'
  <2>1. /\ UNCHANGED <<keys, machines, form, verified, basis, tests, saved>>
        /\ posts'[c] = NoProof
        /\ \A d \in Calls : d # c => calls'[d] = calls[d] /\ posts'[d] = posts[d]
    BY <1>1 DEF Refused, KeyNotFound, InsertFails, Done
  <2>2. PostsAreTested'
    BY <2>1 DEF DialogInv, PostsAreTested, Holds
  <2> QED
    BY <2>1, <2>2, Undisturbed DEF DialogInv
<1>2. ASSUME NEW m \in Machines, Forget(m)
      PROVE  DialogInv'
  <2>1. /\ UNCHANGED <<keys, calls, form, verified, basis, tests, posts>>
        /\ saved'[m] = NoProof
        /\ \A n \in Machines : n # m => machines'[n] = machines[n] /\ saved'[n] = saved[n]
    BY <1>2 DEF Forget, DeleteMachine
  <2>2. SavedIsTestedUnlessOvertaken'
    BY <2>1 DEF DialogInv, SavedIsTestedUnlessOvertaken, ProofOf
  <2> QED
    BY <2>1, <2>2, Undisturbed DEF DialogInv
<1> QED
  BY <1>1, <1>2

(* A new key overtakes whatever stands for the one that had its id.        *)
LEMMA NewKeyStep ==
    ASSUME TypeInv, DialogInv, NEW k \in KeyIds, NEW s \in PrivateKeys, NewKey(k, s)
    PROVE  DialogInv'
<1> USE DEF TypeInv, TypeOK, KeysTypeOK
<1>1. SaveKey(k, s)
  BY DEF NewKey, GenerateKey
<1>2. /\ UNCHANGED <<machines, form, verified, saved>>
      /\ \A j \in KeyIds : j # k => keys'[j] = keys[j]
  BY <1>1 DEF NewKey, SaveKey
<1>3. TestsAreOfForm'
  <2>1. CASE form.key = k
    BY <2>1, OvertakenBindNothing DEF NewKey
  <2>2. CASE form.key # k
    BY <1>2, <2>2 DEF NewKey, DialogInv, TestsAreOfForm, FormMeans, Holds
  <2> QED
    BY <2>1, <2>2
<1>4. VerifiedIsForm'
  <2> DEFINE b == basis.excused \/ (verified /\ form.key = k)
  <2>1. basis' = [basis EXCEPT !.excused = b]
    BY Zenon DEF NewKey
  <2>2. b \in BOOLEAN
    OBVIOUS
  <2>3. basis'.proof = basis.proof /\ basis'.excused = b
    <3> HIDE DEF b
    <3> QED
      BY <2>1, <2>2 DEF Post
  <2>4. verified /\ ~basis'.excused => form.key # k /\ ~basis.excused
    BY <2>3
  <2> QED
    BY <1>2, <2>3, <2>4 DEF DialogInv, VerifiedIsForm, FormMeans, Holds
<1>5. ASSUME NEW c \in Calls
      PROVE  /\ calls'[c].op = calls[c].op /\ calls'[c].pc = calls[c].pc
             /\ calls'[c].key = calls[c].key /\ calls'[c].secret = calls[c].secret
             /\ calls'[c].host = calls[c].host
  <2> DEFINE b == calls[c].reissued \/ (calls[c].pc = "read" /\ calls[c].key = k)
  <2>1. calls'[c] = [calls[c] EXCEPT !.reissued = b]
    BY <1>1, Zenon DEF SaveKey
  <2>2. calls[c] \in Call
    OBVIOUS
  <2> HIDE DEF b
  <2> QED
    BY <2>1, <2>2 DEF Call
<1>6. ASSUME NEW c \in Calls, posts'[c] # NoProof
      PROVE  /\ posts[c] # NoProof /\ posts'[c].proof = posts[c].proof
             /\ ~posts'[c].excused => /\ ~posts[c].excused
                                      /\ calls[c].pc = "sent" => calls[c].key # k
  BY <1>6 DEF NewKey, Post
<1>7. PostsAreTested'
  <2> SUFFICES ASSUME NEW c \in Calls, posts'[c] # NoProof
               PROVE  /\ calls[c].op = "register" /\ calls[c].pc \in {"sent", "read"}
                      /\ posts[c].proof \in Proof
                      /\ ~posts'[c].excused =>
                            /\ calls[c].host = posts[c].proof.host
                            /\ IF calls[c].pc = "sent" /\ calls[c].key # NoKey
                               THEN \/ keys'[calls[c].key] = posts[c].proof.secret
                                    \/ keys'[calls[c].key] = NoSecret
                               ELSE calls[c].secret = posts[c].proof.secret
    BY <1>5, <1>6 DEF PostsAreTested, Holds
  <2>1. calls[c].key # NoKey => calls[c].key \in KeyIds
    BY DEF Call
  <2> QED
    BY <1>2, <1>6, <2>1 DEF DialogInv, PostsAreTested, Holds
<1> QED
  BY <1>2, <1>3, <1>4, <1>7, Undisturbed DEF DialogInv

(* Every step keeps the invariant of the dialog.                           *)
LEMMA NextDialog ==
    ASSUME TypeInv, DialogInv, [Next]_vars
    PROVE  DialogInv'
<1>1. CASE Server
  <2> USE DEF TypeInv, TypeOK, KeysTypeOK
  <2>1. UNCHANGED <<machines, form, verified, basis, tests, posts, saved>>
    BY <1>1 DEF Server, pageVars, CountUses, RemoveKey, ReadKey
  <2>2. \A k \in KeyIds : keys'[k] = keys[k] \/ keys'[k] = NoSecret
    BY <1>1 DEF Server, CountUses, RemoveKey, ReadKey
  <2>3. form.key # NoKey => form.key \in KeyIds
    OBVIOUS
  <2>4. TestsAreOfForm' /\ VerifiedIsForm'
    BY <2>1, <2>2, <2>3 DEF DialogInv, TestsAreOfForm, VerifiedIsForm, FormMeans, Holds
  <2>5. ASSUME NEW c \in Calls, posts[c] # NoProof
        PROVE  /\ calls'[c].op = "register" /\ calls'[c].pc \in {"sent", "read"}
               /\ ~posts[c].excused =>
                     /\ calls'[c].host = posts[c].proof.host
                     /\ IF calls'[c].pc = "sent" /\ calls'[c].key # NoKey
                        THEN \/ keys'[calls'[c].key] = posts[c].proof.secret
                             \/ keys'[calls'[c].key] = NoSecret
                        ELSE calls'[c].secret = posts[c].proof.secret
    <3>1. /\ calls[c].op = "register" /\ calls[c].pc \in {"sent", "read"}
          /\ calls[c] \in Call
      BY <2>5 DEF DialogInv, PostsAreTested
    <3>2. CASE calls'[c] = calls[c]
      BY <2>2, <2>5, <3>1, <3>2 DEF DialogInv, PostsAreTested, Holds, Call
    <3>3. CASE calls'[c] # calls[c]
      <4>1. ReadKey(c)
        BY <1>1, <3>1, <3>3 DEF Server, CountUses, RemoveKey, ReadKey
      <4> DEFINE s == IF calls[c].key = NoKey THEN calls[c].secret ELSE keys[calls[c].key]
      <4>2. calls' = [calls EXCEPT ![c] = [calls[c] EXCEPT !.pc = "read", !.secret = s]]
        BY <4>1 DEF ReadKey
      <4>3. ~posts[c].excused => s = posts[c].proof.secret
        BY <2>5, <4>1 DEF DialogInv, PostsAreTested, Holds, ReadKey, Stored
      <4> HIDE DEF s
      <4>4. /\ calls'[c].op = "register" /\ calls'[c].pc = "read"
            /\ calls'[c].host = calls[c].host /\ calls'[c].secret = s
        BY <3>1, <4>2 DEF Call
      <4> QED
        BY <2>5, <4>3, <4>4 DEF DialogInv, PostsAreTested
    <3> QED
      BY <3>2, <3>3
  <2>6. PostsAreTested'
    BY <2>1, <2>5 DEF DialogInv, PostsAreTested, Holds
  <2> QED
    BY <2>1, <2>4, <2>6, Undisturbed DEF DialogInv
<1>2. CASE UNCHANGED vars
  BY <1>2, Undisturbed DEF vars, keyVars, pageVars, DialogInv
<1> QED
  BY <1>1, <1>2, FormSteps, TestSteps, SubmitStep, SavedStep, EndSteps, NewKeyStep DEF Next

(* At the start nothing is tested, posted or saved.                        *)
LEMMA InitDialog == Init => DialogInv
BY DEF Init, DialogInv, TestsAreOfForm, VerifiedIsForm, PostsAreTested, SavedIsTestedUnlessOvertaken

(* The flag of the page, the two buttons and the answers in flight keep    *)
(* their promise: what the dialog saves is what a test has let in, unless  *)
(* the form or its key changed while the test was under way.               *)
THEOREM SavedWasTested == Spec => []SavedIsTestedUnlessOvertaken
<1>1. TypeInv /\ DialogInv /\ [Next]_vars => TypeInv' /\ DialogInv'
  BY NextType, NextDialog
<1>2. DialogInv => SavedIsTestedUnlessOvertaken
  BY DEF DialogInv
<1> QED
  BY <1>1, <1>2, InitType, InitDialog, PTL DEF Spec

=============================================================================
