---------------------------- MODULE MachineDialog ----------------------------
(***************************************************************************)
(* The dialog that adds a machine (assets/app.js), with the server's       *)
(* testAgentConnection, composed with SSHKeys.                             *)
(*                                                                         *)
(* The form may be saved only after a test of the connection.  What a test *)
(* tries is captured when the button is pressed; what is saved is the form *)
(* at the time of the submit; between them stands one flag of the page,    *)
(* connectionVerified.                                                     *)
(***************************************************************************)
EXTENDS SSHKeys

CONSTANTS
    Tests,     \* bound: tests under way at the same time
    NoTest, NoProof

(* What a test has shown to work: the history that the flag stands for.    *)
Proof == [host : Hosts, secret : Secrets]

(* The key until the server has read it, or the secret.  excused: the form *)
(* or the key with its id changed since the test began.                    *)
Test == [host : Hosts, key : {NoKey} \union KeyIds, secret : Secrets \union {NoSecret},
         excused : BOOLEAN]

Post == [proof : Proof \union {NoProof}, excused : BOOLEAN]

ASSUME DialogAssumption == NoProof \notin Proof \union Post /\ NoTest \notin Test

VARIABLES
    form,    \* the fields of #machine-form; a password selects that authentication
    open,    \* the dialog is shown
    verified,\* connectionVerified; #save-machine is enabled
    testing, \* #test-connection is disabled
    basis,   \* history: the test that verified rests on
    tests,   \* POST /api/agents/test under way
    posts,   \* history: the basis of the calls that this page made
    saved    \* history: the basis of the machines that this page saved

pageVars == <<form, open, verified, testing, basis, tests, posts, saved>>

vars == <<keyVars, pageVars>>

Blank == [host |-> NoHost, key |-> NoKey, password |-> NoSecret]

NoPost == [proof |-> NoProof, excused |-> FALSE]

(* The required fields; the page, or the server with 400, refuses the rest.*)
Filled == form.host # NoHost /\ (form.key # NoKey \/ form.password # NoSecret)

(* The tests under way no longer tell about the form.                      *)
Overtaken == [t \in Tests |-> IF tests[t] = NoTest THEN NoTest ELSE [tests[t] EXCEPT !.excused = TRUE]]

Init ==
    /\ KeysInit
    /\ form = Blank
    /\ open = FALSE /\ verified = FALSE /\ testing = FALSE
    /\ basis = NoPost
    /\ tests = [t \in Tests |-> NoTest]
    /\ posts = [c \in Calls |-> NoProof]
    /\ saved = [m \in Machines |-> NoProof]

-----------------------------------------------------------------------------
(* Mutant: the save button is disabled, the flag is not reset.             *)
InvalidateNothing == UNCHANGED <<verified, basis>>

(* invalidateConnectionTest *)
Invalidate ==
    /\ verified' = FALSE
    /\ basis' = NoPost

(* resetMachineDialog *)
ResetDialog ==
    /\ form' = Blank
    /\ testing' = FALSE
    /\ Invalidate
    /\ tests' = Overtaken

Open ==
    /\ ~open
    /\ open' = TRUE
    /\ ResetDialog
    /\ UNCHANGED <<keyVars, posts, saved>>

(* A button, Escape, or a click beside the dialog.                         *)
Close ==
    /\ open
    /\ open' = FALSE
    /\ ResetDialog
    /\ UNCHANGED <<keyVars, posts, saved>>

(* Events "input" of the form and "change" of the authentication type.  A  *)
(* form without a host is as incomplete as one without a credential.       *)
Edit(h, k, p) ==
    /\ open
    /\ k = NoKey \/ (Stored(k) /\ p = NoSecret)
    /\ form' = [host |-> h, key |-> k, password |-> p]
    /\ form' # form
    /\ Invalidate
    /\ tests' = Overtaken
    /\ UNCHANGED <<keyVars, open, testing, posts, saved>>

(* renderKeys, after load(): a key that is gone is no longer selected.  No *)
(* event tells the dialog.                                                 *)
RenderKeys ==
    /\ form.key # NoKey /\ ~Stored(form.key)
    /\ form' = [form EXCEPT !.key = NoKey]
    /\ tests' = Overtaken
    /\ basis' = [basis EXCEPT !.excused = verified]
    /\ UNCHANGED <<keyVars, open, verified, testing, posts, saved>>

-----------------------------------------------------------------------------
(* #test-connection *)
StartTest(t) ==
    /\ open /\ ~testing
    /\ Filled
    /\ tests[t] = NoTest
    /\ tests' = [tests EXCEPT ![t] = [host |-> form.host, key |-> form.key,
                                      secret |-> form.password, excused |-> FALSE]]
    /\ testing' = TRUE
    /\ UNCHANGED <<keyVars, form, open, verified, basis, posts, saved>>

(* testAgentConnection reads the key.                                      *)
ReadForTest(t) ==
    /\ tests[t] # NoTest
    /\ Stored(tests[t].key)
    /\ tests' = [tests EXCEPT ![t].key = NoKey, ![t].secret = keys[tests[t].key]]
    /\ UNCHANGED <<keyVars, form, open, verified, testing, basis, posts, saved>>

(* The machine lets secontrol in: the flag is set, whatever the form shows *)
(* by now.                                                                 *)
TestSucceeds(t) ==
    /\ tests[t] # NoTest /\ tests[t].key = NoKey
    /\ verified' = TRUE
    /\ basis' = [proof |-> [host |-> tests[t].host, secret |-> tests[t].secret],
                 excused |-> tests[t].excused]
    /\ testing' = FALSE
    /\ tests' = [tests EXCEPT ![t] = NoTest]
    /\ UNCHANGED <<keyVars, form, open, posts, saved>>

(* The key is not found, or the machine refuses, or does not answer.       *)
TestFails(t) ==
    /\ tests[t] # NoTest
    /\ Invalidate
    /\ testing' = FALSE
    /\ tests' = [tests EXCEPT ![t] = NoTest]
    /\ UNCHANGED <<keyVars, form, open, posts, saved>>

-----------------------------------------------------------------------------
(* The submit of #machine-form: nothing keeps it from being sent twice.    *)
Submit(c) ==
    /\ open /\ verified
    /\ Filled
    /\ Register(c, form.host, form.key, form.password)
    /\ posts' = [posts EXCEPT ![c] = basis]
    /\ UNCHANGED <<form, open, verified, testing, basis, tests, saved>>

Done(c) == posts' = [posts EXCEPT ![c] = NoProof]

(* 201: closeMachineDialog, whatever the dialog holds by now.              *)
Saved(c, m) ==
    /\ Insert(c, m)
    /\ saved' = [saved EXCEPT ![m] = posts[c]]
    /\ Done(c)
    /\ open' = FALSE
    /\ ResetDialog

(* The error is shown in the form, which stays as it is.                   *)
Refused(c) ==
    /\ KeyNotFound(c) \/ InsertFails(c)
    /\ Done(c)
    /\ UNCHANGED <<form, open, verified, testing, basis, tests, saved>>

Forget(m) ==
    /\ DeleteMachine(m)
    /\ saved' = [saved EXCEPT ![m] = NoProof]
    /\ UNCHANGED <<form, open, verified, testing, basis, tests, posts>>

(* A key is saved, perhaps under an id that the page takes for another.    *)
NewKey(k, s) ==
    /\ SaveKey(k, s) \/ GenerateKey(k, s)
    /\ tests' = IF form.key = k THEN Overtaken ELSE tests
    /\ basis' = [basis EXCEPT !.excused = @ \/ (verified /\ form.key = k)]
    /\ posts' = [c \in Calls |-> IF posts[c] # NoProof /\ calls[c].pc = "sent" /\ calls[c].key = k
                                 THEN [posts[c] EXCEPT !.excused = TRUE] ELSE posts[c]]
    /\ UNCHANGED <<form, open, verified, testing, saved>>

Server ==
    /\ \/ \E c \in Calls, k \in KeyIds : CountUses(c, k)
       \/ \E c \in Calls : RemoveKey(c) \/ ReadKey(c)
    /\ UNCHANGED pageVars

Next ==
    \/ Open \/ Close \/ RenderKeys
    \/ \E h \in Hosts, k \in {NoKey} \union KeyIds, p \in Passwords \union {NoSecret} :
          Edit(h, k, p)
    \/ \E t \in Tests : StartTest(t) \/ ReadForTest(t) \/ TestSucceeds(t) \/ TestFails(t)
    \/ \E c \in Calls : Submit(c) \/ Refused(c)
    \/ \E c \in Calls, m \in Machines : Saved(c, m)
    \/ \E m \in Machines : Forget(m)
    \/ \E k \in KeyIds, s \in PrivateKeys : NewKey(k, s)
    \/ Server

Spec == Init /\ [][Next]_vars

-----------------------------------------------------------------------------
(* Every variable keeps its type.                                          *)
TypeOK ==
    /\ KeysTypeOK
    /\ form \in [host : Hosts \union {NoHost}, key : {NoKey} \union KeyIds,
                 password : Passwords \union {NoSecret}]
    /\ open \in BOOLEAN /\ verified \in BOOLEAN /\ testing \in BOOLEAN
    /\ basis \in Post
    /\ tests \in [Tests -> Test \union {NoTest}]
    /\ posts \in [Calls -> Post \union {NoProof}]
    /\ saved \in [Machines -> Post \union {NoProof}]

ProofOf(m) == [host |-> machines[m].host, secret |-> machines[m].credential]

(* A machine that the dialog saved is one that secontrol was let in to,    *)
(* with the credential that it keeps, unless the form, or the key behind   *)
(* its id, changed after the test began: closing, opening, editing and     *)
(* failing tests take back the permission to save (invalidateConnectionTest). *)
SavedIsTestedUnlessOvertaken ==
    \A m \in Machines : saved[m] # NoProof /\ ~saved[m].excused => saved[m].proof = ProofOf(m)

(* "Required SSH connection test before a machine can be saved"            *)
(* (README.md:16).                                                         *)
SavedIsTested ==
    \A m \in Machines : saved[m] # NoProof => saved[m].proof = ProofOf(m)

=============================================================================
