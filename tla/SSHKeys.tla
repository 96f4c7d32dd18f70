------------------------------- MODULE SSHKeys -------------------------------
(***************************************************************************)
(* Table ssh_keys, the link agents.ssh_key_id and the copy of the key that *)
(* a machine keeps (internal/app/app.go): createSSHKey, generateSSHKey,    *)
(* deleteSSHKey, and the registration and removal of machines.             *)
(*                                                                         *)
(* deleteSSHKey counts the machines of a key and then deletes it;          *)
(* createAgent reads a key and then inserts a machine that refers to it.   *)
(* Nothing but the foreign key stands between them, and the id of a        *)
(* deleted key is given to the next one.  renameSSHKey touches only the    *)
(* name, which nothing here depends on.                                    *)
(***************************************************************************)
EXTENDS Integers

CONSTANTS
    MaxKeyId,     \* bound: ids of ssh_keys
    PrivateKeys,  \* the key pairs there are
    Passwords,
    Hosts,        \* where a machine is reached, and as whom
    Machines,     \* bound: rows of agents at the same time
    Calls,        \* bound: requests at the same time
    NoSecret, NoHost, NoMachine

Secrets == PrivateKeys \union Passwords

ASSUME KeysAssumption ==
    /\ MaxKeyId \in Nat
    /\ NoSecret \notin Secrets
    /\ NoHost \notin Hosts

NoKey == 0  \* keyId in a request, and ssh_key_id NULL

KeyIds == 1..MaxKeyId

(* reissued, as history: the id of the key was given to another key while  *)
(* the machine was being registered.                                       *)
Machine == [host : Hosts, key : {NoKey} \union KeyIds, credential : Secrets, reissued : BOOLEAN]

ASSUME NoMachineAssumption == NoMachine \notin Machine

Call == [op : {"none", "register", "removeKey"}, pc : {"idle", "sent", "read", "counted"},
         host : Hosts \union {NoHost}, key : {NoKey} \union KeyIds,
         secret : Secrets \union {NoSecret}, reissued : BOOLEAN]

VARIABLES
    keys,      \* table ssh_keys: the private key of each row
    machines,  \* table agents
    calls      \* the handlers at work

keyVars == <<keys, machines, calls>>

NoCall == [op |-> "none", pc |-> "idle", host |-> NoHost, key |-> NoKey,
           secret |-> NoSecret, reissued |-> FALSE]

Stored(k) == k \in KeyIds /\ keys[k] # NoSecret

Registered(m) == machines[m] # NoMachine

InUse(k) == \E m \in Machines : Registered(m) /\ machines[m].key = k

Known == {keys[k] : k \in KeyIds} \union {calls[c].secret : c \in Calls}
         \union {machines[m].credential : m \in {n \in Machines : Registered(n)}}

KeysInit ==
    /\ keys = [k \in KeyIds |-> NoSecret]
    /\ machines = [m \in Machines |-> NoMachine]
    /\ calls = [c \in Calls |-> NoCall]

-----------------------------------------------------------------------------
(* Mutant: INSERT OR REPLACE.                                              *)
AnyKeyId(k) == k \in KeyIds

(* INTEGER PRIMARY KEY without AUTOINCREMENT.                              *)
IsNextKeyId(k) ==
    /\ k \in KeyIds
    /\ \A j \in KeyIds : Stored(j) => j < k
    /\ k = 1 \/ Stored(k - 1)

(* createSSHKey, with a key pair that the user may have saved before.      *)
SaveKey(k, s) ==
    /\ IsNextKeyId(k)
    /\ s \in PrivateKeys
    /\ keys' = [keys EXCEPT ![k] = s]
    /\ calls' = [c \in Calls |->
                   [calls[c] EXCEPT !.reissued =
                      @ \/ (calls[c].pc = "read" /\ calls[c].key = k)]]
    /\ UNCHANGED machines

(* generateSSHKey: a key pair that nobody has yet.                         *)
GenerateKey(k, s) ==
    /\ s \notin Known
    /\ SaveKey(k, s)

(* deleteSSHKey: 409 if the key is in use.                                 *)
CountUses(c, k) ==
    /\ calls[c].op = "none"
    /\ Stored(k)
    /\ ~InUse(k)
    /\ calls' = [calls EXCEPT ![c] = [NoCall EXCEPT !.op = "removeKey", !.pc = "counted", !.key = k]]
    /\ UNCHANGED <<keys, machines>>

(* Mutant: no foreign key, the count alone protects a key.                 *)
RemoveKeyUnguarded(c) ==
    /\ calls[c].pc = "counted"
    /\ keys' = [keys EXCEPT ![calls[c].key] = NoSecret]
    /\ calls' = [calls EXCEPT ![c] = NoCall]
    /\ UNCHANGED machines

(* DELETE FROM ssh_keys: the foreign key refuses what the count missed.    *)
RemoveKey(c) ==
    /\ calls[c].pc = "counted"
    /\ keys' = IF InUse(calls[c].key) THEN keys ELSE [keys EXCEPT ![calls[c].key] = NoSecret]
    /\ calls' = [calls EXCEPT ![c] = NoCall]
    /\ UNCHANGED machines

-----------------------------------------------------------------------------
(* POST /api/agents with a saved key, or with a password or a pasted key.  *)
Register(c, h, k, s) ==
    /\ calls[c].op = "none"
    /\ k = NoKey <=> s # NoSecret
    /\ calls' = [calls EXCEPT ![c] = [op |-> "register", pc |-> "sent", host |-> h, key |-> k,
                                      secret |-> s, reissued |-> FALSE]]
    /\ UNCHANGED <<keys, machines>>

(* Mutant: a key that is not there is read as an empty one.                *)
ReadKeyUnchecked(c) ==
    /\ calls[c].pc = "sent"
    /\ calls' = [calls EXCEPT ![c].pc = "read",
                              ![c].secret = IF calls[c].key = NoKey THEN @ ELSE keys[calls[c].key]]
    /\ UNCHANGED <<keys, machines>>

(* createAgent reads and decrypts the key.                                 *)
ReadKey(c) ==
    /\ calls[c].pc = "sent"
    /\ calls[c].key = NoKey \/ Stored(calls[c].key)
    /\ calls' = [calls EXCEPT ![c].pc = "read",
                              ![c].secret = IF calls[c].key = NoKey THEN @ ELSE keys[calls[c].key]]
    /\ UNCHANGED <<keys, machines>>

(* "selected SSH key was not found"                                        *)
KeyNotFound(c) ==
    /\ calls[c].pc = "sent"
    /\ calls[c].key # NoKey /\ ~Stored(calls[c].key)
    /\ calls' = [calls EXCEPT ![c] = NoCall]
    /\ UNCHANGED <<keys, machines>>

(* INSERT INTO agents                                                      *)
Insert(c, m) ==
    LET q == calls[c] IN
    /\ q.pc = "read"
    /\ q.key = NoKey \/ Stored(q.key)
    /\ ~Registered(m)
    /\ machines' = [machines EXCEPT ![m] = [host |-> q.host, key |-> q.key,
                                            credential |-> q.secret, reissued |-> q.reissued]]
    /\ calls' = [calls EXCEPT ![c] = NoCall]
    /\ UNCHANGED keys

(* The foreign key fails, or the client has gone.                          *)
InsertFails(c) ==
    /\ calls[c].pc = "read"
    /\ calls' = [calls EXCEPT ![c] = NoCall]
    /\ UNCHANGED <<keys, machines>>

(* deleteAgent                                                             *)
DeleteMachine(m) ==
    /\ Registered(m)
    /\ machines' = [machines EXCEPT ![m] = NoMachine]
    /\ UNCHANGED <<keys, calls>>

-----------------------------------------------------------------------------
(* Every variable keeps its type.                                          *)
KeysTypeOK ==
    /\ keys \in [KeyIds -> PrivateKeys \union {NoSecret}]
    /\ machines \in [Machines -> Machine \union {NoMachine}]
    /\ calls \in [Calls -> Call]

(* "deletion protection for assigned keys" (README.md:18): the key of a    *)
(* machine is there, although it is counted, read and deleted in separate  *)
(* statements of concurrent requests.                                      *)
KeysInUseStay ==
    \A m \in Machines : Registered(m) /\ machines[m].key # NoKey => Stored(machines[m].key)

(* The copy that a machine keeps is its key, so that the assignment shown  *)
(* with a key tells who can be reached with it; unless the id of the key   *)
(* was reissued while the machine was being registered.                    *)
CredentialIsKey ==
    \A m \in Machines : Registered(m) /\ machines[m].key # NoKey /\ ~machines[m].reissued
                            => machines[m].credential = keys[machines[m].key]

=============================================================================
