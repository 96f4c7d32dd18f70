----------------------------- MODULE MasterKey -----------------------------
(***************************************************************************)
(* The key that stored credentials are encrypted with (loadKey, encrypt    *)
(* and decrypt, internal/app/app.go): APP_MASTER_KEY if it is set, else    *)
(* master.key in the data directory, else a new key that is written there. *)
(* Whatever keeps loadKey from reading 32 bytes counts as "no key yet".    *)
(***************************************************************************)
EXTENDS Integers

CONSTANTS
    Rows,      \* the rows with a credential: machines and SSH keys
    EnvKeys,   \* the valid values of APP_MASTER_KEY
    MaxKeys,   \* bound: generated keys that are used
    Unset, Invalid,   \* the other values of APP_MASTER_KEY
    Absent, Short,    \* master.key without a key
    Down,             \* no process runs
    NoSeal            \* a row that does not exist

Generated == 1..MaxKeys

Keys == EnvKeys \union Generated

ASSUME KeyAssumption ==
    /\ MaxKeys \in Nat
    /\ EnvKeys \intersect Generated = {}
    /\ {Unset, Invalid, Absent, Short, Down, NoSeal} \intersect Keys = {}
    /\ Unset # Invalid

VARIABLES
    env,        \* APP_MASTER_KEY of the next or the running process
    file,       \* master.key
    generated,  \* the number of generated keys that were used so far
    master,     \* the key of the running process
    sealed,     \* the key that each credential is encrypted with
    hit         \* history: keys whose file was damaged or could not be read

keyVars == <<env, file, generated, master, sealed, hit>>

KeyType ==
    /\ env \in EnvKeys \union {Unset, Invalid}
    /\ file \in Generated \union {Absent, Short}
    /\ generated \in 0..MaxKeys
    /\ master \in Keys \union {Down}
    /\ sealed \in [Rows -> Keys \union {NoSeal}]
    /\ hit \subseteq Generated

KeyInit ==
    /\ env = Unset /\ file = Absent /\ generated = 0
    /\ master = Down
    /\ sealed = [r \in Rows |-> NoSeal]
    /\ hit = {}

-----------------------------------------------------------------------------
(* loadKey. With an invalid APP_MASTER_KEY the process does not start.     *)

LoadEnv ==
    /\ master = Down /\ env \in EnvKeys
    /\ master' = env
    /\ UNCHANGED <<env, file, generated, sealed, hit>>

LoadFile ==
    /\ master = Down /\ env = Unset /\ file \in Generated
    /\ master' = file
    /\ UNCHANGED <<env, file, generated, sealed, hit>>

(* Mutant: the new key is not written.                                     *)
GenerateUnsaved ==
    /\ master = Down /\ env = Unset
    /\ generated < MaxKeys
    /\ hit' = hit \union ({file} \intersect Generated)
    /\ generated' = generated + 1
    /\ master' = generated + 1
    /\ UNCHANGED <<env, file, sealed>>

(* ReadFile fails, or the file has not 32 bytes. WriteFile truncates the   *)
(* file before it writes: a crash or a full disk leaves it short, and the  *)
(* key is not used. (If it cannot even be opened, nothing changes.)        *)
Generate ==
    /\ master = Down /\ env = Unset
    /\ generated < MaxKeys
    /\ hit' = hit \union ({file} \intersect Generated)
    /\ \/ generated' = generated + 1 /\ file' = generated' /\ master' = generated'
       \/ file' = Short /\ UNCHANGED <<generated, master>>
    /\ UNCHANGED <<env, sealed>>

(* The process is stopped, or crashes.                                     *)
StopProcess ==
    /\ master # Down
    /\ master' = Down
    /\ UNCHANGED <<env, file, generated, sealed, hit>>

(* encrypt, for a new row.                                                 *)
Seal(r) ==
    /\ master # Down
    /\ sealed[r] = NoSeal
    /\ sealed' = [sealed EXCEPT ![r] = master]
    /\ UNCHANGED <<env, file, generated, master, hit>>

(* decrypt: GCM authenticates, another key opens nothing.                  *)
Opens(r) == master # Down /\ sealed[r] = master

-----------------------------------------------------------------------------
(* The operator.                                                           *)

SetEnv(e) ==
    /\ master = Down
    /\ e # env
    /\ env' = e
    /\ UNCHANGED <<file, generated, master, sealed, hit>>

DamageFile(f) ==
    /\ f # file
    /\ file' = f
    /\ hit' = hit \union ({file} \intersect Generated)
    /\ UNCHANGED <<env, generated, master, sealed>>

KeyNext ==
    \/ LoadEnv
    \/ LoadFile
    \/ Generate
    \/ StopProcess
    \/ \E r \in Rows : Seal(r)
    \/ \E e \in EnvKeys \union {Unset, Invalid} : SetEnv(e)
    \/ \E f \in {Absent, Short} : DamageFile(f)

KeySpec == KeyInit /\ [][KeyNext]_keyVars

-----------------------------------------------------------------------------
(* What APP_MASTER_KEY was when a credential was sealed with key k.        *)
Source(k) == IF k \in EnvKeys THEN k ELSE Unset

(* Restarts, failed starts and detours over other values of APP_MASTER_KEY *)
(* lose no credential (README.md:13): a process that runs with the setting *)
(* under which a credential was stored opens it, unless master.key was     *)
(* damaged or unreadable since (app.go 1039: it is then replaced).         *)
CredentialsReadable ==
    \A r \in Rows :
       sealed[r] # NoSeal /\ master # Down /\ env = Source(sealed[r]) /\ sealed[r] \notin hit
         => Opens(r)

=============================================================================
