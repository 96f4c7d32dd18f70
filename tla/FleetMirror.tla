---------------------------- MODULE FleetMirror ----------------------------
(***************************************************************************)
(* What the collector promises, without goroutines, SSH or transactions.   *)
(* A fleet is a set of registered machines, each one standing for a host.  *)
(* The dashboard holds a mirror of every machine: a state its own host was *)
(* in, and never an older state than the one it showed before.             *)
(***************************************************************************)
EXTENDS Integers

CONSTANTS
    Hosts,       \* the addresses a machine can be registered with
    Ids,         \* the identifiers of machines
    MaxVersion,  \* bound on the number of changes of a host
    NoHost,      \* the value of fleet[i] when i is not registered
    NoSnapshot   \* the value of mirror[i] before the first observation

VARIABLES
    fleet,    \* the host of every machine
    mirror,   \* what the dashboard shows of every machine
    version   \* the state every host is in; it only moves forward

mirrorVars == <<fleet, mirror, version>>

Init ==
    /\ fleet = [i \in Ids |-> NoHost]
    /\ mirror = [i \in Ids |-> NoSnapshot]
    /\ version = [h \in Hosts |-> 0]

(* A machine is registered, with nothing known about it yet.               *)
Add(i, h) ==
    /\ fleet[i] = NoHost
    /\ fleet' = [fleet EXCEPT ![i] = h]
    /\ UNCHANGED <<mirror, version>>

(* A machine is removed, and its mirror with it.                           *)
Remove(i) ==
    /\ fleet[i] # NoHost
    /\ fleet' = [fleet EXCEPT ![i] = NoHost]
    /\ mirror' = [mirror EXCEPT ![i] = NoSnapshot]
    /\ UNCHANGED version

(* The mirror of a machine moves to a state that its host has been in, and *)
(* that is not older than the state already shown.                         *)
Observe(i, v) ==
    /\ fleet[i] # NoHost
    /\ v <= version[fleet[i]]
    /\ mirror[i] # NoSnapshot => mirror[i].version <= v
    /\ mirror' = [mirror EXCEPT ![i] = [host |-> fleet[i], version |-> v]]
    /\ UNCHANGED <<fleet, version>>

(* A host changes: containers start and stop, disks fill, services fail.   *)
Change(h) ==
    /\ version' = [version EXCEPT ![h] = @ + 1]
    /\ UNCHANGED <<fleet, mirror>>

Next ==
    \/ \E i \in Ids, h \in Hosts : Add(i, h)
    \/ \E i \in Ids : Remove(i)
    \/ \E i \in Ids, v \in 0..MaxVersion : Observe(i, v)
    \/ \E h \in Hosts : Change(h)

Spec == Init /\ [][Next]_mirrorVars

=============================================================================
