-------------------------- MODULE MachineLifecycle --------------------------
(***************************************************************************)
(* What the provider promises of one LibvirtMachine name, as seen by an    *)
(* administrator of the libvirt host who knows nothing of caches, queues,  *)
(* reconciles, failed calls and crashes:                                   *)
(*                                                                         *)
(*  - the name owns something on the host only while a LibvirtMachine      *)
(*    holds it with its finalizer;                                         *)
(*  - a held machine has one identity, from the first to the last moment,  *)
(*    and its domain never has another one;                                *)
(*  - a domain is defined when all its parts are there, and parts are taken *)
(*    away only from a machine whose deletion was requested, without a     *)
(*    domain on top of them;                                               *)
(*  - the name is given up when nothing is left.                           *)
(*                                                                         *)
(* Module LibvirtMachine implements it.                                    *)
(***************************************************************************)
CONSTANTS
    UIDs,       \* identities
    None        \* no identity

VARIABLES
    phase,      \* "free", "held", or "deleting" once deletion is requested
    id,         \* the identity of the machine that holds the name
    recorded,   \* the identity is in spec.providerID
    domain,     \* the UUID of the domain on the host, or None
    parts       \* what the domain needs and has on the host

vars == <<phase, id, recorded, domain, parts>>

Parts == {"rootDisk", "isoDisk", "reservation"}

Init ==
    /\ phase = "free" /\ id = None /\ recorded = FALSE
    /\ domain = None /\ parts = {}

\* A LibvirtMachine takes the name.
Hold ==
    /\ phase = "free"
    /\ phase' = "held"
    /\ id' \in UIDs
    /\ UNCHANGED <<recorded, domain, parts>>

Build ==
    /\ phase # "free"
    /\ \E p \in Parts \ parts : parts' = parts \cup {p}
    /\ UNCHANGED <<phase, id, recorded, domain>>

Define ==
    /\ phase # "free"
    /\ parts = Parts
    /\ domain = None
    /\ domain' = id
    /\ UNCHANGED <<phase, id, recorded, parts>>

\* The domain goes, undefined by the provider or by anybody on the host.
Lose ==
    /\ domain # None
    /\ domain' = None
    /\ UNCHANGED <<phase, id, recorded, parts>>

Record ==
    /\ phase # "free"
    /\ ~recorded
    /\ recorded' = TRUE
    /\ UNCHANGED <<phase, id, domain, parts>>

RequestDeletion ==
    /\ phase = "held"
    /\ phase' = "deleting"
    /\ UNCHANGED <<id, recorded, domain, parts>>

Dismantle ==
    /\ phase = "deleting"
    /\ domain = None
    /\ \E p \in parts : parts' = parts \ {p}
    /\ UNCHANGED <<phase, id, recorded, domain>>

Release ==
    /\ phase = "deleting"
    /\ domain = None /\ parts = {}
    /\ phase' = "free" /\ id' = None /\ recorded' = FALSE
    /\ UNCHANGED <<domain, parts>>

Next == Hold \/ Build \/ Define \/ Lose \/ Record \/ RequestDeletion
          \/ Dismantle \/ Release

Spec == Init /\ [][Next]_vars
=============================================================================
