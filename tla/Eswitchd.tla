------------------------------ MODULE Eswitchd ------------------------------
(***************************************************************************)
(* The eswitchd daemon: the port table and the port policy of an eSwitch   *)
(* (eswitch_db.py), the hardware they stand for, and every message that    *)
(* changes them (msg_handler.py, eswitch_handler.py).                      *)
(*                                                                         *)
(* Nova plugs and unplugs vnics by ebrctl, the L2 agent sets their VLAN    *)
(* and releases them when they have gone.  The daemon keeps nothing on     *)
(* disk: started again, it takes what the libvirt domains hold and what    *)
(* the hardware says (resource_mngr.py).  The hardware is written by a     *)
(* command per attribute, any of which may fail after the tables have      *)
(* changed; the handler then raises, and the answer is no JSON.            *)
(***************************************************************************)
EXTENDS Integers, FiniteSets

CONSTANTS Vfs,         \* virtual functions of the eSwitch
          Macs,        \* vnics
          Vlans,       \* segmentation ids; 0 is a flat network
          Partitions,  \* those whose pkey the subnet manager gave the port
          DeviceTypes, \* of VFs, see Kinds
          NoVf, NoMac, NoVlan,
          InvalidMac,  \* 00:00:00:00:00:00
          ClearedMac,  \* what the invalid GUID of an MLNX5 reads as
          MaxFaults    \* bound on commands and scans that fail

ASSUME NamesAssumption ==
    /\ NoVf \notin Vfs
    /\ Macs \cap {NoMac, InvalidMac, ClearedMac} = {}
    /\ NoMac \notin {InvalidMac, ClearedMac}
    /\ InvalidMac # ClearedMac
    /\ NoVlan \notin Vlans
Kinds == {"MLNX4", "MLNX5"}
ASSUME TypesAssumption == DeviceTypes \subseteq Kinds
ASSUME PartitionsAssumption == Partitions \subseteq Vlans
ASSUME FaultsAssumption == MaxFaults \in Nat

Vnics == Macs \cup {InvalidMac, ClearedMac}
PortStates == {"none", "pending", "attached", "unplugged"}

VARIABLES
    kind,     \* device type of the VFs
    vnic,     \* port_table: the vnic of each VF
    state,    \* port_table: its state
    dev,      \* port_policy: the VF of each vnic, NoVf when it has no entry
    vlan,     \* port_policy: its VLAN
    guid,     \* hardware: GUID of each VF, NoMac when it is the invalid one
    pkey,     \* hardware: the VLAN whose pkey has index 0, NoVlan for none
    place,    \* Nova: the VF each vnic is given
    plugged,  \* Nova: vnics whose last add-port succeeded
    domain,   \* libvirt: VFs that are hostdevs of a domain
    asked,    \* history: <<mac, vlan>> of the agent's requests
    faults

tables == <<vnic, state, dev, vlan>>
hardware == <<guid, pkey>>
nova == <<place, plugged, domain>>
vars == <<kind, tables, hardware, nova, asked, faults>>

TypeOK == /\ kind \in Kinds
          /\ vnic \in [Vfs -> Vnics \cup {NoMac}]
          /\ state \in [Vfs -> PortStates]
          /\ dev \in [Vnics -> Vfs \cup {NoVf}]
          /\ vlan \in [Vnics -> Vlans \cup {NoVlan}]
          /\ guid \in [Vfs -> Macs \cup {NoMac}]
          /\ pkey \in [Vfs -> Partitions \cup {NoVlan}]
          /\ place \in [Macs -> Vfs \cup {NoVf}]
          /\ plugged \subseteq Macs
          /\ domain \subseteq Vfs
          /\ asked \subseteq Macs \X Vlans
          /\ faults \in 0 .. MaxFaults

Init == /\ kind \in DeviceTypes
        /\ vnic = [v \in Vfs |-> NoMac]
        /\ state = [v \in Vfs |-> "none"]
        /\ dev = [m \in Vnics |-> NoVf]
        /\ vlan = [m \in Vnics |-> NoVlan]
        /\ guid = [v \in Vfs |-> NoMac]
        /\ pkey = [v \in Vfs |-> NoVlan]
        /\ place = [m \in Macs |-> NoVf]
        /\ plugged = {}
        /\ domain = {}
        /\ asked = {}
        /\ faults = 0

Fault(happens) == /\ happens => faults < MaxFaults
                  /\ faults' = IF happens THEN faults + 1 ELSE faults

-----------------------------------------------------------------------------
(* The tables and the hardware.                                            *)

Carries(v) == vnic[v] # NoMac /\ state[v] = "attached"

\* get_attached_vnics, by which every request looks for its vnic, raises when a
\* VF carries a vnic that has no policy.
Attached == {vnic[v] : v \in {u \in Vfs : Carries(u)}}
Answerable == \A v \in Vfs : Carries(v) => dev[vnic[v]] # NoVf
Found(m) == Answerable /\ m \in Attached

Writes == 0 .. 3   \* commands of _config_vf_mac_address that succeed; 3 is all

\* Mutant of ConfigVf: the GUID is written before the pkey is taken away.
ConfigVfGuidFirst(v, g, n) ==
    /\ guid' = IF n >= 1 THEN [guid EXCEPT ![v] = g] ELSE guid
    /\ pkey' = IF n >= 2 /\ kind = "MLNX4" THEN [pkey EXCEPT ![v] = NoVlan]
                                           ELSE pkey

\* An MLNX4 loses its pkey, is given the GUID, then the default pkey at index 1.
\* An MLNX5 is given the GUID, then its policy is set and its driver bound anew.
ConfigVf(v, g, n) ==
    /\ pkey' = IF n >= 1 /\ kind = "MLNX4" THEN [pkey EXCEPT ![v] = NoVlan]
                                           ELSE pkey
    /\ guid' = IF n >= 2 THEN [guid EXCEPT ![v] = g] ELSE guid

\* Mutant of ConfigVlan: an index that was not found is written all the same.
ConfigVlanAnyway(v, l) == pkey' = IF kind = "MLNX4" THEN [pkey EXCEPT ![v] = l]
                                                   ELSE pkey

\* No pkey of the VLAN on the port: nothing is written and nothing is said.
ConfigVlan(v, l) == pkey' = IF kind = "MLNX4" /\ l \in Partitions
                            THEN [pkey EXCEPT ![v] = l] ELSE pkey

-----------------------------------------------------------------------------
(* The requests.                                                           *)

\* Mutant of PlugNic: a vnic that has a policy keeps the VF named there.
PlugNicKeepsDev(v, m, n) ==
    /\ vnic' = [vnic EXCEPT ![v] = m]
    /\ dev' = IF dev[m] = NoVf THEN [dev EXCEPT ![m] = v] ELSE dev
    /\ vlan' = [vlan EXCEPT ![m] = NoVlan]
    /\ ConfigVf(v, m, n)
    /\ state' = IF n = 3 THEN [state EXCEPT ![v] = "attached"] ELSE state

\* The policy is written anew, and the table too, before the hardware is; the
\* VF is attached after it.
PlugNic(v, m, n) ==
    /\ vnic' = [vnic EXCEPT ![v] = m]
    /\ dev' = [dev EXCEPT ![m] = v]
    /\ vlan' = [vlan EXCEPT ![m] = NoVlan]
    /\ ConfigVf(v, m, n)
    /\ state' = IF n = 3 THEN [state EXCEPT ![v] = "attached"] ELSE state

\* The policy stays.
DetachVnic(m) == /\ vnic' = [vnic EXCEPT ![dev[m]] = NoMac]
                 /\ state' = [state EXCEPT ![dev[m]] = "unplugged"]
                 /\ UNCHANGED <<dev, vlan>>

DeletePort(m, n) ==
    \/ Found(m) /\ DetachVnic(m) /\ ConfigVf(dev[m], NoMac, n)
    \/ ~Found(m) /\ UNCHANGED <<tables, hardware>>

\* SetVLAN answers OK if the vnic is attached and its VF is one that can be set.
SetVlanOk(m) == Found(m) /\ state[dev[m]] \in {"attached", "unplugged"}

\* The table has the VLAN before the hardware has it, or fails to.
SetVlan(m, l, written) ==
    /\ vlan' = IF Found(m) THEN [vlan EXCEPT ![m] = l] ELSE vlan
    /\ IF SetVlanOk(m) /\ written THEN ConfigVlan(dev[m], l) ELSE UNCHANGED pkey
    /\ UNCHANGED <<vnic, state, dev, guid>>

\* Mutant of DropPolicy: the VF stays attached.
DropPolicyOnly(m) == /\ dev' = [dev EXCEPT ![m] = NoVf]
                     /\ vlan' = [vlan EXCEPT ![m] = NoVlan]
                     /\ UNCHANGED <<vnic, state>>

\* eSwitchDB.port_release: the vnic stays in the table.
DropPolicy(m) == /\ dev' = [dev EXCEPT ![m] = NoVf]
                 /\ vlan' = [vlan EXCEPT ![m] = NoVlan]
                 /\ state' = [state EXCEPT ![dev[m]] = "none"]
                 /\ UNCHANGED vnic

\* Mutant of PortRelease: the policy alone says which VF to release.
PortReleaseUnchecked(m) == /\ IF dev[m] # NoVf THEN DropPolicy(m)
                                               ELSE UNCHANGED tables
                           /\ UNCHANGED hardware

\* The vnic is looked for among those attached, so one that was unplugged keeps
\* its policy.  (The VLAN of a VF found unplugged, which needs a vnic attached to
\* two of them, is set to 4095, which is no partition, and dropped.)
PortRelease(m) == /\ IF Found(m) THEN DropPolicy(m) ELSE UNCHANGED tables
                  /\ UNCHANGED hardware

-----------------------------------------------------------------------------
(* The scan at start.                                                      *)

\* get_vfs_macs_ib: the MAC is cut out of the GUID.
MacOf(v) == CASE guid[v] # NoMac -> guid[v]
              [] guid[v] = NoMac /\ kind = "MLNX4" -> InvalidMac
              [] guid[v] = NoMac /\ kind = "MLNX5" -> ClearedMac

\* attach_vnic: the first VF read with the MAC of a vnic becomes its policy's.
FirstVf(m, read) == IF m = InvalidMac \/ \A v \in read : MacOf(v) # m
                    THEN {NoVf} ELSE {v \in read : MacOf(v) = m}

\* The VFs that were read are attached to what they were read with, and to nothing
\* that has no policy.
Restart(read) ==
    /\ vnic' = [v \in Vfs |-> IF v \in read THEN MacOf(v) ELSE NoMac]
    /\ dev' \in {d \in [Vnics -> Vfs \cup {NoVf}] :
                    \A m \in Vnics : d[m] \in FirstVf(m, read)}
    /\ state' = [v \in Vfs |-> CASE v \notin read -> "none"
                                 [] v \in read /\ MacOf(v) = InvalidMac -> "pending"
                                 [] v \in read /\ MacOf(v) # InvalidMac -> "attached"]
    /\ vlan' = [m \in Vnics |-> NoVlan]

\* The GUIDs of the whole fabric cannot be read: its VFs are passed over.
DaemonRestarts == /\ \/ Restart(domain) /\ Fault(FALSE)
                     \/ Restart({}) /\ Fault(TRUE)
                  /\ UNCHANGED <<kind, hardware, nova, asked>>

-----------------------------------------------------------------------------
(* Nova: ebrctl add-port and del-port, and the domains of libvirt.         *)

Plug(v, m) == /\ \/ place[m] = v
                 \/ place[m] = NoVf /\ \A o \in Macs : place[o] # v
              /\ place' = [place EXCEPT ![m] = v]
              /\ \E n \in Writes :
                    /\ PlugNic(v, m, n)
                    /\ Fault(n < 3)
                    /\ plugged' = IF n = 3 THEN plugged \cup {m} ELSE plugged \ {m}
              /\ UNCHANGED <<kind, domain, asked>>

\* The guest goes for good, or its VF is kept for it to be started again.
Unplug(m) == /\ place[m] # NoVf
             /\ \E n \in Writes : DeletePort(m, n) /\ Fault(n < 3)
             /\ plugged' = plugged \ {m}
             /\ \/ UNCHANGED <<place, domain>>
                \/ /\ place' = [place EXCEPT ![m] = NoVf]
                   /\ domain' = domain \ {place[m]}
             /\ UNCHANGED <<kind, asked>>

DefineDomain(m) == /\ m \in plugged
                   /\ place[m] \notin domain
                   /\ domain' = domain \cup {place[m]}
                   /\ UNCHANGED <<kind, tables, hardware, place, plugged, asked, faults>>

(* The agent may ask for anything at any time; MlnxAgent says what it does. *)

AgentSetsVlan(m, l, written) == /\ SetVlan(m, l, written)
                                /\ Fault(~written)
                                /\ asked' = asked \cup {<<m, l>>}
                                /\ UNCHANGED <<kind, nova>>

AgentReleases(m) == PortRelease(m) /\ UNCHANGED <<kind, nova, asked, faults>>

Next == \/ DaemonRestarts
        \/ \E m \in Macs : \/ \E v \in Vfs : Plug(v, m)
                           \/ Unplug(m) \/ DefineDomain(m)
                           \/ \E l \in Vlans, w \in BOOLEAN : AgentSetsVlan(m, l, w)
                           \/ AgentReleases(m)

Spec == Init /\ [][Next]_vars

-----------------------------------------------------------------------------
(* Properties.                                                             *)

\* get_vnics never raises: it would end the agent, which takes an answer that is
\* no JSON for no timeout (get_attached_vnics; scan_ports and run of the agent).
AlwaysAnswerable == Answerable

\* What the daemon configures for a vnic it configures on the VF that carries it
\* and that Nova gave it, whatever failed, was released or started again before:
\* get_dev_for_vnic asks the policy, get_attached_vnics the table.
RightVf == \A v \in Vfs : Carries(v) /\ vnic[v] \in Macs =>
               /\ dev[vnic[v]] = v
               /\ place[vnic[v]] = v
               /\ kind = "MLNX4" => guid[v] = vnic[v]

\* A VF never has the pkey of a VLAN that was not asked for the vnic whose GUID
\* it has: not of the guest that had it before, not after a command that failed
\* (_config_vf_mac_address_mlnx4, _config_vlan_ib_mlnx4).
NoForeignVlan ==
    \A v \in Vfs : pkey[v] # NoVlan => <<guid[v], pkey[v]>> \in asked

\* A vnic that was plugged stays attached until it is plugged or unplugged
\* itself, is released, or the daemon starts and does not find it in a domain.
StaysAttached ==
    [][\A m \in plugged \cap Attached :
          \/ m \in Attached' \cup (Macs \ plugged')
          \/ PortRelease(m)
          \/ Restart({})
          \/ place[m] \notin domain /\ Restart(domain)]_vars

=============================================================================
