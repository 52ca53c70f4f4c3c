------------------------------ MODULE MlnxAgent ------------------------------
(***************************************************************************)
(* The L2 agent (mlnx_eswitch_neutron_agent.py) over the daemon of         *)
(* Eswitchd: its loop finds the vnics that came, went or were updated, and *)
(* configures them as Neutron says.                                        *)
(*                                                                         *)
(* While the loop waits for Neutron, or sleeps between two attempts to     *)
(* reach the daemon, other green threads handle the messages of Neutron;   *)
(* and Nova plugs and unplugs vnics at any time.  A request to the daemon  *)
(* is one step here (EswitchRpc shows its attempts); one that times out    *)
(* may have been served or not.                                            *)
(***************************************************************************)
EXTENDS Eswitchd

CONSTANTS Gone,          \* a port Neutron does not have
          MaxChanges,    \* bound on what Nova and Neutron do, and on restarts
          MaxFailures    \* bound on requests and calls that fail

ASSUME FlatAssumption == 0 \in Vlans
ASSUME GoneAssumption == Gone \notin [up : BOOLEAN, vlan : Vlans \cup {NoVlan}]
ASSUME AgentBoundsAssumption == MaxChanges \in Nat /\ MaxFailures \in Nat

VARIABLES
    port,      \* Neutron: the port of each vnic
    notes,     \* port_update messages on their way to the agent
    reported,  \* the last status the agent gave Neutron for the device
    updated,   \* updated_ports
    mapped,    \* vnics found in the ports of network_map
    sync,      \* run: sync
    info,      \* run: port_info
    pc,        \* where the loop stands
    todo,      \* devices added or updated, still to be treated
    details,   \* what Neutron said of them
    gone,      \* devices removed, still to be treated
    at,        \* the device in hand
    resync,    \* what process_network_ports is to return
    lost,      \* history: devices the agent knew before it was started again
    changes, failures

loop == <<sync, info, pc, todo, details, gone, at, resync>>
neutron == <<port, notes, reported>>
agent == <<neutron, updated, mapped, loop, lost>>
agentVars == <<vars, agent, changes, failures>>

Ports == [up : BOOLEAN,
          vlan : (Vlans \ {0}) \cup {NoVlan}]   \* a flat network has none
LoopPlaces == {"scan",     \* the next scan_ports
               "fetch",    \* get_devices_details_list
               "treat",    \* the devices it listed
               "vlan",     \* port_up: set_port_vlan_id of a VLAN network
               "again",    \* port_up: set_port_vlan_id of any network
               "report",   \* port_up or port_down, then update_device_up or _down
               "remove",   \* treat_devices_removed
               "release"}  \* port_release
NoInfo == [current |-> {}, removed |-> {}, updated |-> {}]
NoDetails == [m \in Vnics |-> Gone]
Nobody == InvalidMac

AgentTypeOK ==
    /\ TypeOK
    /\ port \in [Vnics -> Ports \cup {Gone}]
    /\ notes \subseteq Macs /\ updated \subseteq Macs /\ mapped \subseteq Macs
    /\ reported \in [Vnics -> {"none", "up", "down"}]
    /\ sync \in BOOLEAN /\ resync \in BOOLEAN
    /\ info \in [current : SUBSET Vnics, removed : SUBSET Vnics,
                updated : SUBSET Vnics]
    /\ pc \in LoopPlaces
    /\ todo \subseteq info.current /\ gone \subseteq Vnics
    /\ details \in [Vnics -> Ports \cup {Gone}]
    /\ at \in Vnics
    /\ lost \subseteq Vnics
    /\ changes \in 0 .. MaxChanges /\ failures \in 0 .. MaxFailures

AgentInit == /\ Init
             /\ port \in {p \in [Vnics -> Ports \cup {Gone}] :
                              \A m \in Vnics : (p[m] = Gone) = (m \notin Macs)}
             /\ notes = {} /\ updated = {} /\ mapped = {} /\ lost = {}
             /\ reported = [m \in Vnics |-> "none"]
             /\ sync = TRUE /\ info = NoInfo
             /\ pc = "scan" /\ resync = FALSE
             /\ todo = {} /\ gone = {} /\ at = Nobody /\ details = NoDetails
             /\ changes = 0 /\ failures = 0

Change == changes < MaxChanges /\ changes' = changes + 1 /\ UNCHANGED failures
Failure == failures < MaxFailures /\ failures' = failures + 1 /\ UNCHANGED changes
Quiet == UNCHANGED <<changes, failures>>

-----------------------------------------------------------------------------
(* scan_ports.                                                             *)

Added(cur) == IF sync THEN cur ELSE cur \ info.current

\* Mutant of ScanInfo: after a failure, updates are not treated again.
ScanInfoForgets(cur) ==
    [current |-> cur,
     removed |-> info.current \ cur,
     updated |-> updated \cap cur]

\* Mutant of ScanInfo: updates of vnics that are not there are not left out.
ScanInfoAll(cur) ==
    [current |-> cur,
     removed |-> ((IF sync THEN info.removed ELSE {}) \cup info.current) \ cur,
     updated |-> (IF sync THEN info.updated ELSE {}) \cup updated]

ScanInfo(cur) ==
    [current |-> cur,
     removed |-> ((IF sync THEN info.removed ELSE {}) \cup info.current) \ cur,
     updated |-> ((IF sync THEN info.updated ELSE {}) \cup updated) \cap cur]

\* updated_ports is replaced when the vnics have been read, in the same step.
ScanPorts ==
    /\ pc = "scan"
    /\ Answerable
    /\ info' = ScanInfo(Attached)
    /\ updated' = {}
    /\ sync' = FALSE
    /\ todo' = Added(Attached) \cup info'.updated
    /\ gone' = info'.removed
    /\ pc' = CASE todo' # {} -> "fetch"
               [] todo' = {} /\ gone' # {} -> "remove"
               [] todo' \cup gone' = {} -> "scan"
    /\ lost' = lost \ Attached
    /\ UNCHANGED <<vars, neutron, mapped, details, at, resync>> /\ Quiet

\* run: except RequestTimeout.
ScanTimesOut == /\ pc = "scan" /\ Failure
                /\ sync' = TRUE
                /\ UNCHANGED <<vars, neutron, updated, mapped, info, pc, todo,
                               details, gone, at, resync, lost>>

-----------------------------------------------------------------------------
(* treat_devices_added_or_updated.                                         *)

\* Mutant of Aborts: the exception is logged only.
AbortsOnly == /\ pc' = "scan" /\ resync' = FALSE
              /\ todo' = {} /\ gone' = {} /\ at' = Nobody /\ details' = NoDetails
              /\ UNCHANGED sync

\* An exception ends process_network_ports: run asks for a resync.
Aborts == /\ pc' = "scan" /\ resync' = FALSE
          /\ todo' = {} /\ gone' = {} /\ at' = Nobody /\ details' = NoDetails
          /\ sync' = TRUE

Fetch == /\ pc = "fetch"
         /\ \/ pc' = "treat" /\ details' = port /\ Quiet /\ UNCHANGED <<todo, resync>>
            \/ /\ pc' = "remove" /\ resync' = TRUE /\ todo' = {}
               /\ Failure /\ UNCHANGED details
         /\ UNCHANGED <<vars, neutron, updated, mapped, sync, info, gone, at, lost>>

\* Mutant of SegId: a flat network has none.
SegIdNone(p) == p.vlan

SegId(p) == IF p.vlan = NoVlan THEN 0 ELSE p.vlan

\* treat_vif_port and the first lines of port_up, if the vnic is there; or the
\* request that asks whether it is fails.
Treat(m) ==
    /\ pc = "treat" /\ m \in todo
    /\ \/ /\ todo' = todo \ {m}
          /\ at' = IF details[m] = Gone THEN Nobody ELSE m
          /\ LET up == details[m] # Gone /\ m \in Attached /\ details[m].up IN
             /\ mapped' = IF up THEN mapped \cup {m} ELSE mapped
             /\ pc' = CASE details[m] = Gone -> "treat"
                        [] details[m] # Gone /\ ~up -> "report"
                        [] up -> IF details[m].vlan = NoVlan THEN "again" ELSE "vlan"
          /\ UNCHANGED <<sync, details, gone, resync>> /\ Quiet
       \/ details[m] # Gone /\ UNCHANGED mapped /\ Aborts /\ Failure
    /\ UNCHANGED <<vars, neutron, updated, info, lost>>

\* The answer is OK; or it is FAIL, or no JSON; or there is none, and the request
\* was served or not.
SetPortVlan ==
    /\ pc \in {"vlan", "again"}
    /\ \/ /\ SetVlanOk(at) /\ AgentSetsVlan(at, SegId(details[at]), TRUE)
          /\ pc' = IF pc = "vlan" THEN "again" ELSE "report"
          /\ UNCHANGED <<sync, todo, details, gone, at, resync>> /\ Quiet
       \/ /\ ~SetVlanOk(at) /\ AgentSetsVlan(at, SegId(details[at]), TRUE)
          /\ Aborts /\ Quiet
       \/ AgentSetsVlan(at, SegId(details[at]), FALSE) /\ Aborts /\ Quiet
       \/ /\ AgentSetsVlan(at, SegId(details[at]), TRUE) \/ UNCHANGED vars
          /\ Aborts /\ Failure
    /\ UNCHANGED <<neutron, updated, mapped, info, lost>>

\* The device is reported even if treat_vif_port did not find its vnic.
ReportDevice ==
    /\ pc = "report"
    /\ \/ /\ reported' = [reported EXCEPT ![at] = IF details[at].up THEN "up" ELSE "down"]
          /\ \/ /\ pc' = "treat" /\ at' = Nobody
                /\ UNCHANGED <<sync, todo, details, gone, resync>> /\ Quiet
             \/ Aborts /\ Failure
       \/ UNCHANGED reported /\ Aborts /\ Failure
    /\ UNCHANGED <<vars, port, notes, updated, mapped, info, lost>>

AllTreated == /\ pc = "treat" /\ todo = {}
              /\ pc' = "remove" /\ details' = NoDetails
              /\ UNCHANGED <<vars, neutron, updated, mapped, sync, info, todo,
                             gone, at, resync, lost>>
              /\ Quiet

-----------------------------------------------------------------------------
(* treat_devices_removed.                                                  *)

\* get_port_id_by_mac raises for a device that is not in the map.
Remove(m) ==
    /\ pc = "remove" /\ m \in gone
    /\ gone' = gone \ {m}
    /\ \/ /\ m \notin mapped
          /\ resync' = TRUE /\ UNCHANGED <<pc, at, reported>> /\ Quiet
       \/ /\ m \in mapped
          /\ reported' = [reported EXCEPT ![m] = "down"]
          /\ \/ pc' = "release" /\ at' = m /\ UNCHANGED resync /\ Quiet
             \/ resync' = TRUE /\ UNCHANGED <<pc, at>> /\ Failure
       \/ /\ m \in mapped
          /\ resync' = TRUE /\ UNCHANGED <<pc, at, reported>> /\ Failure
    /\ UNCHANGED <<vars, port, notes, updated, mapped, sync, info, todo, details, lost>>

\* The network may have been deleted while the loop waited for Neutron.
Release ==
    /\ pc = "release"
    /\ \/ /\ IF at \in mapped THEN AgentReleases(at) ELSE UNCHANGED vars
          /\ pc' = "remove" /\ at' = Nobody
          /\ UNCHANGED <<sync, todo, details, gone, resync>> /\ Quiet
       \/ /\ at \in mapped
          /\ AgentReleases(at) \/ UNCHANGED vars
          /\ Aborts /\ Failure
    /\ UNCHANGED <<neutron, updated, mapped, info, lost>>

\* Mutant of AllRemoved: what failed is forgotten.
AllRemovedWell == pc = "remove" /\ gone = {} /\ sync' = FALSE

AllRemoved == pc = "remove" /\ gone = {} /\ sync' = resync

Finish == /\ AllRemoved
          /\ pc' = "scan" /\ resync' = FALSE
          /\ UNCHANGED <<vars, neutron, updated, mapped, info, todo, details, gone, at, lost>>
          /\ Quiet

-----------------------------------------------------------------------------
(* Messages, crashes, and the world around the agent.                      *)

PortUpdate(m) == /\ m \in notes
                 /\ notes' = notes \ {m}
                 /\ updated' = updated \cup {m}
                 /\ UNCHANGED <<vars, port, reported, mapped, loop, lost>> /\ Quiet

\* A network is deleted when it has no ports; here each has one.
NetworkDelete(m) == /\ m \in mapped /\ port[m] = Gone
                    /\ mapped' = mapped \ {m}
                    /\ UNCHANGED <<vars, neutron, updated, loop, lost>> /\ Quiet

\* The agent is started again; messages to the one before are lost.
AgentRestarts == /\ Change
                 /\ updated' = {} /\ mapped' = {} /\ notes' = {}
                 /\ sync' = TRUE /\ info' = NoInfo /\ resync' = FALSE
                 /\ pc' = "scan" /\ todo' = {} /\ gone' = {}
                 /\ at' = Nobody /\ details' = NoDetails
                 /\ lost' = lost \cup info.current \cup info.removed
                 /\ UNCHANGED <<vars, port, reported>>

NeutronUpdates(m) == /\ Change
                     /\ port[m] # Gone
                     /\ \E p \in Ports \ {port[m]} : port' = [port EXCEPT ![m] = p]
                     /\ notes' = notes \cup {m}
                     /\ UNCHANGED <<vars, reported, updated, mapped, loop, lost>>

NeutronDeletes(m) == /\ Change
                     /\ port[m] # Gone
                     /\ port' = [port EXCEPT ![m] = Gone]
                     /\ UNCHANGED <<vars, notes, reported, updated, mapped, loop, lost>>

\* Nova does not plug a vnic again before the agent has treated its removal.
Known == info.current \cup gone \cup {at}
NovaPlugs(m) == /\ Change
                /\ m \notin Known
                /\ \E v \in Vfs : Plug(v, m)
                /\ UNCHANGED agent

NovaUnplugs(m) == Unplug(m) /\ UNCHANGED agent /\ Quiet

NovaDefines(m) == DefineDomain(m) /\ UNCHANGED agent /\ Quiet

\* The daemon is started again while no vnic waits for its domain, and its scan
\* succeeds: otherwise vnics would go and come back behind the agent's back.
DaemonRestartsWell == /\ Change
                      /\ \A m \in plugged : place[m] \in domain
                      /\ Restart(domain)
                      /\ UNCHANGED <<kind, hardware, nova, asked, faults, agent>>

LoopStep == \/ ScanPorts \/ Fetch \/ SetPortVlan \/ ReportDevice \/ AllTreated
            \/ Release \/ Finish
            \/ \E m \in Vnics : Treat(m) \/ Remove(m)

Disturbance == \/ ScanTimesOut \/ AgentRestarts \/ DaemonRestartsWell
               \/ \E m \in Macs : \/ NeutronUpdates(m) \/ NeutronDeletes(m)
                                  \/ NovaPlugs(m) \/ NovaUnplugs(m) \/ NovaDefines(m)

AgentNext == \/ LoopStep \/ Disturbance
             \/ \E m \in Macs : PortUpdate(m) \/ NetworkDelete(m)

AgentSpec == AgentInit /\ [][AgentNext]_agentVars

\* The loop goes on after every exception, and messages are delivered.
AgentFairness == /\ WF_agentVars(LoopStep)
                 /\ \A m \in Macs : WF_agentVars(PortUpdate(m))

FairAgentSpec == AgentSpec /\ AgentFairness

-----------------------------------------------------------------------------
(* Properties.                                                             *)

\* The vnic is as Neutron wants it, and Neutron was told so.  A VLAN the port has
\* no pkey of is not counted, and an MLNX5 is not given any.
Configured(m) ==
    IF port[m].up
    THEN /\ reported[m] = "up"
         /\ kind = "MLNX4" /\ SegId(port[m]) \in Partitions
                => pkey[dev[m]] = SegId(port[m])
    ELSE reported[m] = "down"

Wanted == {m \in plugged \cap Attached : port[m] # Gone}

\* The loop has what Neutron says of the device now, and has yet to act on it.
Underway(m) == \/ m \in todo /\ (pc = "fetch" \/ details[m] = port[m])
               \/ at = m /\ pc \in {"vlan", "again", "report"} /\ details[m] = port[m]

\* A vnic that is not configured as Neutron says is never forgotten: whatever
\* timed out, failed or came while the loop was busy, something left will have it
\* treated (scan_ports, process_network_ports, add_port_update).
NoForgottenUpdate ==
    \A m \in Wanted : \/ Configured(m)
                      \/ m \in notes \cup updated \/ m \notin info.current
                      \/ sync \/ resync
                      \/ Underway(m)

\* A device that was reported up and has gone is never forgotten either, unless
\* the agent itself was started again (treat_devices_removed, scan_ports).
NoForgottenRemoval ==
    \A m \in Vnics \ Attached :
        \/ reported[m] # "up"
        \/ m \in info.current \cup gone \cup lost
        \/ m \in info.removed /\ (sync \/ resync)

\* When the disturbances end, every vnic is as Neutron wants it, and no device
\* that has gone is reported up, except one the agent was started again without
\* or has no port of: that it tries to remove for ever (run).
Converges ==
    <>[](/\ \A m \in Wanted : Configured(m)
         /\ \A m \in Vnics \ Attached : reported[m] = "up" => m \notin mapped \/ m \in lost)

\* Over the agent, the daemon does what Eswitchd says it does over any.
DaemonSpec == Spec

=============================================================================
