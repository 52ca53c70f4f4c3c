-------------------------- MODULE MlnxAgentProofs --------------------------
(***************************************************************************)
(* The agent and the daemon together, for any number of vnics, VFs,        *)
(* changes and failures.                                                   *)
(***************************************************************************)
EXTENDS MlnxAgent, EswitchdProofs

InHand == pc \in {"vlan", "again", "report"}

AgentTypes ==
    /\ port \in [Vnics -> Ports \cup {Gone}]
    /\ notes \subseteq Macs /\ updated \subseteq Macs /\ mapped \subseteq Macs
    /\ reported \in [Vnics -> {"none", "up", "down"}]
    /\ sync \in BOOLEAN /\ resync \in BOOLEAN
    /\ info \in [current : SUBSET Vnics, removed : SUBSET Vnics,
                updated : SUBSET Vnics]
    /\ pc \in LoopPlaces
    /\ todo \subseteq info.current /\ gone \subseteq Vnics
    /\ details \in [Vnics -> Ports \cup {Gone}]
    /\ at \in Vnics
    /\ lost \subseteq Vnics
    /\ changes \in 0 .. MaxChanges /\ failures \in 0 .. MaxFailures

\* What the loop has in hand wherever it stands.
LoopOK == /\ pc = "scan" => todo = {} /\ gone = {} /\ ~resync
          /\ pc # "scan" => ~sync
          /\ InHand => at \in info.current /\ details[at] # Gone
          /\ pc \in {"remove", "release"} => todo = {}
          /\ gone \subseteq info.removed

\* Only the vnics of Nova have ports.
PortsOK == \A m \in Vnics : port[m] # Gone \/ details[m] # Gone => m \in Macs

\* A plugged vnic is attached; one that is being removed is not plugged again.
Separated == /\ plugged \subseteq Attached
             /\ gone \cap plugged = {}
             /\ pc = "release" => at \notin plugged

\* If what the loop heard of a device is no longer so, a port_update tells it.
Fresh == \A m \in Vnics : (m \in todo /\ pc # "fetch") \/ (at = m /\ InHand) =>
             details[m] = port[m] \/ m \in notes \cup updated \/ port[m] = Gone

\* A device is reported up after its VLAN was set.
VlanSet == pc = "report" /\ at \in plugged /\ details[at].up =>
              (kind = "MLNX4" /\ SegId(details[at]) \in Partitions
                  => pkey[dev[at]] = SegId(details[at]))

\* A device that is reported up is one the loop knows, or was removed and will be
\* again.
UpKnown == \A m \in Vnics : reported[m] = "up" =>
               \/ m \in info.current \cup gone \cup lost
               \/ m \in info.removed /\ (sync \/ resync)

AgentInv == /\ IInv /\ AgentTypes /\ LoopOK /\ PortsOK /\ Separated /\ Fresh
            /\ VlanSet /\ UpKnown /\ NoForgottenUpdate

USE FlatAssumption, GoneAssumption, AgentBoundsAssumption

LEMMA SegIdVlan ==
  ASSUME NEW p \in Ports
  PROVE  SegId(p) \in Vlans /\ p # Gone
BY DEF Ports, SegId

LEMMA AgentStart == AgentInit => AgentInv
<1> SUFFICES ASSUME AgentInit PROVE AgentInv
  OBVIOUS
<1>1. Init
  BY DEF AgentInit
<1>2. IInv
  BY <1>1, InitInvariant
<1>3. AgentTypes
  <2>1. info \in [current : SUBSET Vnics, removed : SUBSET Vnics, updated : SUBSET Vnics]
    BY DEF AgentInit, NoInfo
  <2>2. port \in [Vnics -> Ports \cup {Gone}] /\ details \in [Vnics -> Ports \cup {Gone}]
    BY DEF AgentInit, NoDetails
  <2>3. pc \in LoopPlaces /\ at \in Vnics /\ sync \in BOOLEAN /\ resync \in BOOLEAN
    BY DEF AgentInit, Nobody, LoopPlaces, Vnics
  <2> QED
    BY <2>1, <2>2, <2>3 DEF AgentInit, AgentTypes
<1>4. LoopOK /\ PortsOK /\ Separated /\ Fresh /\ VlanSet /\ UpKnown
  BY <1>1
  DEF AgentInit, Init, LoopOK, PortsOK, Separated, Fresh, VlanSet, UpKnown, InHand,
      NoDetails
<1>5. NoForgottenUpdate
  BY DEF AgentInit, NoForgottenUpdate
<1> QED
  BY <1>2, <1>3, <1>4, <1>5 DEF AgentInv

-----------------------------------------------------------------------------
(* Every step is one of the daemon's, or leaves it alone.                  *)

LEMMA AgentDaemon == AgentInv /\ [AgentNext]_agentVars => [Next]_vars
<1> SUFFICES ASSUME AgentInv, [AgentNext]_agentVars PROVE [Next]_vars
  OBVIOUS
<1>1. /\ AgentTypes /\ LoopOK /\ PortsOK
  BY DEF AgentInv
<1>2. CASE SetPortVlan
  <2>1. at \in Macs /\ details[at] \in Ports
    BY <1>1, <1>2 DEF SetPortVlan, LoopOK, PortsOK, InHand, AgentTypes
  <2>2. SegId(details[at]) \in Vlans
    BY <2>1, SegIdVlan
  <2>3. UNCHANGED vars \/ \E w \in BOOLEAN : AgentSetsVlan(at, SegId(details[at]), w)
    BY <1>2 DEF SetPortVlan
  <2> QED
    BY <2>1, <2>2, <2>3 DEF Next
<1>3. CASE Release
  <2>1. UNCHANGED vars \/ (at \in mapped /\ AgentReleases(at))
    BY <1>3 DEF Release
  <2> QED
    BY <1>1, <2>1 DEF AgentTypes, Next
<1>4. CASE DaemonRestartsWell
  BY <1>4 DEF DaemonRestartsWell, DaemonRestarts, Fault, Next
<1>5. ASSUME NEW m \in Macs, NovaPlugs(m) \/ NovaUnplugs(m) \/ NovaDefines(m)
      PROVE  [Next]_vars
  BY <1>5 DEF NovaPlugs, NovaUnplugs, NovaDefines, Next
<1>6. CASE \/ ScanPorts \/ Fetch \/ ReportDevice \/ AllTreated \/ Finish
           \/ \E m \in Vnics : Treat(m) \/ Remove(m)
           \/ ScanTimesOut \/ AgentRestarts
           \/ \E m \in Macs : \/ NeutronUpdates(m) \/ NeutronDeletes(m)
                              \/ PortUpdate(m) \/ NetworkDelete(m)
  BY <1>6
  DEF ScanPorts, Fetch, ReportDevice, AllTreated, Finish, Treat, Remove, ScanTimesOut,
      AgentRestarts, NeutronUpdates, NeutronDeletes, PortUpdate, NetworkDelete
<1>7. CASE UNCHANGED agentVars
  BY <1>7 DEF agentVars
<1> QED
  BY <1>2, <1>3, <1>4, <1>5, <1>6, <1>7 DEF AgentNext, LoopStep, Disturbance

LEMMA DaemonInvariant == AgentInv /\ [AgentNext]_agentVars => IInv'
<1>1. AgentInv => IInv
  BY DEF AgentInv
<1> QED
  BY <1>1, AgentDaemon, NextInvariant

-----------------------------------------------------------------------------
(* What the properties need of the daemon.                                 *)

\* Nothing is attached but vnics, and what was plugged is.
LEMMA AttachedVnics ==
  ASSUME AgentInv
  PROVE  Attached \subseteq Vnics /\ plugged \subseteq Macs /\ plugged \subseteq Attached
BY DEF AgentInv, IInv, TypeOK, Attached, Carries, Separated

\* A step that keeps every plugged vnic, and gives Nova no other, keeps what is
\* said of the daemon.
LEMMA Keeps ==
  ASSUME AgentInv, \A m \in plugged : Kept(m), plugged' \subseteq plugged, kind' = kind,
         agent' = agent
  PROVE  Separated' /\ VlanSet' /\ NoForgottenUpdate'
<1>1. /\ Separated /\ VlanSet /\ NoForgottenUpdate
      /\ UNCHANGED <<port, notes, reported, updated, sync, info, pc, todo, details, gone,
                     at, resync>>
  BY DEF AgentInv, agent, neutron, loop
<1>2. Separated'
  BY <1>1 DEF Separated, Kept
<1>3. VlanSet'
  BY <1>1 DEF VlanSet, Kept
<1>4. NoForgottenUpdate'
  <2> SUFFICES ASSUME NEW m \in Wanted'
               PROVE  \/ Configured(m)' \/ m \in notes \cup updated
                      \/ m \notin info.current \/ sync \/ resync \/ Underway(m)'
    BY <1>1 DEF NoForgottenUpdate
  <2>1. m \in Wanted /\ m \in plugged /\ m \in plugged' /\ Kept(m)
    BY <1>1, AttachedVnics DEF Wanted
  <2>2. Configured(m) => Configured(m)'
    BY <1>1, <2>1 DEF Configured, Kept
  <2>3. Underway(m) => Underway(m)'
    BY <1>1 DEF Underway
  <2> QED
    BY <1>1, <2>1, <2>2, <2>3 DEF NoForgottenUpdate
<1> QED
  BY <1>2, <1>3, <1>4

\* The rest of the invariant says nothing of the daemon.
LEMMA AgentAlone ==
  ASSUME AgentInv, agent' = agent,
         changes' \in 0 .. MaxChanges, failures' \in 0 .. MaxFailures
  PROVE  AgentTypes' /\ LoopOK' /\ PortsOK' /\ Fresh' /\ UpKnown'
<1>1. /\ AgentTypes /\ LoopOK /\ PortsOK /\ Fresh /\ UpKnown
      /\ UNCHANGED <<port, notes, reported, updated, mapped, sync, info, pc, todo, details,
                     gone, at, resync, lost>>
  BY DEF AgentInv, agent, neutron, loop
<1> QED
  BY <1>1 DEF AgentTypes, LoopOK, PortsOK, Fresh, UpKnown, InHand

LEMMA Counters ==
  ASSUME AgentInv, Change \/ Failure \/ Quiet
  PROVE  changes' \in 0 .. MaxChanges /\ failures' \in 0 .. MaxFailures
BY DEF AgentInv, AgentTypes, Change, Failure, Quiet

-----------------------------------------------------------------------------
(* The steps of the loop.                                                  *)

\* A step that leaves the daemon alone leaves all that is said of it.
LEMMA Alone ==
  ASSUME UNCHANGED vars
  PROVE  Attached' = Attached /\ plugged' = plugged /\ kind' = kind /\ pkey' = pkey
         /\ dev' = dev /\ (IInv => IInv')
BY DEF vars, tables, hardware, nova, IInv, TypeOK, OnePlace, AttachedOK, DomainOK,
       PluggedOK, PkeyOK, Answerable, RightVf, NoForeignVlan, Carries, Attached

\* What was configured stays so if neither the daemon nor Neutron has changed.
LEMMA ConfiguredAlone ==
  ASSUME UNCHANGED vars, NEW m, port' = port, reported'[m] = reported[m]
  PROVE  Configured(m)' = Configured(m)
BY Alone DEF Configured

LEMMA ScanInvariant == ASSUME AgentInv, ScanPorts PROVE AgentInv'
<1>1. /\ AgentTypes /\ LoopOK /\ PortsOK /\ Separated /\ Fresh /\ VlanSet /\ UpKnown
      /\ NoForgottenUpdate /\ Attached \subseteq Vnics
  BY AttachedVnics DEF AgentInv
<1>2. /\ pc = "scan" /\ info' = ScanInfo(Attached) /\ updated' = {} /\ sync' = FALSE
      /\ todo' = Added(Attached) \cup info'.updated /\ gone' = info'.removed
      /\ lost' = lost \ Attached
      /\ UNCHANGED vars
      /\ UNCHANGED <<port, notes, reported, mapped, details, at, resync>> /\ Quiet
  BY DEF ScanPorts, neutron
<1>3. /\ pc' \in {"fetch", "remove", "scan"}
      /\ todo' # {} => pc' = "fetch"
      /\ pc' = "scan" => todo' = {} /\ gone' = {}
  <2>1. CASE todo' # {}
    BY <2>1 DEF ScanPorts
  <2>2. CASE todo' = {} /\ gone' # {}
    <3>1. pc' = "remove"
      BY <2>2 DEF ScanPorts
    <3> QED
      BY <2>2, <3>1
  <2>3. CASE todo' \cup gone' = {}
    <3>1. pc' = "scan"
      BY <2>3 DEF ScanPorts
    <3> QED
      BY <2>3, <3>1
  <2> QED
    BY <2>1, <2>2, <2>3
<1>4. /\ info'.current = Attached
      /\ info'.removed = ((IF sync THEN info.removed ELSE {}) \cup info.current) \ Attached
      /\ info'.updated = ((IF sync THEN info.updated ELSE {}) \cup updated) \cap Attached
  BY <1>2 DEF ScanInfo
<1>5. IInv' /\ Attached' = Attached /\ plugged' = plugged
  BY <1>2, Alone DEF AgentInv
<1>6. todo' \subseteq Attached
  BY <1>2, <1>4 DEF Added
<1>7. AgentTypes'
  <2>1. info' \in [current : SUBSET Vnics, removed : SUBSET Vnics, updated : SUBSET Vnics]
    BY <1>1, <1>2 DEF AgentTypes, ScanInfo
  <2>2. pc' \in LoopPlaces /\ sync' \in BOOLEAN
    BY <1>2, <1>3 DEF LoopPlaces
  <2>3. gone' \subseteq Vnics
    BY <1>2, <2>1
  <2> QED
    BY <1>1, <1>2, <1>4, <1>6, <2>1, <2>2, <2>3, Counters DEF AgentTypes
<1>8. LoopOK'
  BY <1>1, <1>2, <1>3 DEF LoopOK, InHand
<1>9. PortsOK' /\ Fresh' /\ VlanSet'
  BY <1>1, <1>2, <1>3 DEF PortsOK, Fresh, VlanSet, InHand
<1>10. Separated'
  BY <1>1, <1>2, <1>3, <1>4, <1>5 DEF Separated
<1>11. UpKnown'
  <2> SUFFICES ASSUME NEW m \in Vnics, reported[m] = "up"
               PROVE  m \in info'.current \cup gone' \cup lost'
    BY <1>2 DEF UpKnown
  <2>1. \/ m \in info.current \cup lost
        \/ m \in info.removed /\ sync
    BY <1>1, <1>2 DEF UpKnown, LoopOK
  <2> QED
    BY <1>2, <1>4, <2>1
<1>12. NoForgottenUpdate'
  <2> SUFFICES ASSUME NEW m \in Wanted'
               PROVE  Configured(m)' \/ m \in notes' \cup updated' \/ Underway(m)'
    BY DEF NoForgottenUpdate
  <2>1. m \in Wanted /\ m \in Attached
    BY <1>2, <1>5 DEF Wanted
  <2>2. \/ Configured(m) \/ m \in notes \cup updated \/ m \notin info.current \/ sync
    BY <1>1, <1>2, <2>1 DEF NoForgottenUpdate, Underway, LoopOK
  <2>3. CASE Configured(m)
    BY <1>2, <2>3, ConfiguredAlone
  <2>4. CASE m \in updated \/ m \notin info.current \/ sync
    <3>1. m \in todo'
      BY <1>2, <1>4, <2>1, <2>4 DEF Added
    <3> QED
      BY <1>3, <3>1 DEF Underway
  <2> QED
    BY <1>2, <2>2, <2>3, <2>4
<1> QED
  BY <1>5, <1>7, <1>8, <1>9, <1>10, <1>11, <1>12 DEF AgentInv

LEMMA ScanTimesOutInvariant == ASSUME AgentInv, ScanTimesOut PROVE AgentInv'
<1>1. /\ AgentTypes /\ LoopOK /\ PortsOK /\ Separated /\ Fresh /\ VlanSet /\ UpKnown
      /\ pc = "scan" /\ sync' = TRUE /\ UNCHANGED vars
      /\ UNCHANGED <<port, notes, reported, updated, mapped, info, pc, todo, details, gone,
                     at, resync, lost>>
      /\ Failure
  BY DEF AgentInv, ScanTimesOut, neutron
<1>2. IInv' /\ Attached' = Attached /\ plugged' = plugged
  BY <1>1, Alone DEF AgentInv
<1>3. AgentTypes'
  BY <1>1, Counters DEF AgentTypes
<1>4. LoopOK' /\ PortsOK' /\ Separated' /\ Fresh' /\ VlanSet' /\ UpKnown'
  BY <1>1, <1>2 DEF LoopOK, PortsOK, Separated, Fresh, VlanSet, UpKnown, InHand
<1>5. NoForgottenUpdate'
  BY <1>1 DEF NoForgottenUpdate
<1> QED
  BY <1>2, <1>3, <1>4, <1>5 DEF AgentInv

\* An exception leaves everything to the resync.
LEMMA AbortsInvariant ==
  ASSUME AgentInv, IInv', Aborts, Quiet \/ Failure,
         plugged' = plugged, plugged \subseteq Attached',
         UNCHANGED <<port, notes, updated, mapped, info, lost>>,
         reported' \in [Vnics -> {"none", "up", "down"}],
         \A m \in Vnics : reported'[m] = "up" => reported[m] = "up" \/ m \in info.current
  PROVE  AgentInv'
<1>1. /\ AgentTypes /\ LoopOK /\ PortsOK /\ Separated /\ UpKnown
      /\ pc' = "scan" /\ resync' = FALSE /\ todo' = {} /\ gone' = {} /\ at' = Nobody
      /\ details' = NoDetails /\ sync' = TRUE
  BY DEF AgentInv, Aborts
<1>2. AgentTypes'
  <2>1. /\ (pc \in LoopPlaces)' /\ (at \in Vnics)'
        /\ (details \in [Vnics -> Ports \cup {Gone}])'
    BY <1>1 DEF LoopPlaces, Nobody, Vnics, NoDetails
  <2> QED
    BY <1>1, <2>1, Counters DEF AgentTypes
<1>3. LoopOK' /\ PortsOK' /\ Separated' /\ Fresh' /\ VlanSet'
  BY <1>1 DEF LoopOK, PortsOK, Separated, Fresh, VlanSet, InHand, NoDetails
<1>4. UpKnown'
  BY <1>1 DEF UpKnown, LoopOK
<1>5. NoForgottenUpdate'
  BY <1>1 DEF NoForgottenUpdate
<1> QED
  BY <1>2, <1>3, <1>4, <1>5 DEF AgentInv

LEMMA FetchInvariant == ASSUME AgentInv, Fetch PROVE AgentInv'
<1>1. /\ AgentTypes /\ LoopOK /\ PortsOK /\ Separated /\ Fresh /\ UpKnown
      /\ NoForgottenUpdate
      /\ pc = "fetch" /\ UNCHANGED vars
      /\ UNCHANGED <<port, notes, reported, updated, mapped, sync, info, gone, at, lost>>
      /\ Quiet \/ Failure
      /\ \/ pc' = "treat" /\ details' = port /\ UNCHANGED <<todo, resync>>
         \/ pc' = "remove" /\ resync' = TRUE /\ todo' = {} /\ UNCHANGED details
  BY DEF AgentInv, Fetch, neutron
<1>2. IInv' /\ Attached' = Attached /\ plugged' = plugged
  BY <1>1, Alone DEF AgentInv
<1>3. AgentTypes'
  <2>1. (pc \in LoopPlaces)' /\ (resync \in BOOLEAN)'
    BY <1>1 DEF LoopPlaces, AgentTypes
  <2> QED
    BY <1>1, <2>1, Counters DEF AgentTypes
<1>4. LoopOK' /\ PortsOK' /\ Separated' /\ Fresh' /\ VlanSet' /\ UpKnown'
  BY <1>1, <1>2 DEF LoopOK, PortsOK, Separated, Fresh, VlanSet, UpKnown, InHand
<1>5. NoForgottenUpdate'
  <2> SUFFICES ASSUME NEW m \in Wanted', ~resync'
               PROVE  \/ Configured(m)' \/ m \in notes \cup updated
                      \/ m \notin info.current \/ sync \/ Underway(m)'
    BY <1>1 DEF NoForgottenUpdate
  <2>1. m \in Wanted /\ details' = port /\ pc' = "treat" /\ todo' = todo /\ ~resync
    BY <1>1, <1>2 DEF Wanted
  <2>2. Underway(m) => Underway(m)'
    BY <1>1, <2>1 DEF Underway
  <2> QED
    BY <1>1, <2>1, <2>2, ConfiguredAlone DEF NoForgottenUpdate
<1> QED
  BY <1>2, <1>3, <1>4, <1>5 DEF AgentInv

\* A vnic that treat_vif_port has looked for.
LEMMA TreatedInvariant ==
  ASSUME AgentInv, NEW m \in Vnics, Treat(m), Quiet, todo' = todo \ {m},
         UNCHANGED <<sync, details, gone, resync>>,
         at' = (IF details[m] = Gone THEN Nobody ELSE m),
         LET up == details[m] # Gone /\ m \in Attached /\ details[m].up IN
         /\ mapped' = IF up THEN mapped \cup {m} ELSE mapped
         /\ pc' = CASE details[m] = Gone -> "treat"
                    [] details[m] # Gone /\ ~up -> "report"
                    [] up -> IF details[m].vlan = NoVlan THEN "again" ELSE "vlan"
  PROVE  AgentInv'
<1> DEFINE up == details[m] # Gone /\ m \in Attached /\ details[m].up
<1>1. /\ AgentTypes /\ LoopOK /\ PortsOK /\ Separated /\ Fresh /\ VlanSet /\ UpKnown
      /\ NoForgottenUpdate
      /\ pc = "treat" /\ m \in todo /\ todo' = todo \ {m} /\ UNCHANGED vars
      /\ UNCHANGED <<port, notes, reported, updated, sync, info, details, gone, resync,
                     lost>>
      /\ Quiet
  BY DEF AgentInv, Treat, neutron
<1>2. IInv' /\ Attached' = Attached /\ plugged' = plugged
  BY <1>1, Alone DEF AgentInv
<1>3. mapped' = (IF up THEN mapped \cup {m} ELSE mapped)
  OBVIOUS
<1>4. CASE details[m] = Gone
  <2>1. pc' = "treat" /\ at' = Nobody /\ mapped' = mapped
    BY <1>3, <1>4
  <2>2. AgentTypes'
    BY <1>1, <2>1, Counters DEF AgentTypes, LoopPlaces, Nobody, Vnics
  <2>3. LoopOK' /\ PortsOK' /\ Separated' /\ Fresh' /\ VlanSet' /\ UpKnown'
    BY <1>1, <1>2, <2>1 DEF LoopOK, PortsOK, Separated, Fresh, VlanSet, UpKnown, InHand
  <2>4. NoForgottenUpdate'
    <3> SUFFICES ASSUME NEW x \in Wanted'
                 PROVE  \/ Configured(x)' \/ x \in notes \cup updated
                        \/ x \notin info.current \/ sync \/ resync \/ Underway(x)'
      BY <1>1 DEF NoForgottenUpdate
    <3>1. x \in Wanted /\ port[x] # Gone
      BY <1>1, <1>2 DEF Wanted
    <3>2. Underway(x) => Underway(x)'
      BY <1>1, <1>4, <2>1, <3>1 DEF Underway
    <3> QED
      BY <1>1, <3>1, <3>2, ConfiguredAlone DEF NoForgottenUpdate
  <2> QED
    BY <1>2, <2>2, <2>3, <2>4 DEF AgentInv
<1>5. CASE details[m] # Gone
  <2>1. at' = m
    BY <1>5
  <2>2. pc' = CASE details[m] = Gone -> "treat"
                [] details[m] # Gone /\ ~up -> "report"
                [] up -> IF details[m].vlan = NoVlan THEN "again" ELSE "vlan"
    OBVIOUS
  <2> HIDE DEF up
  <2>3. pc' \in {"vlan", "again", "report"} /\ (pc' = "report" => ~up)
    <3>1. CASE up
      BY <1>5, <2>2, <3>1
    <3>2. CASE ~up
      BY <1>5, <2>2, <3>2
    <3> QED
      BY <3>1, <3>2
  <2> USE DEF up
  <2>4. m \in Macs
    BY <1>1, <1>5 DEF PortsOK
  <2>5. AgentTypes'
    <3>1. pc' \in LoopPlaces /\ mapped' \subseteq Macs
      BY <1>1, <1>3, <2>3, <2>4 DEF LoopPlaces, AgentTypes
    <3> QED
      BY <1>1, <2>1, <3>1, Counters DEF AgentTypes
  <2>6. LoopOK' /\ PortsOK' /\ Separated' /\ Fresh' /\ UpKnown'
    BY <1>1, <1>2, <1>5, <2>1, <2>3
    DEF LoopOK, PortsOK, Separated, Fresh, UpKnown, InHand, AgentTypes
  <2>7. VlanSet'
    BY <1>1, <1>2, <1>5, <2>1, <2>3 DEF VlanSet, Separated
  <2>8. NoForgottenUpdate'
    <3> SUFFICES ASSUME NEW x \in Wanted'
                 PROVE  \/ Configured(x)' \/ x \in notes \cup updated
                        \/ x \notin info.current \/ sync \/ resync \/ Underway(x)'
      BY <1>1 DEF NoForgottenUpdate
    <3>1. x \in Wanted /\ port[x] # Gone
      BY <1>1, <1>2 DEF Wanted
    <3>2. Underway(x) => Underway(x)'
      BY <1>1, <2>1, <2>3, <3>1 DEF Underway
    <3> QED
      BY <1>1, <3>1, <3>2, ConfiguredAlone DEF NoForgottenUpdate
  <2> QED
    BY <1>2, <2>5, <2>6, <2>7, <2>8 DEF AgentInv
<1> QED
  BY <1>4, <1>5

LEMMA TreatInvariant == ASSUME AgentInv, NEW m \in Vnics, Treat(m) PROVE AgentInv'
<1>1. CASE UNCHANGED mapped /\ Aborts /\ Failure
  <2>1. AgentTypes /\ LoopOK /\ Separated
    BY DEF AgentInv
  <2>2. UNCHANGED <<vars, port, notes, reported, updated, info, lost>>
    BY DEF Treat, neutron
  <2>3. IInv' /\ Attached' = Attached /\ plugged' = plugged
    BY <2>2, Alone DEF AgentInv
  <2>4. /\ reported' \in [Vnics -> {"none", "up", "down"}]
        /\ \A x \in Vnics : reported'[x] = "up" => reported[x] = "up"
    BY <2>1, <2>2 DEF AgentTypes
  <2> QED
    BY <1>1, <2>1, <2>2, <2>3, <2>4, AbortsInvariant DEF Separated
<1>2. CASE ~(UNCHANGED mapped /\ Aborts /\ Failure)
  BY <1>2, TreatedInvariant DEF Treat
<1> QED
  BY <1>1, <1>2

LEMMA SetPortVlanInvariant == ASSUME AgentInv, SetPortVlan PROVE AgentInv'
<1>1. /\ AgentTypes /\ LoopOK /\ PortsOK /\ Separated /\ Fresh /\ VlanSet /\ UpKnown
      /\ NoForgottenUpdate /\ IInv /\ TypeOK
      /\ pc \in {"vlan", "again"} /\ InHand
      /\ UNCHANGED <<port, notes, reported, updated, mapped, info, lost>>
  BY DEF AgentInv, IInv, SetPortVlan, neutron, InHand
<1>2. IInv' /\ [Next]_vars
  BY DaemonInvariant, AgentDaemon DEF AgentNext, LoopStep
<1> DEFINE l == SegId(details[at])
<1>3. at \in Macs /\ l \in Vlans
  BY <1>1, SegIdVlan DEF LoopOK, PortsOK, AgentTypes
<1>4. UNCHANGED vars \/ \E w \in BOOLEAN : AgentSetsVlan(at, l, w)
  BY DEF SetPortVlan
<1>5. plugged' = plugged /\ kind' = kind
  BY <1>4 DEF vars, nova, AgentSetsVlan
<1>6. ASSUME NEW m \in plugged
      PROVE  m \in Macs /\ m \in Attached' /\ dev'[m] = dev[m] /\ (m # at => Kept(m))
  <2>1. m \in Macs /\ m \in Attached
    BY <1>1 DEF TypeOK, Separated
  <2>2. CASE UNCHANGED vars
    BY <2>1, <2>2, Alone DEF Kept
  <2>3. CASE \E w \in BOOLEAN : AgentSetsVlan(at, l, w)
    BY <1>1, <1>3, <2>1, <2>3, SetsVlanKeeps
  <2> QED
    BY <1>4, <2>1, <2>2, <2>3
<1>7. CASE Aborts /\ (Quiet \/ Failure)
  <2>1. reported' \in [Vnics -> {"none", "up", "down"}]
    BY <1>1 DEF AgentTypes
  <2> QED
    BY <1>1, <1>2, <1>5, <1>6, <1>7, <2>1, AbortsInvariant
<1>8. CASE /\ SetVlanOk(at) /\ AgentSetsVlan(at, l, TRUE)
           /\ pc' = IF pc = "vlan" THEN "again" ELSE "report"
           /\ UNCHANGED <<sync, todo, details, gone, at, resync>> /\ Quiet
  <2>1. AgentTypes'
    BY <1>1, <1>8, Counters DEF AgentTypes, LoopPlaces
  <2>2. LoopOK' /\ PortsOK' /\ Fresh' /\ UpKnown'
    BY <1>1, <1>8 DEF LoopOK, PortsOK, Fresh, UpKnown, InHand
  <2>3. Separated'
    BY <1>1, <1>5, <1>6, <1>8 DEF Separated
  <2>4. VlanSet'
    <3> SUFFICES ASSUME at \in plugged, kind = "MLNX4", l \in Partitions
                 PROVE  pkey'[dev'[at]] = l
      BY <1>5, <1>8 DEF VlanSet
    <3>1. dev[at] \in Vfs /\ dev'[at] = dev[at]
      BY <1>1, <1>3, <1>6, AttachedVf DEF Separated
    <3>2. pkey' = [pkey EXCEPT ![dev[at]] = l]
      BY <1>8 DEF AgentSetsVlan, SetVlan, ConfigVlan
    <3> QED
      BY <1>1, <3>1, <3>2 DEF TypeOK
  <2>5. NoForgottenUpdate'
    <3> SUFFICES ASSUME NEW m \in Wanted'
                 PROVE  \/ Configured(m)' \/ m \in notes \cup updated
                        \/ m \notin info.current \/ sync \/ resync \/ Underway(m)'
      BY <1>1, <1>8 DEF NoForgottenUpdate
    <3>1. m \in Wanted /\ m \in plugged /\ m \in Macs /\ port[m] # Gone
      BY <1>1, <1>5, <1>6 DEF Wanted, Separated
    <3>2. CASE m = at
      BY <1>1, <1>8, <3>1, <3>2 DEF Fresh, Underway, InHand, Vnics
    <3>3. CASE m # at
      <4>1. Configured(m) => Configured(m)'
        BY <1>1, <1>5, <1>6, <3>1, <3>3 DEF Configured, Kept
      <4>2. Underway(m) => Underway(m)'
        BY <1>1, <1>8, <3>3 DEF Underway
      <4> QED
        BY <1>1, <3>1, <4>1, <4>2 DEF NoForgottenUpdate
    <3> QED
      BY <3>2, <3>3
  <2> QED
    BY <1>2, <2>1, <2>2, <2>3, <2>4, <2>5 DEF AgentInv
<1> QED
  BY <1>7, <1>8 DEF SetPortVlan

LEMMA ReportInvariant == ASSUME AgentInv, ReportDevice PROVE AgentInv'
<1> DEFINE s == IF details[at].up THEN "up" ELSE "down"
<1>1. /\ AgentTypes /\ LoopOK /\ PortsOK /\ Separated /\ Fresh /\ VlanSet /\ UpKnown
      /\ NoForgottenUpdate
      /\ pc = "report" /\ InHand /\ UNCHANGED vars
      /\ UNCHANGED <<port, notes, updated, mapped, info, lost>>
      /\ reported' = reported \/ reported' = [reported EXCEPT ![at] = s]
  BY DEF AgentInv, ReportDevice, InHand
<1>2. IInv' /\ Attached' = Attached /\ plugged' = plugged
  BY <1>1, Alone DEF AgentInv
<1>3. /\ reported' \in [Vnics -> {"none", "up", "down"}]
      /\ \A m \in Vnics : reported'[m] = "up" => reported[m] = "up" \/ m \in info.current
  BY <1>1 DEF AgentTypes, LoopOK
<1>4. CASE Aborts /\ (Quiet \/ Failure)
  BY <1>1, <1>2, <1>3, <1>4, AbortsInvariant DEF Separated
<1>5. CASE /\ reported' = [reported EXCEPT ![at] = s]
           /\ pc' = "treat" /\ at' = Nobody
           /\ UNCHANGED <<sync, todo, details, gone, resync>> /\ Quiet
  <2>1. AgentTypes'
    <3>1. pc' \in LoopPlaces /\ at' \in Vnics
      BY <1>5 DEF LoopPlaces, Nobody, Vnics
    <3> QED
      BY <1>1, <1>3, <1>5, <3>1, Counters DEF AgentTypes
  <2>2. LoopOK' /\ PortsOK' /\ Separated' /\ Fresh' /\ VlanSet'
    BY <1>1, <1>2, <1>5 DEF LoopOK, PortsOK, Separated, Fresh, VlanSet, InHand
  <2>3. UpKnown'
    BY <1>1, <1>3, <1>5 DEF UpKnown
  <2>4. NoForgottenUpdate'
    <3> SUFFICES ASSUME NEW m \in Wanted'
                 PROVE  \/ Configured(m)' \/ m \in notes \cup updated
                        \/ m \notin info.current \/ sync \/ resync \/ Underway(m)'
      BY <1>1, <1>5 DEF NoForgottenUpdate
    <3>1. m \in Wanted /\ m \in plugged /\ m \in Vnics /\ port[m] # Gone
      BY <1>1, <1>2, AttachedVnics DEF Wanted
    <3>2. CASE m # at
      <4>1. reported'[m] = reported[m]
        BY <1>1, <1>5, <3>1, <3>2 DEF AgentTypes
      <4>2. Underway(m) => Underway(m)'
        BY <1>1, <1>5, <3>2 DEF Underway
      <4> QED
        BY <1>1, <3>1, <4>1, <4>2, ConfiguredAlone DEF NoForgottenUpdate
    <3>3. CASE m = at /\ details[m] = port[m]
      <4>1. reported'[m] = s
        BY <1>1, <1>5, <3>1, <3>3 DEF AgentTypes
      <4>2. kind' = kind /\ pkey' = pkey /\ dev' = dev
        BY <1>1, Alone
      <4> QED
        BY <1>1, <3>1, <3>3, <4>1, <4>2 DEF Configured, VlanSet
    <3>4. CASE m = at /\ details[m] # port[m]
      BY <1>1, <3>1, <3>4 DEF Fresh
    <3> QED
      BY <3>2, <3>3, <3>4
  <2> QED
    BY <1>2, <2>1, <2>2, <2>3, <2>4 DEF AgentInv
<1> QED
  BY <1>4, <1>5 DEF ReportDevice

LEMMA AllTreatedInvariant == ASSUME AgentInv, AllTreated PROVE AgentInv'
<1>1. /\ AgentTypes /\ LoopOK /\ PortsOK /\ Separated /\ Fresh /\ VlanSet /\ UpKnown
      /\ NoForgottenUpdate
      /\ pc = "treat" /\ todo = {} /\ pc' = "remove" /\ details' = NoDetails
      /\ UNCHANGED vars
      /\ UNCHANGED <<port, notes, reported, updated, mapped, sync, info, todo, gone, at,
                     resync, lost>>
      /\ Quiet
  BY DEF AgentInv, AllTreated, neutron
<1>2. IInv' /\ Attached' = Attached /\ plugged' = plugged
  BY <1>1, Alone DEF AgentInv
<1>3. AgentTypes'
  <2>1. pc' \in LoopPlaces /\ details' \in [Vnics -> Ports \cup {Gone}]
    BY <1>1 DEF LoopPlaces, NoDetails
  <2> QED
    BY <1>1, <2>1, Counters DEF AgentTypes
<1>4. LoopOK' /\ PortsOK' /\ Separated' /\ Fresh' /\ VlanSet' /\ UpKnown'
  BY <1>1, <1>2
  DEF LoopOK, PortsOK, Separated, Fresh, VlanSet, UpKnown, InHand, NoDetails
<1>5. NoForgottenUpdate'
  BY <1>1, <1>2, ConfiguredAlone DEF NoForgottenUpdate, Underway, Wanted
<1> QED
  BY <1>2, <1>3, <1>4, <1>5 DEF AgentInv

LEMMA RemoveInvariant == ASSUME AgentInv, NEW m \in Vnics, Remove(m) PROVE AgentInv'
<1>1. /\ AgentTypes /\ LoopOK /\ PortsOK /\ Separated /\ Fresh /\ VlanSet /\ UpKnown
      /\ NoForgottenUpdate
      /\ pc = "remove" /\ m \in gone /\ gone' = gone \ {m} /\ UNCHANGED vars
      /\ UNCHANGED <<port, notes, updated, mapped, sync, info, todo, details, lost>>
      /\ Quiet \/ Failure
      /\ \/ resync' = TRUE /\ reported' = reported /\ UNCHANGED <<pc, at>>
         \/ /\ reported' = [reported EXCEPT ![m] = "down"]
            /\ \/ pc' = "release" /\ at' = m /\ UNCHANGED resync
               \/ resync' = TRUE /\ UNCHANGED <<pc, at>>
  BY DEF AgentInv, Remove
<1>2. IInv' /\ Attached' = Attached /\ plugged' = plugged
  BY <1>1, Alone DEF AgentInv
<1>3. AgentTypes'
  <2>1. /\ pc' \in LoopPlaces /\ at' \in Vnics /\ resync' \in BOOLEAN
        /\ gone' \subseteq Vnics
        /\ reported' \in [Vnics -> {"none", "up", "down"}]
    BY <1>1 DEF LoopPlaces, AgentTypes
  <2> QED
    BY <1>1, <2>1, Counters DEF AgentTypes
<1>4. LoopOK' /\ PortsOK' /\ Separated' /\ VlanSet'
  BY <1>1, <1>2 DEF LoopOK, PortsOK, Separated, VlanSet, InHand
<1>5. Fresh'
  BY <1>1 DEF Fresh, InHand
<1>6. UpKnown'
  <2> SUFFICES ASSUME NEW x \in Vnics, reported'[x] = "up"
               PROVE  \/ x \in info.current \cup gone' \cup lost
                      \/ x \in info.removed /\ (sync \/ resync')
    BY <1>1 DEF UpKnown
  <2>1. reported[x] = "up" /\ (x = m => resync' = TRUE)
    BY <1>1 DEF AgentTypes
  <2> QED
    BY <1>1, <2>1 DEF UpKnown, LoopOK
<1>7. NoForgottenUpdate'
  <2> SUFFICES ASSUME NEW x \in Wanted', ~resync'
               PROVE  \/ Configured(x)' \/ x \in notes \cup updated
                      \/ x \notin info.current \/ sync \/ Underway(x)'
    BY <1>1 DEF NoForgottenUpdate
  <2>1. x \in Wanted /\ x \in plugged /\ x \in Vnics /\ x # m /\ ~resync
    BY <1>1, <1>2, AttachedVnics DEF Wanted, Separated
  <2>2. reported'[x] = reported[x]
    BY <1>1, <2>1 DEF AgentTypes
  <2>3. Underway(x) => Underway(x)'
    BY <1>1 DEF Underway
  <2> QED
    BY <1>1, <2>1, <2>2, <2>3, ConfiguredAlone DEF NoForgottenUpdate
<1> QED
  BY <1>2, <1>3, <1>4, <1>5, <1>6, <1>7 DEF AgentInv

LEMMA ReleaseInvariant == ASSUME AgentInv, Release PROVE AgentInv'
<1>1. /\ AgentTypes /\ LoopOK /\ PortsOK /\ Separated /\ Fresh /\ VlanSet /\ UpKnown
      /\ NoForgottenUpdate /\ IInv /\ TypeOK
      /\ pc = "release" /\ at \notin plugged
      /\ UNCHANGED <<port, notes, reported, updated, mapped, info, lost>>
      /\ UNCHANGED vars \/ (at \in Macs /\ AgentReleases(at))
  BY DEF AgentInv, IInv, Release, neutron, Separated, AgentTypes
<1>2. IInv'
  BY DaemonInvariant DEF AgentNext, LoopStep
<1>3. plugged' = plugged /\ kind' = kind
  BY <1>1 DEF vars, nova, AgentReleases
<1>4. ASSUME NEW m \in plugged PROVE Kept(m) /\ m \in Attached'
  <2>1. m \in Macs \cap Attached /\ m # at
    BY <1>1 DEF TypeOK, Separated
  <2> QED
    BY <1>1, <1>3, <2>1, ReleaseKeeps, Alone DEF Kept
<1>5. CASE Aborts /\ Failure
  <2>1. reported' \in [Vnics -> {"none", "up", "down"}]
    BY <1>1 DEF AgentTypes
  <2> QED
    BY <1>1, <1>2, <1>3, <1>4, <1>5, <2>1, AbortsInvariant
<1>6. CASE /\ pc' = "remove" /\ at' = Nobody
           /\ UNCHANGED <<sync, todo, details, gone, resync>> /\ Quiet
  <2>1. AgentTypes'
    <3>1. pc' \in LoopPlaces /\ at' \in Vnics
      BY <1>6 DEF LoopPlaces, Nobody, Vnics
    <3> QED
      BY <1>1, <1>6, <3>1, Counters DEF AgentTypes
  <2>2. LoopOK' /\ PortsOK' /\ Fresh' /\ VlanSet' /\ UpKnown'
    BY <1>1, <1>6 DEF LoopOK, PortsOK, Fresh, VlanSet, UpKnown, InHand
  <2>3. Separated'
    BY <1>1, <1>3, <1>4, <1>6 DEF Separated
  <2>4. NoForgottenUpdate'
    <3> SUFFICES ASSUME NEW m \in Wanted'
                 PROVE  \/ Configured(m)' \/ m \in notes \cup updated
                        \/ m \notin info.current \/ sync \/ resync \/ Underway(m)'
      BY <1>1, <1>6 DEF NoForgottenUpdate
    <3>1. m \in Wanted /\ m \in plugged
      BY <1>1, <1>3 DEF Wanted, Separated
    <3>2. Configured(m) => Configured(m)'
      BY <1>1, <1>3, <1>4, <3>1 DEF Configured, Kept
    <3>3. Underway(m) => Underway(m)'
      BY <1>1, <1>6 DEF Underway
    <3> QED
      BY <1>1, <3>1, <3>2, <3>3 DEF NoForgottenUpdate
  <2> QED
    BY <1>2, <2>1, <2>2, <2>3, <2>4 DEF AgentInv
<1> QED
  BY <1>5, <1>6 DEF Release

LEMMA FinishInvariant == ASSUME AgentInv, Finish PROVE AgentInv'
<1>1. /\ AgentTypes /\ LoopOK /\ PortsOK /\ Separated /\ Fresh /\ VlanSet /\ UpKnown
      /\ NoForgottenUpdate
      /\ pc = "remove" /\ gone = {} /\ sync' = resync /\ pc' = "scan" /\ resync' = FALSE
      /\ UNCHANGED vars
      /\ UNCHANGED <<port, notes, reported, updated, mapped, info, todo, details, gone, at,
                     lost>>
      /\ Quiet
  BY DEF AgentInv, Finish, AllRemoved, neutron
<1>2. IInv' /\ Attached' = Attached /\ plugged' = plugged
  BY <1>1, Alone DEF AgentInv
<1>3. AgentTypes'
  BY <1>1, Counters DEF AgentTypes, LoopPlaces
<1>4. todo = {}
  BY <1>1 DEF LoopOK
<1>5. LoopOK' /\ PortsOK' /\ Separated' /\ Fresh' /\ VlanSet' /\ UpKnown'
  BY <1>1, <1>2, <1>4 DEF LoopOK, PortsOK, Separated, Fresh, VlanSet, UpKnown, InHand
<1>6. NoForgottenUpdate'
  BY <1>1, <1>2, <1>4, ConfiguredAlone
  DEF NoForgottenUpdate, Underway, Wanted, LoopOK
<1> QED
  BY <1>2, <1>3, <1>5, <1>6 DEF AgentInv

-----------------------------------------------------------------------------
(* Messages, and the world around the agent.                               *)

LEMMA PortUpdateInvariant ==
  ASSUME AgentInv, NEW m \in Macs, PortUpdate(m)
  PROVE  AgentInv'
<1>1. /\ AgentTypes /\ LoopOK /\ PortsOK /\ Separated /\ Fresh /\ VlanSet /\ UpKnown
      /\ NoForgottenUpdate
      /\ notes' = notes \ {m} /\ updated' = updated \cup {m} /\ UNCHANGED vars
      /\ UNCHANGED <<port, reported, mapped, sync, info, pc, todo, details, gone, at,
                     resync, lost>>
      /\ Quiet
  BY DEF AgentInv, PortUpdate, loop
<1>2. /\ IInv' /\ Attached' = Attached /\ plugged' = plugged
      /\ kind' = kind /\ pkey' = pkey /\ dev' = dev
  BY <1>1, Alone DEF AgentInv
<1>3. AgentTypes'
  BY <1>1, Counters DEF AgentTypes
<1>4. LoopOK' /\ PortsOK' /\ Separated' /\ Fresh' /\ VlanSet' /\ UpKnown'
  BY <1>1, <1>2 DEF LoopOK, PortsOK, Separated, Fresh, VlanSet, UpKnown, InHand
<1>5. NoForgottenUpdate'
  BY <1>1, <1>2, ConfiguredAlone DEF NoForgottenUpdate, Underway, Wanted
<1> QED
  BY <1>2, <1>3, <1>4, <1>5 DEF AgentInv

LEMMA NetworkDeleteInvariant ==
  ASSUME AgentInv, NEW m \in Macs, NetworkDelete(m)
  PROVE  AgentInv'
<1>1. /\ AgentTypes /\ LoopOK /\ PortsOK /\ Separated /\ Fresh /\ VlanSet /\ UpKnown
      /\ NoForgottenUpdate
      /\ mapped' = mapped \ {m} /\ UNCHANGED vars
      /\ UNCHANGED <<port, notes, reported, updated, sync, info, pc, todo, details, gone,
                     at, resync, lost>>
      /\ Quiet
  BY DEF AgentInv, NetworkDelete, neutron, loop
<1>2. /\ IInv' /\ Attached' = Attached /\ plugged' = plugged
      /\ kind' = kind /\ pkey' = pkey /\ dev' = dev
  BY <1>1, Alone DEF AgentInv
<1>3. AgentTypes'
  BY <1>1, Counters DEF AgentTypes
<1>4. LoopOK' /\ PortsOK' /\ Separated' /\ Fresh' /\ VlanSet' /\ UpKnown'
  BY <1>1, <1>2 DEF LoopOK, PortsOK, Separated, Fresh, VlanSet, UpKnown, InHand
<1>5. NoForgottenUpdate'
  BY <1>1, <1>2, ConfiguredAlone DEF NoForgottenUpdate, Underway, Wanted
<1> QED
  BY <1>2, <1>3, <1>4, <1>5 DEF AgentInv

LEMMA AgentRestartsInvariant == ASSUME AgentInv, AgentRestarts PROVE AgentInv'
<1>1. /\ AgentTypes /\ LoopOK /\ PortsOK /\ Separated /\ UpKnown
      /\ updated' = {} /\ mapped' = {} /\ notes' = {}
      /\ sync' = TRUE /\ info' = NoInfo /\ resync' = FALSE
      /\ pc' = "scan" /\ todo' = {} /\ gone' = {}
      /\ at' = Nobody /\ details' = NoDetails
      /\ lost' = lost \cup info.current \cup info.removed
      /\ UNCHANGED vars /\ UNCHANGED <<port, reported>> /\ Change
  BY DEF AgentInv, AgentRestarts
<1>2. IInv' /\ Attached' = Attached /\ plugged' = plugged
  BY <1>1, Alone DEF AgentInv
<1>3. AgentTypes'
  <2>1. /\ (pc \in LoopPlaces)' /\ (at \in Vnics)'
        /\ (details \in [Vnics -> Ports \cup {Gone}])'
        /\ info' \in [current : SUBSET Vnics, removed : SUBSET Vnics,
                      updated : SUBSET Vnics]
    BY <1>1 DEF LoopPlaces, Nobody, Vnics, NoDetails, NoInfo
  <2>2. lost' \subseteq Vnics
    BY <1>1 DEF AgentTypes
  <2> QED
    BY <1>1, <2>1, <2>2, Counters DEF AgentTypes
<1>4. LoopOK' /\ PortsOK' /\ Separated' /\ Fresh' /\ VlanSet'
  BY <1>1, <1>2 DEF LoopOK, PortsOK, Separated, Fresh, VlanSet, InHand, NoDetails
<1>5. UpKnown'
  BY <1>1 DEF UpKnown, LoopOK
<1>6. NoForgottenUpdate'
  BY <1>1 DEF NoForgottenUpdate
<1> QED
  BY <1>2, <1>3, <1>4, <1>5, <1>6 DEF AgentInv

\* An update of Neutron is on its way to the agent.
LEMMA NeutronUpdatesInvariant ==
  ASSUME AgentInv, NEW m \in Macs, NeutronUpdates(m)
  PROVE  AgentInv'
<1>1. /\ AgentTypes /\ LoopOK /\ PortsOK /\ Separated /\ Fresh /\ VlanSet /\ UpKnown
      /\ NoForgottenUpdate
      /\ notes' = notes \cup {m} /\ UNCHANGED vars /\ Change
      /\ UNCHANGED <<reported, updated, mapped, sync, info, pc, todo, details, gone,
                     at, resync, lost>>
  BY DEF AgentInv, NeutronUpdates, loop
<1>2. PICK p \in Ports : port' = [port EXCEPT ![m] = p]
  BY DEF NeutronUpdates
<1>3. /\ IInv' /\ Attached' = Attached /\ plugged' = plugged
      /\ kind' = kind /\ pkey' = pkey /\ dev' = dev
  BY <1>1, Alone DEF AgentInv
<1>4. m \in Vnics /\ \A x \in Vnics : x # m => port'[x] = port[x]
  BY <1>1, <1>2 DEF AgentTypes, Vnics
<1>5. AgentTypes'
  BY <1>1, <1>2, Counters DEF AgentTypes
<1>6. LoopOK' /\ Separated' /\ VlanSet' /\ UpKnown'
  BY <1>1, <1>3 DEF LoopOK, Separated, VlanSet, UpKnown, InHand
<1>7. PortsOK' /\ Fresh'
  BY <1>1, <1>4 DEF PortsOK, Fresh, InHand
<1>8. NoForgottenUpdate'
  <2> SUFFICES ASSUME NEW x \in Wanted', x # m
               PROVE  \/ Configured(x)' \/ x \in notes \cup updated
                      \/ x \notin info.current \/ sync \/ resync \/ Underway(x)'
    BY <1>1 DEF NoForgottenUpdate
  <2>1. x \in Wanted /\ port'[x] = port[x]
    BY <1>1, <1>3, <1>4, AttachedVnics DEF Wanted
  <2>2. Configured(x)' = Configured(x)
    BY <1>1, <2>1, Alone DEF Configured
  <2>3. Underway(x) => Underway(x)'
    BY <1>1, <2>1 DEF Underway
  <2> QED
    BY <1>1, <2>1, <2>2, <2>3 DEF NoForgottenUpdate
<1> QED
  BY <1>1, <1>3, <1>5, <1>6, <1>7, <1>8 DEF AgentInv

LEMMA NeutronDeletesInvariant ==
  ASSUME AgentInv, NEW m \in Macs, NeutronDeletes(m)
  PROVE  AgentInv'
<1>1. /\ AgentTypes /\ LoopOK /\ PortsOK /\ Separated /\ Fresh /\ VlanSet /\ UpKnown
      /\ NoForgottenUpdate
      /\ port' = [port EXCEPT ![m] = Gone] /\ UNCHANGED vars /\ Change
      /\ UNCHANGED <<notes, reported, updated, mapped, sync, info, pc, todo, details,
                     gone, at, resync, lost>>
  BY DEF AgentInv, NeutronDeletes, loop
<1>2. /\ IInv' /\ Attached' = Attached /\ plugged' = plugged
      /\ kind' = kind /\ pkey' = pkey /\ dev' = dev
  BY <1>1, Alone DEF AgentInv
<1>3. /\ m \in Vnics /\ port'[m] = Gone
      /\ \A x \in Vnics : x # m => port'[x] = port[x]
  BY <1>1 DEF AgentTypes, Vnics
<1>4. AgentTypes'
  BY <1>1, Counters DEF AgentTypes
<1>5. LoopOK' /\ Separated' /\ VlanSet' /\ UpKnown'
  BY <1>1, <1>2 DEF LoopOK, Separated, VlanSet, UpKnown, InHand
<1>6. PortsOK' /\ Fresh'
  BY <1>1, <1>3 DEF PortsOK, Fresh, InHand
<1>7. NoForgottenUpdate'
  <2> SUFFICES ASSUME NEW x \in Wanted'
               PROVE  \/ Configured(x)' \/ x \in notes \cup updated
                      \/ x \notin info.current \/ sync \/ resync \/ Underway(x)'
    BY <1>1 DEF NoForgottenUpdate
  <2>1. x \in Wanted /\ port'[x] = port[x]
    BY <1>1, <1>2, <1>3, AttachedVnics DEF Wanted
  <2>2. Configured(x)' = Configured(x)
    BY <1>1, <2>1, Alone DEF Configured
  <2>3. Underway(x) => Underway(x)'
    BY <1>1, <2>1 DEF Underway
  <2> QED
    BY <1>1, <2>1, <2>2, <2>3 DEF NoForgottenUpdate
<1> QED
  BY <1>1, <1>2, <1>4, <1>5, <1>6, <1>7 DEF AgentInv

\* The vnic that is plugged is new to the loop.
LEMMA NovaPlugsInvariant ==
  ASSUME AgentInv, NEW m \in Macs, NovaPlugs(m)
  PROVE  AgentInv'
<1>1. /\ LoopOK /\ Separated /\ VlanSet /\ NoForgottenUpdate /\ IInv /\ TypeOK
      /\ m \notin info.current /\ m \notin gone /\ m # at
      /\ agent' = agent /\ Change
  BY DEF AgentInv, IInv, NovaPlugs, Known
<1>2. PICK v \in Vfs : Plug(v, m)
  BY DEF NovaPlugs
<1>3. PICK n \in Writes :
         /\ PlugNic(v, m, n)
         /\ plugged' = IF n = 3 THEN plugged \cup {m} ELSE plugged \ {m}
  BY <1>2 DEF Plug
<1>4. /\ UNCHANGED <<port, notes, reported, updated, mapped, sync, info, pc, todo,
                     details, gone, at, resync, lost>>
      /\ kind' = kind
  BY <1>1, <1>2 DEF agent, neutron, loop, Plug
<1>5. IInv'
  BY <1>2, DaemonInvariant DEF AgentNext, Disturbance
<1>6. AgentTypes' /\ LoopOK' /\ PortsOK' /\ Fresh' /\ UpKnown'
  BY <1>1, Counters, AgentAlone
<1>7. ASSUME NEW x \in plugged', x # m
      PROVE  x \in plugged /\ x \in Macs /\ x \in Attached /\ Kept(x)
  <2>1. x \in plugged /\ x \in Macs /\ x \in Attached
    BY <1>3, <1>7, AttachedVnics
  <2> QED
    BY <1>1, <1>2, <1>7, <2>1, PlugKeeps
<1>8. m \in plugged' => m \in Attached'
  <2>1. n = 3 => vnic'[v] = m /\ state'[v] = "attached"
    BY <1>1, <1>3 DEF PlugNic, TypeOK
  <2> QED
    BY <1>3, <2>1, Attaches
<1>9. Separated'
  BY <1>1, <1>4, <1>7, <1>8 DEF Separated, Kept
<1>10. VlanSet'
  BY <1>1, <1>4, <1>7 DEF VlanSet, Kept
<1>11. NoForgottenUpdate'
  <2> SUFFICES ASSUME NEW x \in Wanted', x # m
               PROVE  \/ Configured(x)' \/ x \in notes \cup updated
                      \/ x \notin info.current \/ sync \/ resync \/ Underway(x)'
    BY <1>1, <1>4 DEF NoForgottenUpdate
  <2>1. x \in Wanted /\ x \in plugged' /\ Kept(x)
    BY <1>4, <1>7 DEF Wanted
  <2>2. Configured(x) => Configured(x)'
    BY <1>4, <2>1 DEF Configured, Kept
  <2>3. Underway(x) => Underway(x)'
    BY <1>4 DEF Underway
  <2> QED
    BY <1>1, <2>1, <2>2, <2>3 DEF NoForgottenUpdate
<1> QED
  BY <1>5, <1>6, <1>9, <1>10, <1>11 DEF AgentInv

\* What Nova does to other vnics, and what the daemon finds again.
LEMMA OthersInvariant ==
  ASSUME AgentInv,
         DaemonRestartsWell \/ \E m \in Macs : NovaUnplugs(m) \/ NovaDefines(m)
  PROVE  AgentInv'
<1>1. /\ IInv /\ TypeOK /\ plugged \subseteq Macs /\ plugged \subseteq Attached
  BY AttachedVnics DEF AgentInv, IInv
<1>2. IInv'
  BY DaemonInvariant DEF AgentNext, Disturbance
<1>3. agent' = agent /\ (Change \/ Quiet)
  BY DEF DaemonRestartsWell, NovaUnplugs, NovaDefines
<1>4. AgentTypes' /\ LoopOK' /\ PortsOK' /\ Fresh' /\ UpKnown'
  BY <1>3, Counters, AgentAlone
<1>5. kind' = kind /\ plugged' \subseteq plugged
  BY DEF DaemonRestartsWell, NovaUnplugs, NovaDefines, Unplug, DefineDomain, nova
<1>6. ASSUME NEW x \in plugged PROVE Kept(x)
  <2>1. CASE DaemonRestartsWell
    BY <1>1, <2>1, RestartKeeps DEF DaemonRestartsWell
  <2>2. ASSUME NEW m \in Macs, NovaUnplugs(m) PROVE Kept(x)
    BY <1>1, <2>2, UnplugKeeps DEF NovaUnplugs
  <2>3. ASSUME NEW m \in Macs, NovaDefines(m) PROVE Kept(x)
    BY <1>1, <2>3, AttachedVf, Attaches
    DEF NovaDefines, DefineDomain, tables, hardware, Kept
  <2> QED
    BY <2>1, <2>2, <2>3
<1>7. Separated' /\ VlanSet' /\ NoForgottenUpdate'
  BY <1>3, <1>5, <1>6, Keeps
<1> QED
  BY <1>2, <1>4, <1>7 DEF AgentInv

LEMMA StutterInvariant == ASSUME AgentInv, UNCHANGED agentVars PROVE AgentInv'
<1>1. UNCHANGED vars /\ agent' = agent /\ Quiet
  BY DEF agentVars, Quiet
<1>2. IInv' /\ Attached' = Attached /\ plugged' = plugged
  BY <1>1, Alone DEF AgentInv
<1>3. AgentTypes' /\ LoopOK' /\ PortsOK' /\ Fresh' /\ UpKnown'
  BY <1>1, Counters, AgentAlone
<1>4. /\ Separated /\ VlanSet /\ NoForgottenUpdate
      /\ UNCHANGED <<port, notes, reported, updated, sync, info, pc, todo, details, gone,
                     at, resync>>
  BY <1>1 DEF AgentInv, agent, neutron, loop
<1>5. Separated' /\ VlanSet' /\ NoForgottenUpdate'
  BY <1>1, <1>2, <1>4, Alone, ConfiguredAlone
  DEF Separated, VlanSet, NoForgottenUpdate, Underway, Wanted
<1> QED
  BY <1>2, <1>3, <1>5 DEF AgentInv

-----------------------------------------------------------------------------
(* The theorems.                                                           *)

LEMMA AgentNextInvariant == AgentInv /\ [AgentNext]_agentVars => AgentInv'
BY ScanInvariant, ScanTimesOutInvariant, FetchInvariant, TreatInvariant,
   SetPortVlanInvariant, ReportInvariant, AllTreatedInvariant, RemoveInvariant,
   ReleaseInvariant, FinishInvariant, PortUpdateInvariant, NetworkDeleteInvariant,
   AgentRestartsInvariant, NeutronUpdatesInvariant, NeutronDeletesInvariant,
   NovaPlugsInvariant, OthersInvariant, StutterInvariant
DEF AgentNext, LoopStep, Disturbance

LEMMA AgentInvariant == AgentSpec => []AgentInv
BY AgentStart, AgentNextInvariant, PTL DEF AgentSpec

\* What the agent, Neutron and the daemon hold.
THEOREM AgentTypeCorrect == AgentSpec => []AgentTypeOK
<1>1. AgentInv => AgentTypeOK
  BY DEF AgentInv, IInv, AgentTypes, AgentTypeOK
<1> QED
  BY <1>1, AgentInvariant, PTL

\* The agent, Neutron and Nova are users of the daemon like any others: every
\* behaviour of them all is one of Eswitchd, whose theorems so hold of it too.
THEOREM DaemonCorrect == AgentSpec => DaemonSpec
<1>1. AgentInit => Init
  BY DEF AgentInit
<1> QED
  BY <1>1, AgentDaemon, AgentInvariant, PTL DEF AgentSpec, DaemonSpec, Spec

\* What the daemon keeps for any user, it keeps for this agent: no request of the
\* loop finds it without an answer, it configures each vnic on the VF that
\* carries it, and no guest gets the VLAN of another.
THEOREM DaemonUnderAgent ==
    AgentSpec => /\ []AlwaysAnswerable
                 /\ []RightVf
                 /\ []NoForeignVlan
                 /\ StaysAttached
<1>1. AgentSpec => Spec
  BY DaemonCorrect DEF DaemonSpec
<1> QED
  BY <1>1, AlwaysAnswerableCorrect, RightVfCorrect, NoForeignVlanCorrect,
     StaysAttachedCorrect

\* A vnic that is not as Neutron says will be treated, whatever failed meanwhile.
THEOREM NoForgottenUpdateCorrect == AgentSpec => []NoForgottenUpdate
<1>1. AgentInv => NoForgottenUpdate
  BY DEF AgentInv
<1> QED
  BY <1>1, AgentInvariant, PTL

\* A device that has gone is reported down sooner or later, or tried again.
THEOREM NoForgottenRemovalCorrect == AgentSpec => []NoForgottenRemoval
<1>1. AgentInv => NoForgottenRemoval
  <2> SUFFICES ASSUME AgentInv, NEW m \in Vnics \ Attached, reported[m] = "up"
               PROVE  \/ m \in info.current \cup gone \cup lost
                      \/ m \in info.removed /\ (sync \/ resync)
    BY DEF NoForgottenRemoval
  <2> QED
    BY DEF AgentInv, UpKnown
<1> QED
  BY <1>1, AgentInvariant, PTL

=============================================================================
