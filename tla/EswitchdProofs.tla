--------------------------- MODULE EswitchdProofs ---------------------------
(***************************************************************************)
(* The daemon, for any number of VFs and vnics, any partitions, and any    *)
(* number of commands and scans that fail.                                 *)
(***************************************************************************)
EXTENDS Eswitchd, TLAPS

\* Nova gives a VF to one vnic at a time.
OnePlace == \A m, n \in Macs : place[m] = place[n] /\ place[m] # NoVf => m = n

\* What may be attached: a VF that carries something, and nothing invalid; an
\* invalid GUID reads as a MAC like any other on an MLNX5 only.
AttachedOK == \A v \in Vfs : state[v] = "attached" =>
                  /\ vnic[v] \notin {NoMac, InvalidMac}
                  /\ vnic[v] = ClearedMac => kind = "MLNX5"

\* A VF that libvirt holds has the GUID of the vnic it was given for, or none.
DomainOK == \A v \in domain : \E m \in Macs : place[m] = v /\ guid[v] \in {m, NoMac}

\* The last add-port of a plugged vnic was served whole.
PluggedOK == \A m \in plugged : place[m] # NoVf /\ guid[place[m]] = m

\* Pkeys are an affair of the MLNX4.
PkeyOK == kind = "MLNX5" => \A v \in Vfs : pkey[v] = NoVlan

IInv == /\ TypeOK /\ OnePlace /\ AttachedOK /\ DomainOK /\ PluggedOK /\ PkeyOK
        /\ Answerable /\ RightVf /\ NoForeignVlan

USE NamesAssumption, TypesAssumption, PartitionsAssumption, FaultsAssumption

LEMMA InitInvariant == Init => IInv
<1> SUFFICES ASSUME Init PROVE IInv
  OBVIOUS
<1>1. TypeOK
  BY DEF Init, TypeOK, Kinds, PortStates
<1>2. \A v \in Vfs : state[v] = "none" /\ pkey[v] = NoVlan /\ ~Carries(v)
  BY DEF Init, Carries
<1>3. \A m \in Macs : place[m] = NoVf
  BY DEF Init
<1> QED
  BY <1>1, <1>2, <1>3
  DEF Init, IInv, OnePlace, AttachedOK, DomainOK, PluggedOK, PkeyOK,
      Answerable, RightVf, NoForeignVlan

\* Whoever is found is carried by the VF of its policy, which Nova gave it.
LEMMA FoundVf ==
  ASSUME IInv, NEW m \in Macs, Found(m)
  PROVE  /\ dev[m] \in Vfs /\ Carries(dev[m]) /\ vnic[dev[m]] = m
         /\ place[m] = dev[m]
         /\ kind = "MLNX4" => guid[dev[m]] = m
         /\ \A v \in Vfs : Carries(v) /\ vnic[v] = m => v = dev[m]
BY DEF IInv, Found, Attached, RightVf

\* Writing the GUID of a VF leaves it no pkey of the vnic it had before.
LEMMA ConfigVfSafe ==
  ASSUME IInv, NEW v \in Vfs, NEW g \in Macs \cup {NoMac}, NEW n \in Writes,
         ConfigVf(v, g, n), asked' = asked, kind' = kind
  PROVE  /\ guid' \in [Vfs -> Macs \cup {NoMac}]
         /\ pkey' \in [Vfs -> Partitions \cup {NoVlan}]
         /\ \A u \in Vfs : u # v => guid'[u] = guid[u]
         /\ guid'[v] \in {guid[v], g} /\ (n = 3 => guid'[v] = g)
         /\ PkeyOK' /\ NoForeignVlan'
<1>1. /\ guid \in [Vfs -> Macs \cup {NoMac}]
      /\ pkey \in [Vfs -> Partitions \cup {NoVlan}]
      /\ kind \in Kinds /\ PkeyOK /\ NoForeignVlan
  BY DEF IInv, TypeOK
<1>2. /\ guid' \in [Vfs -> Macs \cup {NoMac}]
      /\ \A u \in Vfs : u # v => guid'[u] = guid[u]
      /\ guid'[v] \in {guid[v], g} /\ (n = 3 => guid'[v] = g)
  BY <1>1 DEF ConfigVf
<1>3. /\ pkey' \in [Vfs -> Partitions \cup {NoVlan}]
      /\ \A u \in Vfs : u # v => pkey'[u] = pkey[u]
      /\ pkey'[v] \in {pkey[v], NoVlan}
  BY <1>1 DEF ConfigVf
<1>4. PkeyOK'
  BY <1>1, <1>3 DEF PkeyOK
<1>5. pkey'[v] = NoVlan \/ (guid'[v] = guid[v] /\ pkey'[v] = pkey[v])
  BY <1>1, <1>3 DEF ConfigVf, PkeyOK, Kinds, Writes
<1>6. NoForeignVlan'
  BY <1>1, <1>2, <1>3, <1>5 DEF NoForeignVlan
<1> QED
  BY <1>2, <1>3, <1>4, <1>6

LEMMA PlugInvariant ==
  ASSUME IInv, NEW v \in Vfs, NEW m \in Macs, Plug(v, m)
  PROVE  IInv'
<1>1. /\ TypeOK /\ OnePlace /\ AttachedOK /\ DomainOK /\ PluggedOK /\ PkeyOK
      /\ Answerable /\ RightVf /\ NoForeignVlan
  BY DEF IInv
<1>2. PICK n \in Writes :
         /\ PlugNic(v, m, n)
         /\ Fault(n < 3)
         /\ plugged' = IF n = 3 THEN plugged \cup {m} ELSE plugged \ {m}
  BY DEF Plug
<1>3. /\ place' = [place EXCEPT ![m] = v]
      /\ UNCHANGED <<kind, domain, asked>>
      /\ \A o \in Macs : o # m => place[o] # v
      /\ place[m] \in {v, NoVf}
  <2>1. place[m] = v \/ (place[m] = NoVf /\ \A o \in Macs : place[o] # v)
    BY DEF Plug
  <2> QED
    BY <1>1, <2>1 DEF Plug, OnePlace
<1>4. /\ vnic' = [vnic EXCEPT ![v] = m]
      /\ dev' = [dev EXCEPT ![m] = v]
      /\ vlan' = [vlan EXCEPT ![m] = NoVlan]
      /\ state' = IF n = 3 THEN [state EXCEPT ![v] = "attached"] ELSE state
      /\ ConfigVf(v, m, n)
  BY <1>2 DEF PlugNic
<1>5. /\ guid' \in [Vfs -> Macs \cup {NoMac}]
      /\ pkey' \in [Vfs -> Partitions \cup {NoVlan}]
      /\ \A u \in Vfs : u # v => guid'[u] = guid[u]
      /\ guid'[v] \in {guid[v], m} /\ (n = 3 => guid'[v] = m)
      /\ PkeyOK' /\ NoForeignVlan'
  BY <1>3, <1>4, ConfigVfSafe
<1>6. TypeOK'
  <2>1. (faults \in 0 .. MaxFaults)'
    BY <1>1, <1>2 DEF TypeOK, Fault
  <2>2. vnic' \in [Vfs -> Vnics \cup {NoMac}] /\ dev' \in [Vnics -> Vfs \cup {NoVf}]
    BY <1>1, <1>4 DEF TypeOK, Vnics
  <2>3. (state \in [Vfs -> PortStates])'
    BY <1>1, <1>4 DEF TypeOK, PortStates
  <2> QED
    BY <1>1, <1>2, <1>3, <1>4, <1>5, <2>1, <2>2, <2>3 DEF TypeOK
<1>7. OnePlace'
  BY <1>1, <1>3 DEF OnePlace, TypeOK
<1>8. AttachedOK'
  BY <1>1, <1>3, <1>4 DEF AttachedOK, TypeOK
<1>9. /\ \A u \in Vfs : u # v => vnic'[u] = vnic[u] /\ Carries(u)' = Carries(u)
      /\ \A u \in Vfs : u # v /\ Carries(u) => vnic[u] # m
      /\ vnic'[v] = m /\ dev'[m] = v /\ place'[m] = v
  BY <1>1, <1>3, <1>4 DEF Carries, RightVf, TypeOK, Vnics
<1>10. /\ \A x \in Vnics : x # m => dev'[x] = dev[x]
       /\ \A x \in Macs : x # m => place'[x] = place[x]
  BY <1>1, <1>3, <1>4 DEF TypeOK
<1>11. Answerable'
  BY <1>1, <1>9, <1>10 DEF Answerable, Carries, TypeOK
<1>12. RightVf'
  <2>1. ASSUME NEW u \in Vfs, Carries(u)', vnic'[u] \in Macs, u # v
        PROVE  /\ dev'[vnic'[u]] = u /\ place'[vnic'[u]] = u
               /\ kind' = "MLNX4" => guid'[u] = vnic'[u]
    BY <1>1, <1>3, <1>5, <1>9, <1>10, <2>1 DEF RightVf, Vnics
  <2>2. ASSUME Carries(v)', kind' = "MLNX4" PROVE guid'[v] = m
    <3>1. CASE n = 3
      BY <1>5, <3>1
    <3>2. CASE n # 3
      <4>1. state[v] = "attached" /\ kind = "MLNX4"
        BY <1>3, <1>4, <2>2, <3>2 DEF Carries
      <4>2. vnic[v] \in Macs /\ Carries(v)
        BY <1>1, <4>1 DEF AttachedOK, TypeOK, Vnics, Carries
      <4>3. vnic[v] = m /\ guid[v] = m
        BY <1>1, <1>3, <4>1, <4>2 DEF RightVf
      <4> QED
        BY <1>5, <4>3
    <3> QED
      BY <3>1, <3>2
  <2> QED
    BY <1>9, <2>1, <2>2 DEF RightVf
<1>13. DomainOK'
  <2> SUFFICES ASSUME NEW u \in domain
               PROVE  \E x \in Macs : place'[x] = u /\ guid'[u] \in {x, NoMac}
    BY <1>3 DEF DomainOK
  <2>1. PICK x \in Macs : place[x] = u /\ guid[u] \in {x, NoMac}
    BY <1>1 DEF DomainOK
  <2>2. u \in Vfs
    BY <1>1 DEF TypeOK
  <2>3. CASE x = m
    BY <1>3, <1>5, <1>9, <2>1, <2>2, <2>3
  <2>4. CASE x # m
    BY <1>3, <1>5, <1>10, <2>1, <2>2, <2>4
  <2> QED
    BY <2>3, <2>4
<1>14. PluggedOK'
  <2>1. ASSUME NEW x \in plugged', x # m
        PROVE  place'[x] # NoVf /\ guid'[place'[x]] = x
    BY <1>1, <1>2, <1>3, <1>5, <1>10, <2>1 DEF PluggedOK, TypeOK
  <2>2. ASSUME m \in plugged' PROVE n = 3
    BY <1>2, <2>2
  <2> QED
    BY <1>5, <1>9, <2>1, <2>2 DEF PluggedOK
<1> QED
  BY <1>5, <1>6, <1>7, <1>8, <1>11, <1>12, <1>13, <1>14 DEF IInv

LEMMA UnplugInvariant ==
  ASSUME IInv, NEW m \in Macs, Unplug(m)
  PROVE  IInv'
<1>1. /\ TypeOK /\ OnePlace /\ AttachedOK /\ DomainOK /\ PluggedOK /\ PkeyOK
      /\ Answerable /\ RightVf /\ NoForeignVlan
  BY DEF IInv
<1>2. PICK n \in Writes : DeletePort(m, n) /\ Fault(n < 3)
  BY DEF Unplug
<1>3. /\ place[m] # NoVf /\ plugged' = plugged \ {m}
      /\ UNCHANGED <<kind, asked>>
      /\ \/ UNCHANGED <<place, domain>>
         \/ place' = [place EXCEPT ![m] = NoVf] /\ domain' = domain \ {place[m]}
  BY DEF Unplug
<1>4. (faults \in 0 .. MaxFaults)'
  BY <1>1, <1>2 DEF TypeOK, Fault
<1>5. /\ place' \in [Macs -> Vfs \cup {NoVf}]
      /\ domain' \subseteq domain
      /\ \A x \in Macs : x # m => place'[x] = place[x]
      /\ place'[m] \in {place[m], NoVf}
      /\ place'[m] # place[m] => place[m] \notin domain'
  BY <1>1, <1>3 DEF TypeOK
<1>6. OnePlace'
  BY <1>1, <1>5 DEF OnePlace
<1>7. CASE ~Found(m)
  <2>1. UNCHANGED <<tables, hardware>>
    BY <1>2, <1>7 DEF DeletePort
  <2>2. \A v \in Vfs : Carries(v) => vnic[v] # m
    BY <1>1, <1>7 DEF Found, Attached
  <2>3. TypeOK'
    BY <1>1, <1>3, <1>4, <1>5, <2>1 DEF TypeOK, tables, hardware
  <2>4. AttachedOK' /\ PkeyOK' /\ NoForeignVlan' /\ Answerable'
    BY <1>1, <1>3, <2>1
    DEF AttachedOK, PkeyOK, NoForeignVlan, Answerable, Carries, tables, hardware
  <2>5. RightVf'
    BY <1>1, <1>3, <1>5, <2>1, <2>2 DEF RightVf, Carries, tables, hardware
  <2>6. DomainOK' /\ PluggedOK'
    BY <1>1, <1>3, <1>5, <2>1 DEF DomainOK, PluggedOK, TypeOK, hardware
  <2> QED
    BY <1>6, <2>3, <2>4, <2>5, <2>6 DEF IInv
<1>8. CASE Found(m)
  <2>1. PICK v \in Vfs : v = dev[m] /\ Carries(v) /\ vnic[v] = m /\ place[m] = v
    BY <1>8, FoundVf
  <2>2. /\ vnic' = [vnic EXCEPT ![v] = NoMac]
        /\ state' = [state EXCEPT ![v] = "unplugged"]
        /\ UNCHANGED <<dev, vlan>>
        /\ ConfigVf(v, NoMac, n)
    BY <1>2, <1>8, <2>1 DEF DeletePort, DetachVnic
  <2>3. /\ guid' \in [Vfs -> Macs \cup {NoMac}]
        /\ pkey' \in [Vfs -> Partitions \cup {NoVlan}]
        /\ \A u \in Vfs : u # v => guid'[u] = guid[u]
        /\ guid'[v] \in {guid[v], NoMac}
        /\ PkeyOK' /\ NoForeignVlan'
    BY <1>2, <1>3, <2>1, <2>2, ConfigVfSafe
  <2>4. TypeOK'
    <3>1. (state \in [Vfs -> PortStates])' /\ (vnic \in [Vfs -> Vnics \cup {NoMac}])'
      BY <1>1, <2>2 DEF TypeOK, PortStates
    <3> QED
      BY <1>1, <1>3, <1>4, <1>5, <2>2, <2>3, <3>1 DEF TypeOK
  <2>5. AttachedOK'
    BY <1>1, <1>3, <2>1, <2>2 DEF AttachedOK, TypeOK
  <2>6. /\ ~Carries(v)'
        /\ \A u \in Vfs : u # v => vnic'[u] = vnic[u] /\ Carries(u)' = Carries(u)
    BY <1>1, <2>1, <2>2 DEF Carries, TypeOK
  <2>7. Answerable'
    BY <1>1, <2>2, <2>6 DEF Answerable
  <2>8. \A u \in Vfs : u # v /\ Carries(u) => vnic[u] # m
    BY <1>1, <2>1 DEF RightVf
  <2>9. RightVf'
    BY <1>1, <1>3, <1>5, <2>2, <2>3, <2>6, <2>8 DEF RightVf
  <2>10. DomainOK'
    <3> SUFFICES ASSUME NEW u \in domain'
                 PROVE  \E x \in Macs : place'[x] = u /\ guid'[u] \in {x, NoMac}
      BY DEF DomainOK
    <3>1. PICK x \in Macs : place[x] = u /\ guid[u] \in {x, NoMac}
      BY <1>1, <1>5 DEF DomainOK
    <3>2. u \in Vfs
      BY <1>1, <1>5 DEF TypeOK
    <3>3. place'[x] = u
      BY <1>5, <3>1
    <3> QED
      BY <2>3, <3>1, <3>2, <3>3
  <2>11. PluggedOK'
    <3> SUFFICES ASSUME NEW x \in plugged'
                 PROVE  place'[x] # NoVf /\ guid'[place'[x]] = x
      BY DEF PluggedOK
    <3>1. x \in plugged /\ x # m /\ x \in Macs
      BY <1>1, <1>3 DEF TypeOK
    <3>2. place[x] # NoVf /\ guid[place[x]] = x /\ place[x] \in Vfs /\ place[x] # v
      BY <1>1, <2>1, <3>1 DEF PluggedOK, OnePlace, TypeOK
    <3> QED
      BY <1>5, <2>3, <3>1, <3>2
  <2> QED
    BY <1>6, <2>3, <2>4, <2>5, <2>7, <2>9, <2>10, <2>11 DEF IInv
<1> QED
  BY <1>7, <1>8

LEMMA DefineInvariant ==
  ASSUME IInv, NEW m \in Macs, DefineDomain(m)
  PROVE  IInv'
<1>1. /\ TypeOK /\ OnePlace /\ AttachedOK /\ DomainOK /\ PluggedOK /\ PkeyOK
      /\ Answerable /\ RightVf /\ NoForeignVlan
      /\ m \in plugged /\ domain' = domain \cup {place[m]}
      /\ UNCHANGED <<kind, tables, hardware, place, plugged, asked, faults>>
  BY DEF IInv, DefineDomain
<1>2. place[m] \in Vfs /\ guid[place[m]] = m
  BY <1>1 DEF PluggedOK, TypeOK
<1>3. TypeOK'
  BY <1>1, <1>2 DEF TypeOK, tables, hardware
<1>4. /\ OnePlace' /\ AttachedOK' /\ PluggedOK' /\ PkeyOK' /\ Answerable' /\ RightVf'
      /\ NoForeignVlan'
  BY <1>1
  DEF OnePlace, AttachedOK, PluggedOK, PkeyOK, Answerable, RightVf, NoForeignVlan,
      Carries, tables, hardware
<1>5. DomainOK'
  BY <1>1, <1>2 DEF DomainOK, hardware
<1> QED
  BY <1>3, <1>4, <1>5 DEF IInv

LEMMA SetsVlanInvariant ==
  ASSUME IInv, NEW m \in Macs, NEW l \in Vlans, NEW w \in BOOLEAN,
         AgentSetsVlan(m, l, w)
  PROVE  IInv'
<1>1. /\ TypeOK /\ OnePlace /\ AttachedOK /\ DomainOK /\ PluggedOK /\ PkeyOK
      /\ Answerable /\ RightVf /\ NoForeignVlan
      /\ UNCHANGED <<kind, nova, vnic, state, dev, guid>>
      /\ asked' = asked \cup {<<m, l>>} /\ Fault(~w) /\ SetVlan(m, l, w)
  BY DEF IInv, AgentSetsVlan, SetVlan
<1>2. \/ pkey' = pkey
      \/ /\ Found(m) /\ kind = "MLNX4" /\ l \in Partitions
         /\ pkey' = [pkey EXCEPT ![dev[m]] = l]
  BY <1>1 DEF SetVlan, SetVlanOk, ConfigVlan
<1>3. TypeOK'
  <2>1. (vlan \in [Vnics -> Vlans \cup {NoVlan}])'
    BY <1>1 DEF TypeOK, SetVlan
  <2>2. (pkey \in [Vfs -> Partitions \cup {NoVlan}])'
    BY <1>1, <1>2 DEF TypeOK
  <2>3. (faults \in 0 .. MaxFaults)'
    BY <1>1 DEF TypeOK, Fault
  <2> QED
    BY <1>1, <2>1, <2>2, <2>3 DEF TypeOK, nova
<1>4. OnePlace' /\ AttachedOK' /\ DomainOK' /\ PluggedOK' /\ Answerable' /\ RightVf'
  BY <1>1
  DEF OnePlace, AttachedOK, DomainOK, PluggedOK, Answerable, RightVf, Carries, nova
<1>5. PkeyOK'
  BY <1>1, <1>2 DEF PkeyOK
<1>6. NoForeignVlan'
  <2>1. CASE pkey' = pkey
    BY <1>1, <2>1 DEF NoForeignVlan
  <2>2. CASE Found(m) /\ kind = "MLNX4" /\ pkey' = [pkey EXCEPT ![dev[m]] = l]
    <3>1. dev[m] \in Vfs /\ guid[dev[m]] = m
      BY <2>2, FoundVf
    <3>2. \A v \in Vfs : pkey'[v] = IF v = dev[m] THEN l ELSE pkey[v]
      BY <1>1, <2>2 DEF TypeOK
    <3> QED
      BY <1>1, <3>1, <3>2 DEF NoForeignVlan
  <2> QED
    BY <1>2, <2>1, <2>2
<1> QED
  BY <1>3, <1>4, <1>5, <1>6 DEF IInv

LEMMA ReleasesInvariant ==
  ASSUME IInv, NEW m \in Macs, AgentReleases(m)
  PROVE  IInv'
<1>1. /\ TypeOK /\ OnePlace /\ AttachedOK /\ DomainOK /\ PluggedOK /\ PkeyOK
      /\ Answerable /\ RightVf /\ NoForeignVlan
      /\ UNCHANGED <<kind, hardware, nova, asked, faults>>
  BY DEF IInv, AgentReleases, PortRelease
<1>2. OnePlace' /\ DomainOK' /\ PluggedOK' /\ PkeyOK' /\ NoForeignVlan'
  BY <1>1
  DEF OnePlace, DomainOK, PluggedOK, PkeyOK, NoForeignVlan, nova, hardware
<1>3. CASE ~Found(m)
  <2>1. UNCHANGED tables
    BY <1>3 DEF AgentReleases, PortRelease
  <2> QED
    BY <1>1, <1>2, <2>1
    DEF IInv, TypeOK, AttachedOK, Answerable, RightVf, Carries, tables, nova,
        hardware
<1>4. CASE Found(m)
  <2>1. PICK v \in Vfs : v = dev[m] /\ Carries(v) /\ vnic[v] = m
    BY <1>4, FoundVf
  <2>2. /\ dev' = [dev EXCEPT ![m] = NoVf]
        /\ vlan' = [vlan EXCEPT ![m] = NoVlan]
        /\ state' = [state EXCEPT ![v] = "none"]
        /\ UNCHANGED vnic
    BY <1>4, <2>1 DEF AgentReleases, PortRelease, DropPolicy
  <2>3. TypeOK'
    <3>1. (state \in [Vfs -> PortStates])'
      BY <1>1, <2>2 DEF TypeOK, PortStates
    <3> QED
      BY <1>1, <2>2, <3>1 DEF TypeOK, nova, hardware
  <2>4. /\ ~Carries(v)'
        /\ \A u \in Vfs : u # v => Carries(u)' = Carries(u)
    BY <1>1, <2>1, <2>2 DEF Carries, TypeOK
  <2>5. \A u \in Vfs : u # v /\ Carries(u) => vnic[u] # m
    BY <1>1, <2>1 DEF RightVf
  <2>6. \A x \in Vnics : x # m => dev'[x] = dev[x]
    BY <1>1, <2>2 DEF TypeOK
  <2>7. AttachedOK'
    BY <1>1, <2>2 DEF AttachedOK, TypeOK
  <2>8. Answerable'
    BY <1>1, <2>2, <2>4, <2>5, <2>6 DEF Answerable, Carries, TypeOK
  <2>9. RightVf'
    BY <1>1, <2>2, <2>4, <2>5, <2>6 DEF RightVf, Vnics, nova, hardware
  <2> QED
    BY <1>2, <2>3, <2>7, <2>8, <2>9 DEF IInv
<1> QED
  BY <1>3, <1>4

\* A VF that is read under the MAC of a vnic is the one Nova gave it.
LEMMA ReadVf ==
  ASSUME IInv, NEW v \in domain, MacOf(v) \in Macs
  PROVE  /\ v \in Vfs /\ guid[v] = MacOf(v) /\ place[MacOf(v)] = v
<1>1. TypeOK /\ DomainOK
  BY DEF IInv
<1>2. v \in Vfs /\ kind \in Kinds
  BY <1>1 DEF TypeOK
<1>3. guid[v] = MacOf(v)
  <2>1. CASE guid[v] # NoMac
    BY <2>1 DEF MacOf
  <2>2. CASE guid[v] = NoMac
    BY <1>2, <2>2 DEF MacOf, Kinds
  <2> QED
    BY <2>1, <2>2
<1> QED
  BY <1>1, <1>2, <1>3 DEF DomainOK

\* A scan attaches every VF it reads with a vnic, each vnic by its own VF.
LEMMA Scans ==
  ASSUME IInv, NEW read \in SUBSET domain, Restart(read)
  PROVE  /\ vnic' \in [Vfs -> Vnics \cup {NoMac}]
         /\ state' \in [Vfs -> PortStates]
         /\ dev' \in [Vnics -> Vfs \cup {NoVf}]
         /\ vlan' \in [Vnics -> Vlans \cup {NoVlan}]
         /\ \A v \in Vfs : state'[v] = "attached" =>
               /\ v \in read /\ vnic'[v] = MacOf(v) /\ MacOf(v) \in Vnics
               /\ MacOf(v) # InvalidMac
               /\ dev'[MacOf(v)] \in read /\ MacOf(dev'[MacOf(v)]) = MacOf(v)
         /\ \A v \in read : MacOf(v) \in Macs => v \in Vfs /\ Carries(v)' /\ vnic'[v] = MacOf(v)
<1>1. TypeOK /\ read \subseteq Vfs
  BY DEF IInv, TypeOK
<1>2. \A v \in Vfs : MacOf(v) \in Vnics
  <2> SUFFICES ASSUME NEW v \in Vfs PROVE MacOf(v) \in Vnics
    OBVIOUS
  <2>1. CASE guid[v] # NoMac
    BY <1>1, <2>1 DEF MacOf, Vnics, TypeOK
  <2>2. CASE guid[v] = NoMac
    BY <1>1, <2>2 DEF MacOf, Vnics, TypeOK, Kinds
  <2> QED
    BY <2>1, <2>2
<1>3. /\ vnic' = [v \in Vfs |-> IF v \in read THEN MacOf(v) ELSE NoMac]
      /\ vlan' = [m \in Vnics |-> NoVlan]
      /\ dev' \in [Vnics -> Vfs \cup {NoVf}]
      /\ \A m \in Vnics : dev'[m] \in FirstVf(m, read)
  BY DEF Restart
<1>4. /\ DOMAIN state' = Vfs
      /\ state' = [v \in Vfs |-> state'[v]]
      /\ \A v \in Vfs : v \notin read => state'[v] = "none"
      /\ \A v \in Vfs : v \in read /\ MacOf(v) = InvalidMac => state'[v] = "pending"
      /\ \A v \in Vfs : v \in read /\ MacOf(v) # InvalidMac => state'[v] = "attached"
  BY DEF Restart
<1>5. state' \in [Vfs -> PortStates]
  BY <1>4 DEF PortStates
<1>6. vnic' \in [Vfs -> Vnics \cup {NoMac}] /\ vlan' \in [Vnics -> Vlans \cup {NoVlan}]
  BY <1>2, <1>3
<1>7. ASSUME NEW v \in Vfs, state'[v] = "attached"
      PROVE  /\ v \in read /\ vnic'[v] = MacOf(v) /\ MacOf(v) \in Vnics
             /\ MacOf(v) # InvalidMac
             /\ dev'[MacOf(v)] \in read /\ MacOf(dev'[MacOf(v)]) = MacOf(v)
  <2>1. v \in read /\ MacOf(v) # InvalidMac
    BY <1>4, <1>7
  <2>2. FirstVf(MacOf(v), read) = {u \in read : MacOf(u) = MacOf(v)}
    BY <2>1 DEF FirstVf
  <2> QED
    BY <1>2, <1>3, <2>1, <2>2
<1>8. ASSUME NEW v \in read, MacOf(v) \in Macs
      PROVE  v \in Vfs /\ Carries(v)' /\ vnic'[v] = MacOf(v)
  BY <1>1, <1>3, <1>4, <1>8 DEF Carries
<1> QED
  BY <1>3, <1>5, <1>6, <1>7, <1>8

LEMMA RestartInvariant ==
  ASSUME IInv, NEW read \in SUBSET domain, Restart(read),
         UNCHANGED <<kind, hardware, nova, asked>>, (faults \in 0 .. MaxFaults)'
  PROVE  IInv'
<1>1. /\ TypeOK /\ OnePlace /\ AttachedOK /\ DomainOK /\ PluggedOK /\ PkeyOK
      /\ Answerable /\ RightVf /\ NoForeignVlan /\ read \subseteq Vfs
  BY DEF IInv, TypeOK
<1>2. TypeOK'
  BY <1>1, Scans DEF TypeOK, hardware, nova
<1>3. OnePlace' /\ DomainOK' /\ PluggedOK' /\ PkeyOK' /\ NoForeignVlan'
  BY <1>1 DEF OnePlace, DomainOK, PluggedOK, PkeyOK, NoForeignVlan, nova, hardware
<1>4. AttachedOK'
  <2>1. \A v \in Vfs : MacOf(v) \in Vnics /\ MacOf(v) = ClearedMac => kind = "MLNX5"
    <3> SUFFICES ASSUME NEW v \in Vfs, MacOf(v) = ClearedMac PROVE kind = "MLNX5"
      OBVIOUS
    <3>1. guid[v] = NoMac
      BY <1>1 DEF MacOf, TypeOK
    <3> QED
      BY <1>1, <3>1 DEF MacOf, TypeOK, Kinds
  <2>2. NoMac \notin Vnics
    BY DEF Vnics
  <2> QED
    BY <2>1, <2>2, Scans DEF AttachedOK
<1>5. Answerable'
  BY <1>1, Scans DEF Answerable, Carries
<1>6. RightVf'
  <2> SUFFICES ASSUME NEW v \in Vfs, Carries(v)', vnic'[v] \in Macs
               PROVE  /\ dev'[vnic'[v]] = v /\ place'[vnic'[v]] = v
                      /\ guid'[v] = vnic'[v]
    BY DEF RightVf
  <2>1. /\ v \in read /\ vnic'[v] = MacOf(v)
        /\ dev'[MacOf(v)] \in read /\ MacOf(dev'[MacOf(v)]) = MacOf(v)
    BY Scans DEF Carries
  <2>2. /\ guid[v] = MacOf(v) /\ place[MacOf(v)] = v
        /\ place[MacOf(v)] = dev'[MacOf(v)]
    BY <2>1, ReadVf
  <2> QED
    BY <2>1, <2>2 DEF hardware, nova
<1> QED
  BY <1>2, <1>3, <1>4, <1>5, <1>6 DEF IInv

\* The scan at start reads the VFs of the domains, or none.
LEMMA Reads ==
  ASSUME IInv, DaemonRestarts
  PROVE  /\ \E read \in SUBSET domain : Restart(read)
         /\ Restart({}) \/ Restart(domain)
         /\ UNCHANGED <<kind, hardware, nova, asked>> /\ (faults \in 0 .. MaxFaults)'
<1>1. faults \in 0 .. MaxFaults
  BY DEF IInv, TypeOK
<1>2. {} \in SUBSET domain /\ domain \in SUBSET domain
  OBVIOUS
<1>3. (faults \in 0 .. MaxFaults)'
  BY <1>1 DEF DaemonRestarts, Fault
<1> QED
  BY <1>2, <1>3 DEF DaemonRestarts

LEMMA NextInvariant == IInv /\ [Next]_vars => IInv'
<1> SUFFICES ASSUME IInv, [Next]_vars PROVE IInv'
  OBVIOUS
<1>1. CASE DaemonRestarts
  BY <1>1, Reads, RestartInvariant
<1>2. CASE UNCHANGED vars
  BY <1>2
  DEF IInv, TypeOK, OnePlace, AttachedOK, DomainOK, PluggedOK, PkeyOK, Answerable,
      RightVf, NoForeignVlan, Carries, vars, tables, hardware, nova
<1> QED
  BY <1>1, <1>2, PlugInvariant, UnplugInvariant, DefineInvariant,
     SetsVlanInvariant, ReleasesInvariant
  DEF Next

LEMMA Invariant == Spec => []IInv
BY InitInvariant, NextInvariant, PTL DEF Spec

\* What the tables, the hardware and Nova hold.
THEOREM TypeCorrect == Spec => []TypeOK
<1>1. IInv => TypeOK
  BY DEF IInv
<1> QED
  BY <1>1, Invariant, PTL

\* No request finds an attached vnic without a policy.
THEOREM AlwaysAnswerableCorrect == Spec => []AlwaysAnswerable
<1>1. IInv => AlwaysAnswerable
  BY DEF IInv, AlwaysAnswerable
<1> QED
  BY <1>1, Invariant, PTL

\* A vnic is configured on the VF that carries it and that Nova gave it.
THEOREM RightVfCorrect == Spec => []RightVf
<1>1. IInv => RightVf
  BY DEF IInv
<1> QED
  BY <1>1, Invariant, PTL

\* A VF never has the pkey of another guest.
THEOREM NoForeignVlanCorrect == Spec => []NoForeignVlan
<1>1. IInv => NoForeignVlan
  BY DEF IInv
<1> QED
  BY <1>1, Invariant, PTL

-----------------------------------------------------------------------------
(* A vnic stays attached.                                                  *)

\* A vnic that is not unplugged stays attached, to the same VF with the same pkey.
Kept(m) == m \in plugged' => /\ m \in Attached' /\ dev'[m] = dev[m]
                             /\ pkey'[dev[m]] = pkey[dev[m]]

\* What is known of an attached vnic.
LEMMA AttachedVf ==
  ASSUME IInv, NEW m \in Macs \cap Attached
  PROVE  /\ dev[m] \in Vfs /\ vnic[dev[m]] = m /\ state[dev[m]] = "attached"
         /\ place[m] = dev[m]
         /\ \A x \in Macs : x # m /\ Found(x) => dev[x] # dev[m]
<1>1. Found(m)
  BY DEF Found, IInv
<1>2. dev[m] \in Vfs /\ Carries(dev[m]) /\ vnic[dev[m]] = m /\ place[m] = dev[m]
  BY <1>1, FoundVf
<1>3. ASSUME NEW x \in Macs, x # m, Found(x) PROVE dev[x] # dev[m]
  BY <1>2, <1>3, FoundVf
<1> QED
  BY <1>2, <1>3 DEF Carries

LEMMA Attaches ==
  ASSUME NEW v \in Vfs, NEW m \in Macs, vnic'[v] = m, state'[v] = "attached"
  PROVE  m \in Attached'
<1>1. m # NoMac
  OBVIOUS
<1> QED
  BY <1>1 DEF Attached, Carries

LEMMA PlugKeeps ==
  ASSUME IInv, NEW m \in Macs \cap Attached, NEW v \in Vfs, NEW x \in Macs \ {m},
         Plug(v, x)
  PROVE  Kept(m)
<1>1. PICK n \in Writes : PlugNic(v, x, n)
  BY DEF Plug
<1>2. /\ dev[m] \in Vfs /\ vnic[dev[m]] = m /\ state[dev[m]] = "attached"
      /\ place[m] = dev[m] /\ TypeOK /\ OnePlace
  BY AttachedVf DEF IInv
<1>3. dev[m] # v
  BY <1>2 DEF Plug, OnePlace
<1>4. /\ vnic'[dev[m]] = m /\ state'[dev[m]] = "attached"
      /\ dev'[m] = dev[m] /\ pkey'[dev[m]] = pkey[dev[m]]
  BY <1>1, <1>2, <1>3 DEF PlugNic, ConfigVf, TypeOK, Vnics
<1> QED
  BY <1>2, <1>4, Attaches DEF Kept

LEMMA UnplugKeeps ==
  ASSUME IInv, NEW m \in Macs \cap Attached, NEW x \in Macs, Unplug(x)
  PROVE  Kept(m)
<1>1. CASE x = m
  BY <1>1 DEF Unplug, Kept
<1>2. CASE x # m
  <2>1. PICK n \in Writes : DeletePort(x, n)
    BY DEF Unplug
  <2>2. /\ dev[m] \in Vfs /\ vnic[dev[m]] = m /\ state[dev[m]] = "attached"
        /\ TypeOK /\ (Found(x) => dev[x] # dev[m])
    BY <1>2, AttachedVf DEF IInv
  <2>3. /\ vnic'[dev[m]] = m /\ state'[dev[m]] = "attached"
        /\ dev'[m] = dev[m] /\ pkey'[dev[m]] = pkey[dev[m]]
    BY <2>1, <2>2
    DEF DeletePort, DetachVnic, ConfigVf, TypeOK, tables, hardware
  <2> QED
    BY <2>2, <2>3, Attaches DEF Kept
<1> QED
  BY <1>1, <1>2

LEMMA ReleaseKeeps ==
  ASSUME IInv, NEW m \in Macs \cap Attached, NEW x \in Macs \ {m}, AgentReleases(x)
  PROVE  Kept(m)
<1>1. /\ dev[m] \in Vfs /\ vnic[dev[m]] = m /\ state[dev[m]] = "attached"
      /\ TypeOK /\ (Found(x) => dev[x] # dev[m])
  BY AttachedVf DEF IInv
<1>2. /\ vnic'[dev[m]] = m /\ state'[dev[m]] = "attached"
      /\ dev'[m] = dev[m] /\ pkey'[dev[m]] = pkey[dev[m]]
  BY <1>1 DEF AgentReleases, PortRelease, DropPolicy, TypeOK, tables, hardware, Vnics
<1> QED
  BY <1>1, <1>2, Attaches DEF Kept

LEMMA SetsVlanKeeps ==
  ASSUME IInv, NEW m \in Macs \cap Attached, NEW x \in Macs, NEW l, NEW w,
         AgentSetsVlan(x, l, w)
  PROVE  m \in Attached' /\ dev'[m] = dev[m] /\ (x # m => Kept(m))
<1>1. /\ dev[m] \in Vfs /\ vnic[dev[m]] = m /\ state[dev[m]] = "attached"
      /\ TypeOK /\ (x # m /\ Found(x) => dev[x] # dev[m])
  BY AttachedVf DEF IInv
<1>2. UNCHANGED <<vnic, state, dev>>
  BY DEF AgentSetsVlan, SetVlan
<1>3. x # m => pkey'[dev[m]] = pkey[dev[m]]
  BY <1>1 DEF AgentSetsVlan, SetVlan, SetVlanOk, ConfigVlan, TypeOK
<1> QED
  BY <1>1, <1>2, <1>3, Attaches DEF Kept

LEMMA RestartKeeps ==
  ASSUME IInv, NEW m \in plugged \cap Attached, place[m] \in domain,
         Restart(domain), UNCHANGED <<kind, hardware, nova, asked, faults>>
  PROVE  Kept(m)
<1>1. /\ TypeOK /\ PluggedOK /\ m \in Macs /\ domain \in SUBSET domain
      /\ faults' \in 0 .. MaxFaults
  BY DEF IInv, TypeOK
<1>2. dev[m] \in Vfs /\ place[m] = dev[m] /\ guid[dev[m]] = m
  BY <1>1, AttachedVf DEF PluggedOK
<1>3. MacOf(dev[m]) = m
  BY <1>1, <1>2 DEF MacOf
<1>4. vnic'[dev[m]] = m /\ state'[dev[m]] = "attached"
  BY <1>1, <1>2, <1>3, Scans DEF Carries
<1>5. RightVf'
  BY <1>1, RestartInvariant DEF IInv
<1>6. dev'[m] = dev[m]
  <2>1. \A v \in Vfs : vnic'[v] # NoMac /\ state'[v] = "attached" /\ vnic'[v] \in Macs
                      => dev'[vnic'[v]] = v
    BY <1>5 DEF RightVf, Carries
  <2> QED
    BY <1>1, <1>2, <1>4, <2>1
<1> QED
  BY <1>1, <1>2, <1>4, <1>6, Attaches DEF Kept, hardware

Stays(m) == \/ m \in Attached' \cup (Macs \ plugged')
            \/ PortRelease(m)
            \/ Restart({})
            \/ place[m] \notin domain /\ Restart(domain)

LEMMA StepStays ==
  ASSUME IInv, [Next]_vars, NEW m \in plugged \cap Attached
  PROVE  Stays(m)
<1>1. TypeOK /\ m \in Macs
  BY DEF IInv, TypeOK
<1>2. Kept(m) => Stays(m)
  BY <1>1 DEF Kept, Stays
<1>3. ASSUME NEW v \in Vfs, NEW x \in Macs, Plug(v, x) PROVE Stays(m)
  <2>1. CASE x # m
    BY <1>1, <1>2, <1>3, <2>1, PlugKeeps
  <2>2. CASE x = m
    <3>1. PICK n \in Writes :
             /\ PlugNic(v, m, n)
             /\ plugged' = IF n = 3 THEN plugged \cup {m} ELSE plugged \ {m}
      BY <1>3, <2>2 DEF Plug
    <3>2. n = 3 => vnic'[v] = m /\ state'[v] = "attached"
      BY <1>1, <3>1 DEF PlugNic, TypeOK
    <3>3. n = 3 => m \in Attached'
      BY <1>1, <3>2, Attaches
    <3> QED
      BY <1>1, <3>1, <3>3 DEF Stays
  <2> QED
    BY <2>1, <2>2
<1>4. ASSUME NEW x \in Macs, AgentReleases(x) PROVE Stays(m)
  <2>1. CASE x = m
    BY <1>4, <2>1 DEF AgentReleases, Stays
  <2>2. CASE x # m
    BY <1>1, <1>2, <1>4, <2>2, ReleaseKeeps
  <2> QED
    BY <2>1, <2>2
<1>5. CASE DaemonRestarts
  <2>1. CASE Restart({}) \/ (place[m] \notin domain /\ Restart(domain))
    BY <2>1 DEF Stays
  <2>2. CASE place[m] \in domain /\ Restart(domain) /\ ~Restart({})
    <3>1. UNCHANGED <<kind, hardware, nova, asked, faults>>
      BY <1>5, <2>2 DEF DaemonRestarts, Fault
    <3> QED
      BY <1>2, <2>2, <3>1, RestartKeeps
  <2> QED
    BY <1>5, <2>1, <2>2, Reads
<1>6. CASE UNCHANGED vars \/ \E x \in Macs : DefineDomain(x)
  <2>1. UNCHANGED <<vnic, state>>
    BY <1>6 DEF vars, tables, DefineDomain
  <2> QED
    BY <1>1, <2>1, AttachedVf, Attaches DEF Stays
<1>7. ASSUME NEW x \in Macs, Unplug(x) PROVE Stays(m)
  BY <1>1, <1>2, <1>7, UnplugKeeps
<1>8. ASSUME NEW x \in Macs, NEW l \in Vlans, NEW w \in BOOLEAN, AgentSetsVlan(x, l, w)
      PROVE  Stays(m)
  BY <1>1, <1>8, SetsVlanKeeps DEF Stays
<1> QED
  BY <1>3, <1>4, <1>5, <1>6, <1>7, <1>8 DEF Next

\* A plugged vnic stays attached whatever is done to the others, and when the
\* daemon is started again.
THEOREM StaysAttachedCorrect == Spec => StaysAttached
<1>1. IInv /\ [Next]_vars => [\A m \in plugged \cap Attached : Stays(m)]_vars
  BY StepStays
<1>2. [\A m \in plugged \cap Attached : Stays(m)]_vars =>
         [\A m \in plugged \cap Attached :
             \/ m \in Attached' \cup (Macs \ plugged')
             \/ PortRelease(m)
             \/ Restart({})
             \/ place[m] \notin domain /\ Restart(domain)]_vars
  BY DEF Stays
<1> QED
  BY <1>1, <1>2, Invariant, PTL DEF Spec, StaysAttached

=============================================================================
