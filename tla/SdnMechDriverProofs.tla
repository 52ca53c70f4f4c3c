------------------------ MODULE SdnMechDriverProofs ------------------------
(***************************************************************************)
(* What the mechanism driver records, for any number of networks, ports,   *)
(* hosts and rows.                                                         *)
(***************************************************************************)
EXTENDS SdnMechDriver, TLAPS

JournalOK == EntriesOK /\ data \in Seq(Attrs) /\ Len(data) = Len(entry)

\* A live port has its network.
NetsLive == \A p \in Ports : neutron[p] = "live" => neutron[NetOf[p]] = "live"

\* The port is on host h and will not leave it unseen.
Watched(p, h) == /\ neutron[p] = "live"
                 /\ attrs[p].host = h
                 /\ Followed(attrs[p])
                 /\ kind[NetOf[p]].allowed

HeldInv(p) == \A h \in HostsHeld(p) : Watched(p, h) \/ <<p, h>> \in orphans

\* The POST of a call of bind_port stands as long as the call says so, and so
\* does that of a bound port.
CallsInv(p) ==
    /\ \A c \in binding[p] :
           neutron[p] = "live" /\ c.posted => c.port.host \in HostsHeld(p)
    /\ p \in announced => attrs[p].host \in HostsHeld(p)

\* What InfoPosted says of one port.
LastPost(p) == \E r \in PostsOf(p) :
                   /\ \A q \in PostsOf(p) : q <= r
                   /\ attrs[p].link \in {NoInfo, data[r].link}
                   /\ attrs[p].client \in {NoInfo, data[r].client}
InfoInv(p) == /\ p \notin outdated
              /\ neutron[p] = "live"
              /\ attrs[p].bare
              /\ kind[NetOf[p]].allowed
              /\ {attrs[p].link, attrs[p].client} # {NoInfo}
              => LastPost(p)

PortInv(p) == /\ neutron[p] = "absent" => binding[p] = {}
              /\ HeldInv(p) /\ CallsInv(p) /\ InfoInv(p)

IInv == TypeOK /\ NetsLive /\ \A p \in Ports : PortInv(p)

USE ObjectsAssumption, MaxRowsAssumption, AbsentAssumption, BoundsAssumption,
    VersionsAssumption

-----------------------------------------------------------------------------
(* The effect of a recorded row.                                           *)

\* A new row is the last one.
LEMMA Recorded ==
  ASSUME JournalOK, NEW o \in Objects, NEW op \in Ops, NEW d \in Attrs,
         Len(entry) < MaxRows, Record(o, op, d)
  PROVE  /\ JournalOK'
         /\ Len(entry') = Len(entry) + 1 /\ Len(entry) \in Nat
         /\ Rows' = Rows \cup {Len(entry) + 1} /\ Len(entry) + 1 \notin Rows
         /\ \A r \in Rows : r < Len(entry) + 1
         /\ \A r \in Rows : entry'[r] = entry[r] /\ data'[r] = data[r]
         /\ entry'[Len(entry) + 1].obj = o /\ entry'[Len(entry) + 1].op = op
         /\ data'[Len(entry) + 1] = d
<1> DEFINE e == [obj |-> o, op |-> op, at |-> 0]
<1>1. /\ entry \in Seq(Entry) /\ data \in Seq(Attrs) /\ Len(data) = Len(entry)
      /\ entry' = Append(entry, e) /\ data' = Append(data, d)
  BY DEF JournalOK, EntriesOK, Record
<1>2. e \in Entry
  BY DEF Entry
<1>3. /\ entry' \in Seq(Entry) /\ Len(entry') = Len(entry) + 1
      /\ \A r \in 1 .. Len(entry) : entry'[r] = entry[r]
      /\ entry'[Len(entry) + 1] = e /\ Len(entry) \in Nat
  <2> HIDE DEF e
  <2> QED
    BY <1>1, <1>2
<1>4. /\ data' \in Seq(Attrs) /\ Len(data') = Len(data) + 1
      /\ \A r \in 1 .. Len(data) : data'[r] = data[r]
      /\ data'[Len(data) + 1] = d
  BY <1>1
<1> QED
  BY <1>1, <1>3, <1>4 DEF JournalOK, EntriesOK, Rows

\* How it changes the rows that count, and the hosts the controller holds.
LEMMA RecordedHeld ==
  ASSUME JournalOK, NEW o \in Objects, NEW op \in Ops, NEW d \in Attrs,
         Len(entry) < MaxRows, Record(o, op, d), NEW p \in Ports
  PROVE  /\ o # p \/ op = "put" =>
                /\ HostsHeld(p)' = HostsHeld(p) /\ PostsOf(p)' = PostsOf(p)
         /\ o = p /\ op = "post" =>
                /\ HostsHeld(p)' = HostsHeld(p) \cup ({d.host} \cap Hosts)
                /\ PostsOf(p)' = PostsOf(p) \cup {Len(entry) + 1}
         /\ o = p /\ op = "delete" =>
                /\ HostsHeld(p)' = HostsHeld(p) \ {d.host}
                /\ PostsOf(p)' = PostsOf(p)
<1> DEFINE n == Len(entry) + 1
<1>1. /\ Rows' = Rows \cup {n} /\ n \notin Rows
      /\ \A r \in Rows : r < n /\ ~(n < r) /\ ~(r > n)
      /\ \A r \in Rows : entry'[r] = entry[r] /\ data'[r] = data[r]
      /\ entry'[n].obj = o /\ entry'[n].op = op /\ data'[n] = d
      /\ ~(n > n)
  BY Recorded DEF Rows
<1>2. /\ PostsOf(p) \subseteq Rows /\ DeletesOf(p) \subseteq Rows
      /\ o # p \/ op # "post" => PostsOf(p)' = PostsOf(p)
      /\ o # p \/ op # "delete" => DeletesOf(p)' = DeletesOf(p)
      /\ o = p /\ op = "post" => PostsOf(p)' = PostsOf(p) \cup {n}
      /\ o = p /\ op = "delete" => DeletesOf(p)' = DeletesOf(p) \cup {n}
  <2> HIDE DEF n
  <2> QED
    BY <1>1 DEF PostsOf, DeletesOf
<1>3. CASE o # p \/ op = "put"
  <2>1. PostsOf(p)' = PostsOf(p) /\ DeletesOf(p)' = DeletesOf(p)
    BY <1>2, <1>3
  <2> QED
    BY <1>1, <1>2, <1>3, <2>1 DEF HostsHeld
<1>4. CASE o = p /\ op = "post"
  <2>1. PostsOf(p)' = PostsOf(p) \cup {n} /\ DeletesOf(p)' = DeletesOf(p)
    BY <1>2, <1>4
  <2>2. \A q \in DeletesOf(p) : ~(q > n)
    BY <1>1, <1>2
  <2>3. HostsHeld(p)' = HostsHeld(p) \cup ({d.host} \cap Hosts)
    <3> HIDE DEF n
    <3> QED
      BY <1>1, <1>2, <2>1, <2>2 DEF HostsHeld
  <2> QED
    BY <1>4, <2>1, <2>3
<1>5. CASE o = p /\ op = "delete"
  <2>1. PostsOf(p)' = PostsOf(p) /\ DeletesOf(p)' = DeletesOf(p) \cup {n}
    BY <1>2, <1>5
  <2>2. \A r \in PostsOf(p) : n > r
    BY <1>1, <1>2
  <2>3. HostsHeld(p)' = HostsHeld(p) \ {d.host}
    <3> HIDE DEF n
    <3> QED
      BY <1>1, <1>2, <2>1, <2>2 DEF HostsHeld
  <2> QED
    BY <1>5, <2>1, <2>3
<1> QED
  BY <1>3, <1>4, <1>5 DEF Ops

\* No row, no effect.
LEMMA Silent ==
  ASSUME JournalOK, UNCHANGED journal
  PROVE  /\ JournalOK'
         /\ \A p \in Ports : /\ HostsHeld(p)' = HostsHeld(p)
                             /\ PostsOf(p)' = PostsOf(p)
BY DEF journal, JournalOK, EntriesOK, HostsHeld, PostsOf, DeletesOf, Rows

\* The rows of other ports keep what they say.
LEMMA DataKept ==
  ASSUME JournalOK, NEW o \in Objects, NEW op \in Ops, NEW d \in Attrs,
         Len(entry) < MaxRows,
         Record(o, op, d) \/ UNCHANGED journal
  PROVE  \A p \in Ports : \A r \in PostsOf(p) : data'[r] = data[r]
BY Recorded DEF journal, PostsOf

\* The types of the journal are part of TypeOK.
LEMMA Types ==
  TypeOK => /\ JournalOK
            /\ \A p \in Ports : /\ attrs[p] \in Attrs /\ binding[p] \subseteq Calls
                                /\ p \in Objects /\ NetOf[p] \in Nets
                                /\ NetOf[p] \in Objects /\ NetOf[p] # p
            /\ \A n \in Nets : n \in Objects /\ n \notin Ports
BY DEF TypeOK, JournalOK, Objects

\* A port that a step leaves alone.
LEMMA Quiet ==
  ASSUME TypeOK, NEW p \in Ports, PortInv(p),
         neutron'[p] = neutron[p], attrs'[p] = attrs[p],
         neutron[p] = "live" => kind'[NetOf[p]] = kind[NetOf[p]],
         binding'[p] = binding[p],
         orphans \subseteq orphans',
         p \in announced' => p \in announced,
         p \in outdated => p \in outdated',
         HostsHeld(p)' = HostsHeld(p), PostsOf(p)' = PostsOf(p),
         \A r \in PostsOf(p) : data'[r] = data[r]
  PROVE  PortInv(p)'
<1>1. HeldInv(p)' /\ CallsInv(p)'
  BY DEF PortInv, HeldInv, CallsInv, Watched
<1>2. LastPost(p) => LastPost(p)'
  BY DEF LastPost
<1>3. InfoInv(p)'
  BY <1>2 DEF PortInv, InfoInv
<1> QED
  BY <1>1, <1>3 DEF PortInv

LEMMA InitInvariant == Init => IInv
<1> SUFFICES ASSUME Init PROVE IInv
  OBVIOUS
<1>1. TypeOK
  <2>1. entry = <<>> /\ data = <<>> /\ NoAttrs \in Attrs
    BY DEF Init, NoAttrs, Attrs
  <2>2. EntriesOK /\ data \in Seq(Attrs) /\ Len(data) = Len(entry)
    BY <2>1 DEF EntriesOK
  <2> QED
    BY <2>1, <2>2 DEF Init, TypeOK, Kinds
<1>2. NetsLive
  BY DEF Init, NetsLive, Objects
<1>3. ASSUME NEW p \in Ports PROVE PortInv(p)
  <2>1. HostsHeld(p) = {} /\ attrs[p] = NoAttrs
    BY DEF Init, HostsHeld, PostsOf, Rows
  <2> QED
    BY <2>1 DEF Init, PortInv, HeldInv, CallsInv, InfoInv, NoAttrs
<1> QED
  BY <1>1, <1>2, <1>3 DEF IInv

-----------------------------------------------------------------------------
(* Networks.                                                               *)

\* A handler of a network leaves the rows of ports alone.
LEMMA NetworkHandler ==
  ASSUME TypeOK, NEW n \in Nets, NEW op \in Ops, NEW sends, Len(entry) < MaxRows,
         Handler(sends, n, op, NoAttrs)
  PROVE  /\ JournalOK' /\ errors' \in 0 .. MaxErrors
         /\ \A p \in Ports : /\ HostsHeld(p)' = HostsHeld(p)
                             /\ PostsOf(p)' = PostsOf(p)
                             /\ \A r \in PostsOf(p) : data'[r] = data[r]
<1>1. /\ JournalOK /\ n \in Objects /\ \A p \in Ports : n # p
      /\ NoAttrs \in Attrs /\ errors \in 0 .. MaxErrors
  BY Types DEF NoAttrs, Attrs, TypeOK
<1>2. CASE Record(n, op, NoAttrs) /\ UNCHANGED errors
  BY <1>1, <1>2, Recorded, RecordedHeld, DataKept
<1>3. CASE UNCHANGED journal /\ (UNCHANGED errors \/ RecordFails)
  BY <1>1, <1>3, Silent, DataKept DEF RecordFails, journal
<1> QED
  BY <1>2, <1>3 DEF Handler, RecordFails, journal

LEMMA NetworkInvariant ==
  ASSUME IInv, Len(entry) < MaxRows, NEW n \in Nets,
         \/ \E k \in Kinds : CreateNetwork(n, k)
         \/ UpdateNetwork(n) \/ DeleteNetwork(n)
  PROVE  IInv'
<1>1. TypeOK /\ NetsLive
  BY DEF IInv
<1>2. UNCHANGED <<attrs, bound, binding, ghosts>>
  BY DEF CreateNetwork, UpdateNetwork, DeleteNetwork
<1>3. /\ JournalOK' /\ errors' \in 0 .. MaxErrors
      /\ \A p \in Ports : /\ HostsHeld(p)' = HostsHeld(p)
                          /\ PostsOf(p)' = PostsOf(p)
                          /\ \A r \in PostsOf(p) : data'[r] = data[r]
  BY <1>1, NetworkHandler DEF CreateNetwork, UpdateNetwork, DeleteNetwork, Ops
<1>4. /\ neutron' \in [Objects -> {"absent", "live", "deleted"}]
      /\ kind' \in [Nets -> Kinds]
      /\ \A p \in Ports : neutron'[p] = neutron[p]
      /\ \A m \in Nets : neutron[m] # "absent" => kind'[m] = kind[m]
      /\ \A m \in Nets : neutron[m] = "live" /\ neutron'[m] # "live" =>
             \A p \in Ports : NetOf[p] = m => neutron[p] # "live"
  BY <1>1, Types DEF TypeOK, CreateNetwork, UpdateNetwork, DeleteNetwork
<1>5. TypeOK'
  BY <1>1, <1>2, <1>3, <1>4 DEF TypeOK, JournalOK, ghosts
<1>6. NetsLive'
  BY <1>1, <1>4, Types DEF NetsLive
<1>7. ASSUME NEW p \in Ports PROVE PortInv(p)'
  <2>1. neutron[p] = "live" => kind'[NetOf[p]] = kind[NetOf[p]]
    BY <1>1, <1>4, Types DEF NetsLive
  <2> QED
    BY <1>1, <1>2, <1>3, <1>4, <2>1, Quiet DEF IInv, ghosts
<1> QED
  BY <1>5, <1>6, <1>7 DEF IInv

-----------------------------------------------------------------------------
(* Ports.                                                                  *)

\* A POST with the information the port has is the last one.
LEMMA PostIsLast ==
  ASSUME JournalOK, NEW p \in Ports, NEW d \in Attrs, Len(entry) < MaxRows,
         Record(p, "post", d),
         attrs'[p].link = d.link, attrs'[p].client = d.client
  PROVE  LastPost(p)'
<1> DEFINE n == Len(entry) + 1
<1>1. /\ PostsOf(p)' = PostsOf(p) \cup {n} /\ data'[n] = d
      /\ \A r \in PostsOf(p) : r <= n
      /\ n <= n
  <2>1. p \in Objects /\ "post" \in Ops
    BY DEF Objects, Ops
  <2> QED
    BY <2>1, Recorded, RecordedHeld DEF PostsOf, Rows
<1> HIDE DEF n
<1> QED
  BY <1>1 DEF LastPost

\* A row of one port leaves the others alone.
LEMMA OtherPorts ==
  ASSUME JournalOK, NEW p \in Ports, NEW op \in Ops, NEW d \in Attrs,
         Len(entry) < MaxRows, Record(p, op, d) \/ UNCHANGED journal
  PROVE  /\ JournalOK'
         /\ \A q \in Ports \ {p} : HostsHeld(q)' = HostsHeld(q) /\ PostsOf(q)' = PostsOf(q)
         /\ \A q \in Ports : \A r \in PostsOf(q) : data'[r] = data[r]
<1>1. p \in Objects
  BY DEF Objects
<1> QED
  BY <1>1, Recorded, RecordedHeld, Silent, DataKept

\* What update_port_precommit does to the journal.
LEMMA Precommit ==
  ASSUME JournalOK, NEW p \in Ports, NEW old \in Attrs, NEW new \in Attrs,
         Len(entry) < MaxRows, UpdatePrecommit(p, old, new)
  PROVE  /\ JournalOK'
         /\ \A q \in Ports \ {p} : HostsHeld(q)' = HostsHeld(q) /\ PostsOf(q)' = PostsOf(q)
         /\ \A q \in Ports : \A r \in PostsOf(q) : data'[r] = data[r]
         /\ ~new.bare =>
               IF kind[NetOf[p]].allowed /\ LeavesHost(old, new)
                 THEN HostsHeld(p)' = HostsHeld(p) \ {old.host}
                 ELSE HostsHeld(p)' = HostsHeld(p)
         /\ new.bare =>
               IF kind[NetOf[p]].allowed /\ NewInfo(old, new)
                 THEN /\ Record(p, "post", new)
                      /\ HostsHeld(p)' = HostsHeld(p) \cup ({new.host} \cap Hosts)
                 ELSE UNCHANGED journal /\ HostsHeld(p)' = HostsHeld(p)
<1>1. p \in Objects /\ {"post", "put", "delete"} \subseteq Ops
  BY DEF Objects, Ops
<1>2. CASE new.bare /\ kind[NetOf[p]].allowed /\ NewInfo(old, new)
           /\ Record(p, "post", new)
  BY <1>1, <1>2, OtherPorts, RecordedHeld
<1>3. CASE ~new.bare /\ kind[NetOf[p]].allowed /\ LeavesHost(old, new)
           /\ Record(p, "delete", old)
  BY <1>1, <1>3, OtherPorts, RecordedHeld
<1>4. CASE ~new.bare /\ kind[NetOf[p]].allowed /\ ~LeavesHost(old, new)
           /\ Record(p, "put", new)
  BY <1>1, <1>4, OtherPorts, RecordedHeld
<1>5. CASE /\ kind[NetOf[p]].allowed => new.bare /\ ~NewInfo(old, new)
           /\ UNCHANGED journal
  BY <1>1, <1>5, OtherPorts, Silent
<1> QED
  BY <1>2, <1>3, <1>4, <1>5 DEF UpdatePrecommit

LEMMA CreatePortInvariant ==
  ASSUME IInv, Len(entry) < MaxRows, NEW p \in Ports, NEW a \in Attrs,
         CreatePort(p, a)
  PROVE  IInv'
<1>1. /\ TypeOK /\ NetsLive /\ JournalOK /\ "post" \in Ops
      /\ UNCHANGED <<kind, bound, binding, ghosts, errors>>
      /\ Record(p, "post", a) \/ UNCHANGED journal
      /\ p \notin bound
  BY Types DEF IInv, CreatePort, Ops, TypeOK
<1>2. /\ neutron[p] = "absent" /\ neutron[NetOf[p]] = "live"
      /\ neutron' \in [Objects -> {"absent", "live", "deleted"}]
      /\ neutron'[p] = "live"
      /\ attrs' \in [Ports -> Attrs] /\ attrs'[p] = a
      /\ \A o \in Objects : o # p => neutron'[o] = neutron[o]
      /\ \A q \in Ports : q # p => attrs'[q] = attrs[q]
  BY <1>1, Types DEF TypeOK, CreatePort
<1>3. TypeOK'
  <2>1. JournalOK'
    BY <1>1, OtherPorts
  <2>2. \A q \in bound : neutron'[q] = "live" /\ attrs'[q].host # NoHost
    BY <1>1, <1>2, Types DEF TypeOK
  <2> QED
    BY <1>1, <1>2, <2>1, <2>2 DEF TypeOK, JournalOK, ghosts
<1>4. NetsLive'
  BY <1>1, <1>2, Types DEF NetsLive
<1>5. ASSUME NEW q \in Ports, q # p PROVE PortInv(q)'
  BY <1>1, <1>2, <1>5, OtherPorts, Quiet, Types DEF IInv, ghosts
<1>6. PortInv(p)'
  <2>1. /\ binding'[p] = {} /\ p \notin announced' /\ neutron'[p] = "live"
        /\ PortInv(p)
    BY <1>1, <1>2, Types DEF IInv, PortInv, TypeOK, ghosts
  <2>2. HeldInv(p)'
    <3>1. \A h \in HostsHeld(p) : <<p, h>> \in orphans'
      BY <1>1, <1>2, <2>1 DEF PortInv, HeldInv, Watched, ghosts
    <3>2. CASE UNCHANGED journal
      BY <1>1, <3>1, <3>2, Silent DEF HeldInv
    <3>3. CASE Record(p, "post", a) /\ a.bare /\ kind[NetOf[p]].allowed
      <4>1. HostsHeld(p)' = HostsHeld(p) \cup ({a.host} \cap Hosts)
        BY <1>1, <3>3, RecordedHeld, Types
      <4> QED
        BY <1>1, <1>2, <2>1, <3>1, <3>3, <4>1 DEF HeldInv, Watched, Followed
    <3> QED
      BY <3>2, <3>3 DEF CreatePort
  <2>3. InfoInv(p)'
    <3>1. CASE Record(p, "post", a)
      BY <1>1, <1>2, <3>1, PostIsLast DEF InfoInv
    <3>2. CASE ~(/\ kind[NetOf[p]].allowed /\ a.bare
                 /\ {a.client, a.link} # {NoInfo})
      BY <1>1, <1>2, <3>2 DEF InfoInv
    <3> QED
      BY <3>1, <3>2 DEF CreatePort
  <2> QED
    BY <2>1, <2>2, <2>3 DEF PortInv, CallsInv
<1> QED
  BY <1>3, <1>4, <1>5, <1>6 DEF IInv

LEMMA UpdatePortInvariant ==
  ASSUME IInv, Len(entry) < MaxRows, NEW p \in Ports, NEW a \in Attrs,
         UpdatePort(p, a)
  PROVE  IInv'
<1> DEFINE old == attrs[p]
           moves == a.host # old.host
           unbind == IF moves \/ a.bare # old.bare \/ a.link # old.link
                     THEN {p} ELSE {}
<1>1. /\ TypeOK /\ NetsLive /\ JournalOK /\ old \in Attrs
      /\ neutron[p] = "live" /\ UNCHANGED <<neutron, kind, errors>>
      /\ PortInv(p) /\ UpdatePrecommit(p, old, a)
  BY Types DEF IInv, UpdatePort
<1>2. /\ attrs' \in [Ports -> Attrs] /\ attrs'[p] = a
      /\ \A q \in Ports : q # p => attrs'[q] = attrs[q]
      /\ bound' = bound \ unbind /\ announced' = announced \ unbind
      /\ orphans' = orphans \cup {e \in {<<p, old.host>>} : Hides(old, a)}
      /\ outdated' \subseteq outdated \cup {p} /\ outdated \subseteq outdated' \cup {p}
      /\ ~NewInfo(old, a) /\ p \notin outdated' =>
             p \notin outdated /\ (a.bare => old.bare)
  BY <1>1 DEF TypeOK, UpdatePort
<1>3. /\ binding' \in [Ports -> SUBSET Calls]
      /\ \A q \in Ports : q # p => binding'[q] = binding[q]
      /\ moves => \A c \in binding'[p] : ~c.posted
      /\ ~moves => binding'[p] = binding[p]
  <2>1. /\ Overtake(binding[p]) \subseteq Calls
        /\ \A c \in Overtake(binding[p]) : ~c.posted
    BY <1>1, Types DEF Overtake, Calls
  <2>2. binding' = IF moves THEN [binding EXCEPT ![p] = Overtake(@)] ELSE binding
    BY DEF UpdatePort
  <2> QED
    BY <1>1, <2>1, <2>2 DEF TypeOK
<1>4. TypeOK'
  <2>1. JournalOK'
    BY <1>1, Precommit
  <2>2. orphans' \subseteq Ports \X Hosts /\ outdated' \subseteq Ports
    BY <1>1, <1>2 DEF TypeOK, Attrs, Hides
  <2>3. /\ announced' \subseteq bound' /\ bound' \subseteq Ports
        /\ \A q \in bound' : neutron'[q] = "live" /\ attrs'[q].host # NoHost
    BY <1>1, <1>2 DEF TypeOK
  <2> QED
    BY <1>1, <1>2, <1>3, <2>1, <2>2, <2>3 DEF TypeOK, JournalOK
<1>5. NetsLive'
  BY <1>1 DEF NetsLive
<1>6. ASSUME NEW q \in Ports, q # p PROVE PortInv(q)'
  <2>1. /\ HostsHeld(q)' = HostsHeld(q) /\ PostsOf(q)' = PostsOf(q)
        /\ \A r \in PostsOf(q) : data'[r] = data[r]
    BY <1>1, <1>6, Precommit
  <2> QED
    BY <1>1, <1>2, <1>3, <1>6, <2>1, Quiet DEF IInv
<1>7. HeldInv(p)' /\ CallsInv(p)'
  <2>1. /\ HeldInv(p) /\ CallsInv(p)
        /\ ~a.bare => IF kind[NetOf[p]].allowed /\ LeavesHost(old, a)
                        THEN HostsHeld(p)' = HostsHeld(p) \ {old.host}
                        ELSE HostsHeld(p)' = HostsHeld(p)
        /\ a.bare => IF kind[NetOf[p]].allowed /\ NewInfo(old, a)
                       THEN HostsHeld(p)' = HostsHeld(p) \cup ({a.host} \cap Hosts)
                       ELSE HostsHeld(p)' = HostsHeld(p)
    BY <1>1, Precommit DEF PortInv
  <2>2. HeldInv(p)'
    <3> SUFFICES ASSUME NEW h \in HostsHeld(p)' PROVE Watched(p, h)' \/ <<p, h>> \in orphans'
      BY DEF HeldInv
    <3>1. CASE h \notin HostsHeld(p)
      <4>1. a.bare /\ kind[NetOf[p]].allowed /\ h = a.host
        BY <2>1, <3>1
      <4> QED
        BY <1>1, <1>2, <4>1 DEF Watched, Followed
    <3>2. CASE <<p, h>> \in orphans
      BY <1>2, <3>2
    <3>3. CASE Watched(p, h) /\ h \in HostsHeld(p)
      <4>1. /\ old.host = h /\ Followed(old) /\ kind[NetOf[p]].allowed
            /\ h # NoHost
        BY <3>3 DEF Watched, HostsHeld
      <4>2. CASE Hides(old, a)
        BY <1>2, <4>1, <4>2
      <4>3. CASE ~Hides(old, a)
        <5>1. ~moves /\ Followed(a)
          BY <2>1, <4>1, <4>3 DEF Hides, LeavesHost
        <5> QED
          BY <1>1, <1>2, <4>1, <5>1 DEF Watched
      <4> QED
        BY <4>2, <4>3
    <3> QED
      BY <2>1, <3>1, <3>2, <3>3 DEF HeldInv
  <2>3. CallsInv(p)'
    <3>1. CASE moves
      BY <1>2, <1>3, <3>1 DEF CallsInv
    <3>2. CASE ~moves
      <4>1. HostsHeld(p) \subseteq HostsHeld(p)'
        BY <2>1, <3>2 DEF LeavesHost
      <4> QED
        BY <1>1, <1>2, <1>3, <2>1, <3>2, <4>1 DEF CallsInv
    <3> QED
      BY <3>1, <3>2
  <2> QED
    BY <2>2, <2>3
<1>8. InfoInv(p)'
  <2>1. /\ InfoInv(p) /\ p \in Objects /\ "post" \in Ops
        /\ a.bare => IF kind[NetOf[p]].allowed /\ NewInfo(old, a)
                       THEN Record(p, "post", a)
                       ELSE UNCHANGED journal
    BY <1>1, Precommit DEF PortInv, Objects, Ops
  <2>2. CASE Record(p, "post", a)
    BY <1>1, <1>2, <2>2, PostIsLast DEF InfoInv
  <2>3. CASE a.bare /\ kind[NetOf[p]].allowed /\ ~NewInfo(old, a)
    <3>1. /\ PostsOf(p)' = PostsOf(p) /\ UNCHANGED journal
      BY <1>1, <2>1, <2>3, Silent
    <3>2. /\ a.client = old.client /\ a.link \in {NoInfo, old.link}
          /\ p \notin outdated' => p \notin outdated /\ old.bare
      BY <1>2, <2>3 DEF NewInfo
    <3>3. LastPost(p) => LastPost(p)'
      BY <1>2, <3>1, <3>2 DEF LastPost, journal
    <3> QED
      BY <1>1, <1>2, <2>1, <3>2, <3>3 DEF InfoInv
  <2>4. CASE ~a.bare \/ ~kind[NetOf[p]].allowed
    BY <1>1, <1>2, <2>4 DEF InfoInv
  <2> QED
    BY <2>1, <2>2, <2>3, <2>4
<1> QED
  BY <1>1, <1>4, <1>5, <1>6, <1>7, <1>8 DEF IInv, PortInv

LEMMA DeletePortInvariant ==
  ASSUME IInv, Len(entry) < MaxRows, NEW p \in Ports, DeletePort(p)
  PROVE  IInv'
<1> DEFINE a == attrs[p]
<1>1. /\ TypeOK /\ NetsLive /\ JournalOK /\ a \in Attrs /\ p \in Objects
      /\ neutron[p] = "live" /\ UNCHANGED <<kind, attrs, binding, outdated>>
      /\ PortInv(p) /\ "delete" \in Ops
  BY Types DEF IInv, DeletePort, Ops
<1>2. /\ neutron' \in [Objects -> {"absent", "live", "deleted"}]
      /\ neutron'[p] = "deleted"
      /\ \A o \in Objects : o # p => neutron'[o] = neutron[o]
      /\ bound' = bound \ {p} /\ announced' = announced \ {p}
      /\ orphans' = orphans \cup {e \in {<<p, a.host>>} :
             a.host # NoHost /\ (errors' # errors \/ ~kind[NetOf[p]].typed)}
  BY <1>1 DEF TypeOK, DeletePort
<1>3. \/ /\ Managed(NetOf[p]) /\ a.host # NoHost /\ Followed(a)
         /\ Record(p, "delete", a) /\ UNCHANGED errors
      \/ /\ UNCHANGED journal /\ a.host # NoHost
         /\ errors < MaxErrors /\ errors' = errors + 1
      \/ /\ UNCHANGED <<journal, errors>>
         /\ ~(Managed(NetOf[p]) /\ a.host # NoHost /\ Followed(a))
  BY DEF DeletePort, Handler, RecordFails
<1>4. /\ JournalOK' /\ errors' \in 0 .. MaxErrors
      /\ \A q \in Ports \ {p} : HostsHeld(q)' = HostsHeld(q) /\ PostsOf(q)' = PostsOf(q)
      /\ \A q \in Ports : \A r \in PostsOf(q) : data'[r] = data[r]
  <2>1. errors \in 0 .. MaxErrors
    BY <1>1 DEF TypeOK
  <2>2. errors' \in 0 .. MaxErrors
    BY <1>3, <2>1
  <2>3. Record(p, "delete", a) \/ UNCHANGED journal
    BY <1>3
  <2> QED
    BY <1>1, <2>2, <2>3, OtherPorts
<1>5. TypeOK'
  <2>1. orphans' \subseteq Ports \X Hosts
    BY <1>1, <1>2 DEF TypeOK, Attrs
  <2>2. /\ announced' \subseteq bound' /\ bound' \subseteq Ports
        /\ \A q \in bound' : neutron'[q] = "live" /\ attrs'[q].host # NoHost
    BY <1>1, <1>2, Types DEF TypeOK
  <2> QED
    BY <1>1, <1>2, <1>4, <2>1, <2>2 DEF TypeOK, JournalOK
<1>6. NetsLive'
  BY <1>1, <1>2, Types DEF NetsLive
<1>7. ASSUME NEW q \in Ports, q # p PROVE PortInv(q)'
  BY <1>1, <1>2, <1>4, <1>7, Quiet, Types DEF IInv
<1>8. HeldInv(p)'
  <2>1. HeldInv(p)
    BY <1>1 DEF PortInv
  <2>2. CASE Managed(NetOf[p]) /\ Record(p, "delete", a)
    <3>1. HostsHeld(p)' = HostsHeld(p) \ {a.host}
      BY <1>1, <2>2, RecordedHeld
    <3> QED
      BY <1>2, <2>1, <3>1 DEF HeldInv, Watched
  <2>3. CASE /\ UNCHANGED journal /\ a.host # NoHost
             /\ errors < MaxErrors /\ errors' = errors + 1
    <3>1. HostsHeld(p)' = HostsHeld(p) /\ errors' # errors
      BY <1>1, <2>3, Silent DEF TypeOK
    <3> QED
      BY <1>2, <2>1, <2>3, <3>1 DEF HeldInv, Watched
  <2>4. CASE /\ UNCHANGED journal
             /\ ~(Managed(NetOf[p]) /\ a.host # NoHost /\ Followed(a))
    <3>1. HostsHeld(p)' = HostsHeld(p) /\ \A h \in HostsHeld(p) : h # NoHost
      BY <1>1, <2>4, Silent DEF HostsHeld
    <3> QED
      BY <1>2, <2>1, <2>4, <3>1 DEF HeldInv, Watched, Managed
  <2> QED
    BY <1>3, <2>2, <2>3, <2>4
<1>9. CallsInv(p)' /\ InfoInv(p)'
  BY <1>2 DEF CallsInv, InfoInv
<1> QED
  BY <1>2, <1>5, <1>6, <1>7, <1>8, <1>9 DEF IInv, PortInv

-----------------------------------------------------------------------------
(* Binding.                                                                *)

LEMMA StartBindingInvariant ==
  ASSUME IInv, NEW p \in Ports, StartBinding(p)
  PROVE  IInv'
<1> DEFINE c == [port |-> attrs[p], returned |-> FALSE, posted |-> FALSE]
<1>1. /\ TypeOK /\ NetsLive /\ JournalOK /\ attrs[p] \in Attrs
      /\ neutron[p] = "live" /\ attrs[p].host # NoHost
      /\ UNCHANGED <<neutron, kind, attrs, bound, journal, ghosts, errors>>
  BY Types DEF IInv, StartBinding
<1>2. /\ c \in Calls /\ ~c.posted
      /\ binding' = [binding EXCEPT ![p] = @ \cup {c}]
  BY <1>1 DEF Calls, StartBinding
<1> HIDE DEF c
<1>3. /\ binding' \in [Ports -> SUBSET Calls]
      /\ binding'[p] = binding[p] \cup {c}
      /\ \A q \in Ports : q # p => binding'[q] = binding[q]
  BY <1>1, <1>2 DEF TypeOK
<1>4. TypeOK' /\ NetsLive'
  BY <1>1, <1>3, Silent DEF TypeOK, JournalOK, NetsLive, ghosts
<1>5. ASSUME NEW q \in Ports, q # p PROVE PortInv(q)'
  BY <1>1, <1>3, <1>5, Quiet, Silent, DataKept DEF IInv, ghosts, journal
<1>6. PortInv(p)'
  <2>1. /\ PortInv(p) /\ HostsHeld(p)' = HostsHeld(p) /\ PostsOf(p)' = PostsOf(p)
    BY <1>1, Silent DEF IInv
  <2>2. LastPost(p) => LastPost(p)'
    BY <1>1, <2>1 DEF LastPost, journal
  <2>3. InfoInv(p) => InfoInv(p)'
    BY <1>1, <2>2 DEF InfoInv, ghosts
  <2>4. HeldInv(p) /\ CallsInv(p) => HeldInv(p)' /\ CallsInv(p)'
    BY <1>1, <1>2, <1>3, <2>1 DEF HeldInv, CallsInv, Watched, ghosts
  <2> QED
    BY <1>1, <2>1, <2>3, <2>4 DEF PortInv
<1> QED
  BY <1>4, <1>5, <1>6 DEF IInv

LEMMA BindPortInvariant ==
  ASSUME IInv, Len(entry) < MaxRows, NEW p \in Ports, NEW c \in binding[p],
         BindPort(p, c)
  PROVE  IInv'
<1> DEFINE a == c.port
           posted == Len(entry') # Len(entry)
           n == [port |-> a, returned |-> TRUE, posted |-> posted]
<1>1. /\ TypeOK /\ NetsLive /\ JournalOK /\ c \in Calls
      /\ a \in Attrs /\ a.host \in Hosts
      /\ p \in Objects /\ "post" \in Ops /\ PortInv(p) /\ neutron[p] # "absent"
      /\ UNCHANGED <<neutron, kind, attrs, bound, announced>>
  BY Types DEF IInv, BindPort, Calls, Attrs, Ops, PortInv
<1>2. /\ orphans' = orphans \cup {e \in {<<p, a.host>>} : posted /\ Overtaken(p, a)}
      /\ outdated' = {q \in outdated \cup {p} :
               q = p => IF posted THEN attrs[p].link # a.link \/
                                       attrs[p].client # a.client
                                  ELSE p \in outdated}
      /\ binding' = [binding EXCEPT ![p] = (@ \ {c}) \cup {n}]
  BY DEF BindPort
<1>3. \/ Sends(p, a) /\ Record(p, "post", a) /\ posted /\ UNCHANGED errors
      \/ UNCHANGED journal /\ ~posted /\ errors' \in 0 .. MaxErrors
  <2>1. Handler(Sends(p, a), p, "post", a) /\ errors \in 0 .. MaxErrors
    BY <1>1 DEF BindPort, TypeOK
  <2>2. CASE Sends(p, a) /\ Record(p, "post", a) /\ UNCHANGED errors
    BY <1>1, <2>2, Recorded
  <2>3. CASE RecordFails \/ UNCHANGED <<journal, errors>>
    BY <2>1, <2>3 DEF RecordFails, journal
  <2> QED
    BY <2>1, <2>2, <2>3 DEF Handler
<1>4. n \in Calls
  BY <1>1 DEF Calls
<1> HIDE DEF posted
<1>5. /\ binding' \in [Ports -> SUBSET Calls]
      /\ binding'[p] = (binding[p] \ {c}) \cup {n}
      /\ \A q \in Ports : q # p => binding'[q] = binding[q]
  BY <1>1, <1>2, <1>4 DEF TypeOK
<1>6. /\ JournalOK'
      /\ \A q \in Ports \ {p} : HostsHeld(q)' = HostsHeld(q) /\ PostsOf(q)' = PostsOf(q)
      /\ \A q \in Ports : \A r \in PostsOf(q) : data'[r] = data[r]
  BY <1>1, <1>3, OtherPorts
<1>7. TypeOK'
  <2>1. orphans' \subseteq Ports \X Hosts /\ outdated' \subseteq Ports
    BY <1>1, <1>2 DEF TypeOK
  <2> QED
    BY <1>1, <1>3, <1>5, <1>6, <2>1 DEF TypeOK, JournalOK
<1>8. ASSUME NEW q \in Ports, q # p PROVE PortInv(q)'
  BY <1>1, <1>2, <1>5, <1>6, <1>8, Quiet DEF IInv
<1>9. HeldInv(p)' /\ CallsInv(p)'
  <2>1. HeldInv(p) /\ CallsInv(p)
    BY <1>1 DEF PortInv
  <2>2. CASE Sends(p, a) /\ Record(p, "post", a) /\ posted
    <3>1. HostsHeld(p)' = HostsHeld(p) \cup {a.host}
      BY <1>1, <2>2, RecordedHeld
    <3>2. <<p, a.host>> \in orphans' \/ Watched(p, a.host)'
      BY <1>1, <1>2, <2>2 DEF Overtaken, Watched, Managed, Sends
    <3> QED
      BY <1>1, <1>2, <1>5, <2>1, <3>1, <3>2 DEF HeldInv, CallsInv, Watched
  <2>3. CASE UNCHANGED journal /\ ~posted
    <3>1. HostsHeld(p)' = HostsHeld(p)
      BY <1>1, <2>3, Silent
    <3> QED
      BY <1>1, <1>2, <1>5, <2>1, <2>3, <3>1 DEF HeldInv, CallsInv, Watched
  <2> QED
    BY <1>3, <2>2, <2>3
<1>10. InfoInv(p)'
  <2>1. InfoInv(p)
    BY <1>1 DEF PortInv
  <2>2. CASE Record(p, "post", a) /\ posted
    <3>1. CASE p \in outdated'
      BY <3>1 DEF InfoInv
    <3>2. CASE attrs'[p].link = a.link /\ attrs'[p].client = a.client
      BY <1>1, <2>2, <3>2, PostIsLast DEF InfoInv
    <3> QED
      BY <1>1, <1>2, <2>2, <3>1, <3>2
  <2>3. CASE UNCHANGED journal /\ ~posted
    <3>1. /\ PostsOf(p)' = PostsOf(p) /\ data' = data /\ (p \in outdated <=> p \in outdated')
      BY <1>1, <1>2, <2>3, Silent DEF journal
    <3>2. LastPost(p) => LastPost(p)'
      BY <1>1, <3>1 DEF LastPost
    <3> QED
      BY <1>1, <2>1, <3>1, <3>2 DEF InfoInv
  <2> QED
    BY <1>3, <2>2, <2>3
<1>11. NetsLive'
  BY <1>1 DEF NetsLive
<1> QED
  BY <1>1, <1>7, <1>8, <1>9, <1>10, <1>11 DEF IInv, PortInv

LEMMA CommitBindingInvariant ==
  ASSUME IInv, Len(entry) < MaxRows, NEW p \in Ports, NEW c \in binding[p],
         CommitBinding(p, c)
  PROVE  IInv'
<1> DEFINE a == attrs[p]
<1>1. /\ TypeOK /\ NetsLive /\ JournalOK /\ c \in Calls /\ c.port.host # NoHost
      /\ a \in Attrs /\ PortInv(p) /\ neutron[p] # "absent"
      /\ UNCHANGED <<neutron, kind, attrs, orphans, outdated, errors>>
      /\ binding' = [binding EXCEPT ![p] = @ \ {c}]
  BY Types DEF IInv, CommitBinding, Calls, PortInv
<1>2. \/ /\ neutron[p] = "live" /\ a.host = c.port.host
         /\ UpdatePrecommit(p, a, a) /\ bound' = bound \cup {p}
         /\ announced' = IF c.posted THEN announced \cup {p} ELSE announced
      \/ UNCHANGED <<bound, announced, journal>>
  BY DEF CommitBinding
<1>3. /\ JournalOK'
      /\ \A q \in Ports \ {p} : HostsHeld(q)' = HostsHeld(q) /\ PostsOf(q)' = PostsOf(q)
      /\ \A q \in Ports : \A r \in PostsOf(q) : data'[r] = data[r]
      /\ HostsHeld(p)' = HostsHeld(p)
      /\ a.bare => PostsOf(p)' = PostsOf(p)
  <2>1. CASE UpdatePrecommit(p, a, a)
    <3>1. ~LeavesHost(a, a) /\ ~NewInfo(a, a)
      BY DEF LeavesHost, NewInfo
    <3> QED
      BY <1>1, <2>1, <3>1, Precommit, Silent
  <2>2. CASE UNCHANGED journal
    BY <1>1, <2>2, Silent DEF journal
  <2> QED
    BY <1>2, <2>1, <2>2
<1>4. /\ binding' \in [Ports -> SUBSET Calls] /\ binding'[p] \subseteq binding[p]
      /\ \A q \in Ports : q # p => binding'[q] = binding[q]
  BY <1>1 DEF TypeOK
<1>5. TypeOK'
  <2>1. /\ announced' \subseteq bound' /\ bound' \subseteq Ports
        /\ \A q \in bound' : neutron'[q] = "live" /\ attrs'[q].host # NoHost
    BY <1>1, <1>2 DEF TypeOK
  <2> QED
    BY <1>1, <1>3, <1>4, <2>1 DEF TypeOK, JournalOK
<1>6. ASSUME NEW q \in Ports, q # p PROVE PortInv(q)'
  <2>1. q \in announced' => q \in announced
    BY <1>2, <1>6
  <2> QED
    BY <1>1, <1>3, <1>4, <1>6, <2>1, Quiet DEF IInv
<1>7. HeldInv(p)' /\ CallsInv(p)'
  <2>1. HeldInv(p) /\ CallsInv(p) /\ HostsHeld(p)' = HostsHeld(p)
    BY <1>1, <1>3 DEF PortInv
  <2> QED
    BY <1>1, <1>2, <1>4, <2>1 DEF HeldInv, CallsInv, Watched
<1>8. InfoInv(p)'
  BY <1>1, <1>3 DEF PortInv, InfoInv, LastPost
<1> QED
  BY <1>1, <1>5, <1>6, <1>7, <1>8 DEF IInv, PortInv, NetsLive

-----------------------------------------------------------------------------

LEMMA StutterInvariant == IInv /\ UNCHANGED vars => IInv'
<1> SUFFICES ASSUME IInv, UNCHANGED vars PROVE IInv'
  OBVIOUS
<1>1. TypeOK' /\ NetsLive'
  BY DEF IInv, vars, ghosts, journal, TypeOK, EntriesOK, NetsLive
<1>2. ASSUME NEW p \in Ports PROVE PortInv(p)'
  BY Types, Silent, Quiet, <1>2 DEF IInv, vars, ghosts, journal
<1> QED
  BY <1>1, <1>2 DEF IInv

LEMMA NextInvariant == IInv /\ [Next]_vars => IInv'
<1> SUFFICES ASSUME IInv, Next PROVE IInv'
  BY StutterInvariant
<1>1. Len(entry) < MaxRows
  BY DEF Next
<1>2. ASSUME NEW n \in Nets, \/ \E k \in Kinds : CreateNetwork(n, k)
                            \/ UpdateNetwork(n) \/ DeleteNetwork(n)
      PROVE  IInv'
  BY <1>1, <1>2, NetworkInvariant
<1>3. ASSUME NEW p \in Ports, NEW a \in Attrs, CreatePort(p, a) PROVE IInv'
  BY <1>1, <1>3, CreatePortInvariant
<1>4. ASSUME NEW p \in Ports, NEW a \in Attrs, UpdatePort(p, a) PROVE IInv'
  BY <1>1, <1>4, UpdatePortInvariant
<1>5. ASSUME NEW p \in Ports, DeletePort(p) PROVE IInv'
  BY <1>1, <1>5, DeletePortInvariant
<1>6. ASSUME NEW p \in Ports, StartBinding(p) PROVE IInv'
  BY <1>6, StartBindingInvariant
<1>7. ASSUME NEW p \in Ports, NEW c \in binding[p], BindPort(p, c) PROVE IInv'
  BY <1>1, <1>7, BindPortInvariant
<1>8. ASSUME NEW p \in Ports, NEW c \in binding[p], CommitBinding(p, c) PROVE IInv'
  BY <1>1, <1>8, CommitBindingInvariant
<1> QED
  BY <1>2, <1>3, <1>4, <1>5, <1>6, <1>7, <1>8 DEF Next

LEMMA Invariance == Spec => []IInv
BY InitInvariant, NextInvariant, PTL DEF Spec

\* The variables of the driver's world keep their types, and only live ports
\* with a host are bound.
THEOREM TypeCorrect == Spec => []TypeOK
<1>1. IInv => TypeOK
  BY DEF IInv
<1> QED
  BY <1>1, Invariance, PTL

\* The rows leave a port, whatever its vnic type becomes, on no host it has
\* left, except where the driver lost sight of it.
THEOREM NoStaleHostCorrect == Spec => []NoStaleHost
<1>1. IInv => NoStaleHost
  BY DEF IInv, PortInv, HeldInv, Watched, NoStaleHost
<1> QED
  BY <1>1, Invariance, PTL

\* The controller has a bound port on the host it is bound to.
THEOREM BoundIsHeldCorrect == Spec => []BoundIsHeld
<1>1. IInv => BoundIsHeld
  BY DEF IInv, PortInv, CallsInv, BoundIsHeld, TypeOK
<1> QED
  BY <1>1, Invariance, PTL

\* The last POST of a baremetal port carries the information it has, except
\* after a change of type that brought none or an overtaken bind_port.
THEOREM InfoPostedCorrect == Spec => []InfoPosted
<1>1. IInv => InfoPosted
  BY DEF IInv, PortInv, InfoInv, LastPost, InfoPosted
<1> QED
  BY <1>1, Invariance, PTL

-----------------------------------------------------------------------------
(* The driver records what SdnJournal allows.                              *)

\* What is not recorded yet has no row.
Column == [r \in RowIds |-> IF r \in Rows THEN "pending" ELSE "absent"]

USE DEF Journal!Objects, Journal!Ops, Journal!Rows, Journal!RowIds

LEMMA RecordMaps ==
  ASSUME JournalOK, NEW o \in Objects, NEW op \in Ops, NEW d \in Attrs,
         Len(entry) < MaxRows, Record(o, op, d)
  PROVE  Journal!Record(o, op)
<1>1. /\ Rows' = Rows \cup {Len(entry) + 1} /\ Len(entry) \in Nat
      /\ entry' = Append(entry, [obj |-> o, op |-> op, at |-> 0])
  BY Recorded DEF Record
<1>2. Column' = [Column EXCEPT ![Len(entry) + 1] = "pending"]
  BY <1>1 DEF Column, RowIds
<1> QED
  BY <1>1, <1>2 DEF Journal!Record, Journal!controller, Column, RowIds, Rows

LEMMA SilenceMaps == UNCHANGED journal => Journal!NotRecorded
BY DEF journal, Journal!NotRecorded, Journal!table, Journal!controller, RowIds, Rows

LEMMA HandlerMaps ==
  ASSUME JournalOK, NEW o \in Objects, NEW op \in Ops, NEW d \in Attrs, NEW sends,
         Len(entry) < MaxRows, Handler(sends, o, op, d)
  PROVE  Journal!Record(o, op) \/ Journal!NotRecorded
BY RecordMaps, SilenceMaps DEF Handler, RecordFails, journal

LEMMA PrecommitMaps ==
  ASSUME JournalOK, NEW p \in Ports, NEW old \in Attrs, NEW new \in Attrs,
         Len(entry) < MaxRows, UpdatePrecommit(p, old, new)
  PROVE  (\E op \in Ops : Journal!Record(p, op)) \/ Journal!NotRecorded
<1>1. p \in Objects /\ {"post", "put", "delete"} \subseteq Ops
  BY DEF Objects, Ops
<1> QED
  BY <1>1, RecordMaps, SilenceMaps DEF UpdatePrecommit

LEMMA RecordingStart == Init => Journal!Init
<1> SUFFICES ASSUME Init PROVE Journal!Init
  OBVIOUS
<1>1. Rows = {}
  BY DEF Init, Rows
<1> QED
  BY <1>1 DEF Init, Journal!Init, Objects, Rows, RowIds

LEMMA Stutters ==
  ASSUME UNCHANGED neutron, Journal!NotRecorded PROVE UNCHANGED Journal!vars
BY DEF Journal!NotRecorded, Journal!vars, Journal!neutronVars

LEMMA RecordingNext ==
  IInv /\ [Next]_vars => [Journal!ApiStep]_(Journal!vars)
<1> SUFFICES ASSUME IInv, [Next]_vars
             PROVE  Journal!ApiStep \/ UNCHANGED Journal!vars
  OBVIOUS
<1>1. TypeOK /\ JournalOK /\ NoAttrs \in Attrs /\ {"post", "put", "delete"} \subseteq Ops
  BY Types DEF IInv, NoAttrs, Attrs, Ops
<1>2. CASE UNCHANGED vars
  BY <1>2, SilenceMaps, Stutters DEF vars
<1> SUFFICES ASSUME Next PROVE Journal!ApiStep \/ UNCHANGED Journal!vars
  BY <1>2
<1>3. Len(entry) < MaxRows
  BY DEF Next
<1>4. ASSUME NEW n \in Nets, NEW k \in Kinds, CreateNetwork(n, k)
      PROVE  Journal!ApiStep
  <2>1. Journal!Record(n, "post") \/ Journal!NotRecorded
    BY <1>1, <1>3, <1>4, HandlerMaps, Types DEF CreateNetwork
  <2>2. Journal!CreateNetwork(n)
    BY <1>4, <2>1 DEF CreateNetwork, Journal!CreateNetwork
  <2> QED
    BY <1>3, <2>2 DEF Journal!ApiStep
<1>5. ASSUME NEW n \in Nets, UpdateNetwork(n)
      PROVE  Journal!ApiStep \/ UNCHANGED Journal!vars
  <2>1. Journal!Record(n, "put") \/ Journal!NotRecorded
    BY <1>1, <1>3, <1>5, HandlerMaps, Types DEF UpdateNetwork
  <2>2. Journal!Record(n, "put") => Journal!UpdateNetwork(n)
    BY <1>5 DEF UpdateNetwork, Journal!UpdateNetwork
  <2> QED
    BY <1>3, <1>5, <2>1, <2>2, Stutters DEF Journal!ApiStep, UpdateNetwork
<1>6. ASSUME NEW n \in Nets, DeleteNetwork(n) PROVE Journal!ApiStep
  <2>1. Journal!Record(n, "delete") \/ Journal!NotRecorded
    BY <1>1, <1>3, <1>6, HandlerMaps, Types DEF DeleteNetwork
  <2>2. Journal!DeleteNetwork(n)
    BY <1>6, <2>1 DEF DeleteNetwork, Journal!DeleteNetwork, Journal!LivePorts
  <2> QED
    BY <1>3, <2>2 DEF Journal!ApiStep
<1>7. ASSUME NEW p \in Ports, NEW a \in Attrs, CreatePort(p, a) PROVE Journal!ApiStep
  <2>1. Journal!Record(p, "post") \/ Journal!NotRecorded
    BY <1>1, <1>3, <1>7, RecordMaps, SilenceMaps, Types DEF CreatePort
  <2>2. Journal!CreatePort(p)
    BY <1>7, <2>1 DEF CreatePort, Journal!CreatePort
  <2> QED
    BY <1>3, <2>2 DEF Journal!ApiStep
<1>8. ASSUME NEW p \in Ports, NEW old \in Attrs, NEW new \in Attrs,
             UpdatePrecommit(p, old, new), neutron[p] = "live", UNCHANGED neutron
      PROVE  Journal!ApiStep \/ UNCHANGED Journal!vars
  <2>1. CASE Journal!NotRecorded
    BY <1>8, <2>1, Stutters
  <2>2. CASE \E op \in Ops : Journal!Record(p, op)
    BY <1>3, <1>8, <2>2 DEF Journal!ApiStep, Journal!UpdatePort, Ops
  <2> QED
    BY <1>1, <1>3, <1>8, <2>1, <2>2, PrecommitMaps
<1>9. ASSUME NEW p \in Ports, NEW a \in Attrs, UpdatePort(p, a)
      PROVE  Journal!ApiStep \/ UNCHANGED Journal!vars
  BY <1>1, <1>8, <1>9, Types DEF UpdatePort
<1>10. ASSUME NEW p \in Ports, DeletePort(p) PROVE Journal!ApiStep
  <2>1. Journal!Record(p, "delete") \/ Journal!NotRecorded
    BY <1>1, <1>3, <1>10, HandlerMaps, Types DEF DeletePort
  <2>2. Journal!DeletePort(p)
    BY <1>10, <2>1 DEF DeletePort, Journal!DeletePort
  <2> QED
    BY <1>3, <2>2 DEF Journal!ApiStep
<1>11. ASSUME NEW p \in Ports, StartBinding(p) PROVE UNCHANGED Journal!vars
  BY <1>11, SilenceMaps, Stutters DEF StartBinding
<1>12. ASSUME NEW p \in Ports, NEW c \in binding[p], BindPort(p, c)
       PROVE  Journal!ApiStep \/ UNCHANGED Journal!vars
  <2>1. /\ neutron[p] # "absent" /\ UNCHANGED neutron /\ p \in Objects
        /\ c.port \in Attrs /\ Handler(Sends(p, c.port), p, "post", c.port)
    BY <1>1, <1>12, Types DEF IInv, PortInv, BindPort, Calls
  <2>2. Journal!Record(p, "post") \/ Journal!NotRecorded
    BY <1>1, <1>3, <2>1, HandlerMaps
  <2>3. Journal!Record(p, "post") => Journal!BindPort(p)
    BY <2>1 DEF Journal!BindPort
  <2> QED
    BY <1>3, <2>1, <2>2, <2>3, Stutters DEF Journal!ApiStep
<1>13. ASSUME NEW p \in Ports, NEW c \in binding[p], CommitBinding(p, c)
       PROVE  Journal!ApiStep \/ UNCHANGED Journal!vars
  <2>1. CASE UNCHANGED journal
    BY <1>13, <2>1, SilenceMaps, Stutters DEF CommitBinding
  <2>2. CASE UpdatePrecommit(p, attrs[p], attrs[p]) /\ neutron[p] = "live"
    BY <1>1, <1>8, <1>13, <2>2, Types DEF CommitBinding
  <2> QED
    BY <1>13, <2>1, <2>2 DEF CommitBinding
<1> QED
  BY <1>4, <1>5, <1>6, <1>7, <1>9, <1>10, <1>11, <1>12, <1>13 DEF Next

\* The driver implements the recording that SdnJournal leaves open.
THEOREM RecordingCorrect == Spec => RecordingSpec
BY RecordingStart, RecordingNext, InitInvariant, NextInvariant, PTL
DEF Spec, RecordingSpec

=============================================================================
