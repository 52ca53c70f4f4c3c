--------------------------- MODULE SdnMechDriver ---------------------------
(***************************************************************************)
(* Which operations the SDN mechanism driver records in the journal        *)
(* (sdn_mech_driver.py), as networks and ports come, change and go.        *)
(*                                                                         *)
(* Neutron calls the precommit handlers inside the transaction that        *)
(* creates, updates or deletes the object.  bind_port is called outside of *)
(* it, with the port as it was read before, and ML2 commits its result in  *)
(* a later transaction: in between, the port may be updated, unbound or    *)
(* deleted.  The driver keeps no state, so what the controller ends up     *)
(* with depends on the differences it sees between two versions of a port. *)
(* The vnic type is one of the attributes an update may change: whether a  *)
(* port is baremetal is read from its new version.                         *)
(***************************************************************************)
EXTENDS JournalDeps, FiniteSets

CONSTANTS Hosts,     \* compute hosts
          NoHost,    \* host_id is empty
          Infos,     \* local link informations and DHCP client ids
          NoInfo,    \* there is none
          Versions,  \* the attributes ports are given
          MaxCalls,  \* bound on the calls of bind_port for a port at once
          MaxErrors  \* bound on how many recordings fail

ASSUME AbsentAssumption == NoHost \notin Hosts /\ NoInfo \notin Infos
ASSUME BoundsAssumption == {MaxCalls, MaxErrors} \subseteq Nat

VARIABLES
    neutron,    \* what Neutron knows of each network and port
    kind,       \* the segments of each network
    attrs,      \* the attributes of each port
    bound,      \* ports with a committed binding
    binding,    \* calls of bind_port under way
    data,       \* what the row of each entry says of its port
    \* history
    announced,  \* bound ports whose POST nothing has undone since
    orphans,    \* ports and hosts the driver has lost sight of
    outdated,   \* ports whose last POST need not have their information
    errors      \* how many recordings failed

journal == <<entry, data>>
ghosts  == <<announced, orphans, outdated>>
vars == <<neutron, kind, attrs, bound, binding, journal, ghosts, errors>>

\* "allowed": all its physical networks are; "typed": a segment is VLAN or
\* flat; "segmented": it has a segmentation id.
Kinds == [allowed : BOOLEAN, typed : BOOLEAN, segmented : BOOLEAN]

\* "bare": the vnic type is baremetal; "served": the owner is compute or DHCP.
Attrs == [bare   : BOOLEAN,
          host   : Hosts \cup {NoHost},
          served : BOOLEAN,
          link   : Infos \cup {NoInfo},
          client : Infos \cup {NoInfo}]

ASSUME VersionsAssumption == Versions \subseteq Attrs

NoAttrs == [bare |-> FALSE, host |-> NoHost, served |-> FALSE,
            link |-> NoInfo, client |-> NoInfo]

\* A call of bind_port: the port it was given, whether it has returned, and
\* whether the POST it recorded still stands.
Calls == [port     : {a \in Attrs : a.host # NoHost},
          returned : BOOLEAN,
          posted   : BOOLEAN]

TypeOK == /\ EntriesOK
          /\ data \in Seq(Attrs) /\ Len(data) = Len(entry)
          /\ neutron \in [Objects -> {"absent", "live", "deleted"}]
          /\ kind \in [Nets -> Kinds]
          /\ attrs \in [Ports -> Attrs]
          /\ binding \in [Ports -> SUBSET Calls]
          /\ announced \subseteq bound /\ bound \subseteq Ports
          /\ \A p \in bound : neutron[p] = "live" /\ attrs[p].host # NoHost
          /\ orphans \subseteq Ports \X Hosts
          /\ outdated \subseteq Ports
          /\ errors \in 0 .. MaxErrors

Init == /\ neutron = [o \in Objects |-> "absent"]
        /\ kind = [n \in Nets |-> [allowed |-> FALSE, typed |-> FALSE,
                                   segmented |-> FALSE]]
        /\ attrs = [p \in Ports |-> NoAttrs]
        /\ binding = [p \in Ports |-> {}]
        /\ entry = <<>> /\ data = <<>>
        /\ bound = {} /\ announced = {} /\ orphans = {} /\ outdated = {}
        /\ errors = 0

-----------------------------------------------------------------------------
(* Recording.                                                              *)

\* Seconds are left out: created_at is that of the first one.
Record(o, op, d) == /\ entry' = Append(entry, [obj |-> o, op |-> op, at |-> 0])
                    /\ data' = Append(data, d)

\* error_handler: the exception is logged, Neutron's transaction goes on.
RecordFails == /\ errors < MaxErrors
               /\ errors' = errors + 1
               /\ UNCHANGED journal

\* A handler that records a row when "sends" holds, under error_handler.
Handler(sends, o, op, d) ==
    \/ sends /\ Record(o, op, d) /\ UNCHANGED errors
    \/ sends /\ RecordFails
    \/ ~sends /\ UNCHANGED <<journal, errors>>

\* context_validator and _is_allowed_physical_networks.
Managed(n) == kind[n].typed /\ kind[n].allowed

CreateNetwork(n, k) ==
    /\ neutron[n] = "absent"
    /\ neutron' = [neutron EXCEPT ![n] = "live"]
    /\ kind' = [kind EXCEPT ![n] = k]
    /\ Handler(k.typed /\ k.allowed /\ k.segmented, n, "post", NoAttrs)
    /\ UNCHANGED <<attrs, bound, binding, ghosts>>

UpdateNetwork(n) ==
    /\ neutron[n] = "live"
    /\ Handler(Managed(n), n, "put", NoAttrs)
    /\ UNCHANGED <<neutron, kind, attrs, bound, binding, ghosts>>

\* Mutant of DeleteNetwork: the handler of an update, copied.
DeleteNetworkAsUpdate(n) ==
    /\ neutron[n] = "live"
    /\ \A p \in Ports : NetOf[p] = n => neutron[p] # "live"
    /\ neutron' = [neutron EXCEPT ![n] = "deleted"]
    /\ Handler(Managed(n), n, "put", NoAttrs)
    /\ UNCHANGED <<kind, attrs, bound, binding, ghosts>>

DeleteNetwork(n) ==
    /\ neutron[n] = "live"
    /\ \A p \in Ports : NetOf[p] = n => neutron[p] # "live"
    /\ neutron' = [neutron EXCEPT ![n] = "deleted"]
    /\ Handler(Managed(n), n, "delete", NoAttrs)
    /\ UNCHANGED <<kind, attrs, bound, binding, ghosts>>

-----------------------------------------------------------------------------
(* Ports.  create_port_precommit and update_port_precommit have no         *)
(* error_handler: if they raise, Neutron rolls the transaction back.       *)

CreatePort(p, a) ==
    /\ neutron[p] = "absent"
    /\ neutron[NetOf[p]] = "live"
    /\ neutron' = [neutron EXCEPT ![p] = "live"]
    /\ attrs' = [attrs EXCEPT ![p] = a]
    /\ LET sends == /\ kind[NetOf[p]].allowed
                    /\ a.bare
                    /\ {a.client, a.link} # {NoInfo}
       IN  \/ sends /\ Record(p, "post", a)
           \/ ~sends /\ UNCHANGED journal
    /\ UNCHANGED <<kind, bound, binding, ghosts, errors>>

\* Mutant of NewInfo: the Ethernet case alone.
NewLink(old, new) == new.link # old.link /\ new.link # NoInfo

\* The Ethernet case, and the InfiniBand case.
NewInfo(old, new) == \/ new.link # old.link /\ new.link # NoInfo
                     \/ new.client # old.client

\* Mutant of LeavesHost: the hosts are not compared.
LeavesAlways(old, new) == old.host # NoHost /\ old.served

\* Mutant of LeavesHost: only the instance that is deleted is looked for.
LeavesForGood(old, new) == /\ old.host # NoHost
                           /\ new.host = NoHost
                           /\ old.served

\* The instance is deleted, or migrated to another host.
LeavesHost(old, new) == /\ old.host # NoHost
                        /\ new.host # old.host
                        /\ old.served

\* update_port_precommit: the vnic type is that of the new version.
UpdatePrecommit(p, old, new) ==
    LET managed == kind[NetOf[p]].allowed
    IN  \/ /\ managed /\ new.bare /\ NewInfo(old, new)
           /\ Record(p, "post", new)
        \/ /\ managed /\ ~new.bare /\ LeavesHost(old, new)
           /\ Record(p, "delete", old)
        \/ /\ managed /\ ~new.bare /\ ~LeavesHost(old, new)
           /\ Record(p, "put", new)
        \/ /\ managed => new.bare /\ ~NewInfo(old, new)
           /\ UNCHANGED journal

\* The deletion of a port with these attributes, on a host, is recorded.
Followed(a) == a.bare \/ a.served

\* An update after which nothing the driver sees will delete the port from the
\* host it had: the port leaves the host as a baremetal one, or as one that
\* nobody serves, or stays there as neither.
Hides(old, new) == /\ old.host # NoHost /\ Followed(old)
                   /\ IF new.host # old.host THEN new.bare \/ ~old.served
                                             ELSE ~Followed(new)

\* A POST that was recorded before the port left its host no longer counts.
Overtake(calls) == {[c EXCEPT !.posted = FALSE] : c \in calls}

\* ML2 drops the binding with the host, the vnic type or the profile.
UpdatePort(p, a) ==
    LET old    == attrs[p]
        moves  == a.host # old.host
        unbind == IF moves \/ a.bare # old.bare \/ a.link # old.link
                  THEN {p} ELSE {}
        \* what it became baremetal with need never have been posted
        unseen == IF a.bare /\ ~old.bare THEN {p} ELSE {}
    IN  /\ neutron[p] = "live"
        /\ attrs' = [attrs EXCEPT ![p] = a]
        /\ UpdatePrecommit(p, old, a)
        /\ bound' = bound \ unbind
        /\ announced' = announced \ unbind
        /\ binding' = IF moves THEN [binding EXCEPT ![p] = Overtake(@)]
                               ELSE binding
        /\ orphans' = orphans \cup {e \in {<<p, old.host>>} : Hides(old, a)}
        /\ outdated' = IF NewInfo(old, a) THEN outdated \ {p}
                                         ELSE outdated \cup unseen
        /\ UNCHANGED <<neutron, kind, errors>>

\* A network of no type the driver supports hides its ports' deletions.
DeletePort(p) ==
    LET a == attrs[p]
        sends == Managed(NetOf[p]) /\ a.host # NoHost /\ Followed(a)
    IN  /\ neutron[p] = "live"
        /\ neutron' = [neutron EXCEPT ![p] = "deleted"]
        /\ Handler(sends, p, "delete", a)
        /\ bound' = bound \ {p}
        /\ announced' = announced \ {p}
        /\ orphans' = orphans \cup {e \in {<<p, a.host>>} :
               a.host # NoHost /\ (errors' # errors \/ ~kind[NetOf[p]].typed)}
        /\ UNCHANGED <<kind, attrs, binding, outdated>>

-----------------------------------------------------------------------------
(* Binding.                                                                *)

\* ML2 reads the port and goes through its mechanism drivers.
StartBinding(p) ==
    /\ neutron[p] = "live"
    /\ attrs[p].host # NoHost
    /\ p \notin bound
    /\ Cardinality(binding[p]) < MaxCalls
    /\ binding' = [binding EXCEPT ![p] = @ \cup
           {[port |-> attrs[p], returned |-> FALSE, posted |-> FALSE]}]
    /\ UNCHANGED <<neutron, kind, attrs, bound, journal, ghosts, errors>>

\* _is_send_bind_port, for a managed network.
Sends(p, a) == Managed(NetOf[p]) /\ a.served

\* The port is no longer where the call was told it is, or not to be deleted.
Overtaken(p, a) == \/ neutron[p] # "live"
                   \/ attrs[p].host # a.host
                   \/ ~Followed(attrs[p])

BindPort(p, c) ==
    LET a == c.port
        posted == Len(entry') # Len(entry)
    IN  /\ c \in binding[p] /\ ~c.returned
        /\ Handler(Sends(p, a), p, "post", a)
        /\ binding' = [binding EXCEPT ![p] = (@ \ {c}) \cup
               {[port |-> a, returned |-> TRUE, posted |-> posted]}]
        /\ orphans' = orphans \cup {e \in {<<p, a.host>>} :
                                        posted /\ Overtaken(p, a)}
        /\ outdated' = {q \in outdated \cup {p} :
               q = p => IF posted THEN attrs[p].link # a.link \/
                                       attrs[p].client # a.client
                                  ELSE p \in outdated}
        /\ UNCHANGED <<neutron, kind, attrs, bound, announced>>

\* Mutant of CommitBinding: the port is not looked at again.
CommitUnchecked(p, c) ==
    /\ c \in binding[p] /\ c.returned
    /\ binding' = [binding EXCEPT ![p] = @ \ {c}]
    /\ UpdatePrecommit(p, attrs[p], attrs[p])
    /\ bound' = bound \cup {p}
    /\ announced' = IF c.posted THEN announced \cup {p} ELSE announced
    /\ UNCHANGED <<neutron, kind, attrs, orphans, outdated, errors>>

\* ML2 commits the binding if the port still has the host, vnic type and profile
\* it was made for, and tells the drivers in the same transaction.
CommitBinding(p, c) ==
    /\ c \in binding[p] /\ c.returned
    /\ binding' = [binding EXCEPT ![p] = @ \ {c}]
    /\ \/ /\ neutron[p] = "live" /\ p \notin bound
          /\ attrs[p].host = c.port.host
          /\ attrs[p].bare = c.port.bare /\ attrs[p].link = c.port.link
          /\ UpdatePrecommit(p, attrs[p], attrs[p])
          /\ bound' = bound \cup {p}
          /\ announced' = IF c.posted THEN announced \cup {p} ELSE announced
       \/ UNCHANGED <<bound, announced, journal>>
    /\ UNCHANGED <<neutron, kind, attrs, orphans, outdated, errors>>

\* The model stops with MaxRows rows.
Next == /\ Len(entry) < MaxRows
        /\ \/ \E n \in Nets : \/ \E k \in Kinds : CreateNetwork(n, k)
                              \/ UpdateNetwork(n)
                              \/ DeleteNetwork(n)
           \/ \E p \in Ports : \/ \E a \in Versions : \/ CreatePort(p, a)
                                                      \/ UpdatePort(p, a)
                               \/ DeletePort(p)
                               \/ StartBinding(p)
                               \/ \E c \in binding[p] : \/ BindPort(p, c)
                                                        \/ CommitBinding(p, c)

Spec == Init /\ [][Next]_vars

-----------------------------------------------------------------------------
(* Properties.                                                             *)

PostsOf(p) == {r \in Rows : entry[r].obj = p /\ entry[r].op = "post"}
DeletesOf(p) == {r \in Rows : entry[r].obj = p /\ entry[r].op = "delete"}

\* The hosts the controller has a port on once it has followed the journal.
HostsHeld(p) == {h \in Hosts : \E r \in PostsOf(p) :
                    /\ data[r].host = h
                    /\ \A q \in DeletesOf(p) : q > r => data[q].host # h}

\* However creations, updates, unbindings, migrations, changes of vnic type,
\* deletions and bind_port follow one another, the rows leave a port on no host
\* but its own, except where the driver lost sight of it in one of these ways:
\* a bind_port that was overtaken recorded its POST; the port left the host as
\* a baremetal port or as a baremetal one that nobody serves, or became neither
\* baremetal nor served while on it; error_handler hid the failed recording of
\* its deletion; or its network is of no type the driver is told about.
NoStaleHost ==
    \A p \in Ports : \A h \in HostsHeld(p) :
        \/ neutron[p] = "live" /\ attrs[p].host = h
        \/ <<p, h>> \in orphans

\* The controller has a bound port on the host it is bound to, if bind_port
\* recorded it and the port did not leave its host while ML2 committed the
\* result: no DELETE that a later update records undoes it.
BoundIsHeld == \A p \in announced : attrs[p].host \in HostsHeld(p)

\* The last POST of a baremetal port carries the link information and the
\* client id it has, unless it came from a bind_port that was overtaken, or an
\* update made the port baremetal and brought no information that is new: any
\* other change is reported, whichever of the two it is and whoever made it.
InfoPosted ==
    \A p \in Ports \ outdated :
        /\ neutron[p] = "live"
        /\ attrs[p].bare
        /\ kind[NetOf[p]].allowed
        /\ {attrs[p].link, attrs[p].client} # {NoInfo}
        => \E r \in PostsOf(p) :
               /\ \A q \in PostsOf(p) : q <= r
               /\ attrs[p].link \in {NoInfo, data[r].link}
               /\ attrs[p].client \in {NoInfo, data[r].client}

\* SdnJournal leaves open which operations are recorded.  What the driver
\* records is among what it allows.
Journal == INSTANCE SdnJournal WITH
    Nets <- Nets, Ports <- Ports, NetOf <- NetOf, MaxRows <- MaxRows,
    entry <- entry,
    Workers <- {}, RetryLimit <- -1, ProcessingTimeout <- 0, Retention <- -1,
    Faults <- {}, MaxFaults <- 0, Timely <- FALSE, DistinctSeconds <- FALSE,
    neutron <- neutron, now <- 0,
    state <- [r \in RowIds |-> IF r \in Rows THEN "pending" ELSE "absent"],
    age <- [r \in RowIds |-> 0], hasJob <- [r \in RowIds |-> FALSE],
    retries <- [r \in RowIds |-> 0], worker <- [w \in {} |-> 0],
    applied <- [o \in Objects |-> 0], accepted <- {}, finished <- {},
    dropped <- {}, faults <- 0

\* The driver is one of the ways Neutron's calls may record that SdnJournal
\* takes into account, so what is shown there holds with this driver.
RecordingSpec == Journal!Init /\ [][Journal!ApiStep]_(Journal!vars)

=============================================================================
