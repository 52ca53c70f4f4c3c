---------------------------- MODULE JournalDeps ----------------------------
(***************************************************************************)
(* The rows of the SDN journal and the rows each of them has to wait for.  *)
(*                                                                         *)
(* A row records one Neutron operation (POST, PUT or DELETE) on a network  *)
(* or a port.  Rows are numbered in the order they are inserted, which is  *)
(* their position in "entry".  What is fixed when the row is inserted      *)
(* (object, operation, created_at) is kept apart from what the journal     *)
(* thread rewrites later, so that the dependency sets below, which are the *)
(* queries of journal/dependency_validations.py without their filter on    *)
(* the state, are functions of the insertion history alone.                *)
(***************************************************************************)
EXTENDS Integers, Sequences

CONSTANTS Nets,     \* networks
          Ports,    \* ports
          NetOf,    \* the network of each port: network_id in the row's data
          MaxRows   \* bound on the number of rows ever recorded

ASSUME ObjectsAssumption == /\ Nets \cap Ports = {}
                            /\ NetOf \in [Ports -> Nets]
ASSUME MaxRowsAssumption == MaxRows \in Nat

VARIABLE entry      \* the recorded operations, in the order of insertion

Objects == Nets \cup Ports
Ops     == {"post", "put", "delete"}
RowIds  == 1 .. MaxRows

\* "at" is created_at, a timestamp with a resolution of one second.
Entry == [obj : Objects, op : Ops, at : 0 .. MaxRows]

Rows == 1 .. Len(entry)

\* Mutant of OlderOps: the rows created later.
OlderOpsReversed(r) == {q \in Rows : /\ entry[q].obj = entry[r].obj
                                     /\ entry[q].at > entry[r].at
                                     /\ q # r}

\* check_for_older_ops: rows of the same object created in an earlier second.
OlderOps(r) == {q \in Rows : /\ entry[q].obj = entry[r].obj
                             /\ entry[q].at < entry[r].at
                             /\ q # r}

\* check_for_pending_or_processing_ops: rows of one object, by operation.
OpsOn(o, ops) == {q \in Rows : entry[q].obj = o /\ entry[q].op \in ops}

\* check_for_pending_delete_ops_with_parent: DELETEs of ports of network n.
PortDeletes(n) == {q \in Rows : /\ entry[q].obj \in Ports
                                /\ NetOf[entry[q].obj] = n
                                /\ entry[q].op = "delete"}

\* The rows the first query of the validator of r looks for.
FirstDeps ==
    [r \in Rows |->
        LET o  == entry[r].obj
            op == entry[r].op
        IN  CASE o \in Nets /\ op = "delete"           -> OpsOn(o, {"post", "put"})
              [] o \in Nets /\ op = "put"              -> OlderOps(r)
              [] o \in Ports /\ op \in {"post", "put"} -> OpsOn(NetOf[o], {"post"})
              [] OTHER                                 -> {}]

\* The rows its second query looks for.
SecondDeps ==
    [r \in Rows |->
        LET o == entry[r].obj
        IN  CASE o \in Nets /\ entry[r].op = "delete" -> PortDeletes(o)
              [] o \in Ports                          -> OlderOps(r)
              [] OTHER                                -> {}]

Deps == [r \in Rows |-> FirstDeps[r] \cup SecondDeps[r]]

RowsOf(o) == {r \in Rows : entry[r].obj = o}

EntriesOK == entry \in Seq(Entry) /\ Len(entry) <= MaxRows

============================================================================
