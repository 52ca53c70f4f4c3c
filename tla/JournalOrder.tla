---------------------------- MODULE JournalOrder ----------------------------
(***************************************************************************)
(* What the journal promises to the SDN controller, without threads, row   *)
(* states, retries or failures: operations are recorded one after another, *)
(* and the controller gets an operation only when every operation it       *)
(* depends on was either taken by the controller before it or given up.    *)
(* An operation may reach the controller any number of times.  The order   *)
(* is meaningful only if it is closed under recording: a new row never     *)
(* becomes a dependency of one the controller already has.                 *)
(***************************************************************************)
EXTENDS JournalDeps

VARIABLES accepted,   \* rows the controller took, or refused for good
          dropped     \* rows given up after too many attempts

orderVars == <<entry, accepted, dropped>>

OrderInit == entry = <<>> /\ accepted = {} /\ dropped = {}

Record == /\ UNCHANGED <<accepted, dropped>>
          /\ Len(entry') = Len(entry) + 1
          /\ Len(entry') <= MaxRows
          /\ \E e \in Entry : entry' = Append(entry, e)
          /\ \A r \in accepted : Len(entry') \notin Deps'[r]

Accept == \E r \in Rows \ accepted :
              /\ accepted' = accepted \cup {r}
              /\ Deps[r] \subseteq accepted \cup dropped
              /\ UNCHANGED <<entry, dropped>>

GiveUp == \E r \in Rows \ dropped : /\ dropped' = dropped \cup {r}
                                    /\ UNCHANGED <<entry, accepted>>

OrderNext == Record \/ Accept \/ GiveUp

OrderSpec == OrderInit /\ [][OrderNext]_orderVars

=============================================================================
