---------------------------- MODULE MCSdnJournal ----------------------------
(* Instances of the journal for TLC. *)
EXTENDS SdnJournal, TLC

CONSTANTS n1, p1, w1, w2

\* Every port is on the one network.
OneNetwork == [p \in Ports |-> n1]

\* No limit on the attempts, and completed rows kept for ever.
NoLimit   == -1
KeepRows  == -1

WorkerSymmetry == Permutations(Workers)

AllFaults == FaultKinds

\* The failures after which a row is sent again or left to the maintenance
\* thread, without a job ending in an error or a poll failing.
SendFaults == {"login", "rejected", "reply_lost", "no_job", "crash"}

\* Once the last row is recorded, what Neutron knows no longer changes and
\* bears on nothing that follows.
JournalView == <<IF Len(entry) < MaxRows THEN neutron ELSE <<>>, entry, now,
                 table, worker, controller, dropped, faults>>

=============================================================================
