----------------------------- MODULE EswitchCall -----------------------------
(***************************************************************************)
(* What a call of the daemon promises its caller, without sockets,         *)
(* queues, timeouts or retries: it ends with an answer that the daemon     *)
(* gave to this very call, or with a timeout, of which nothing follows.    *)
(* The daemon may serve a call more than once, and after it has ended, but *)
(* no more often than it can have been sent.                               *)
(***************************************************************************)
EXTENDS Integers

CONSTANTS Calls, Answers, Limit

VARIABLES outcome,   \* "none", "open", an answer or "timeout"
          given,     \* the answers the daemon gave
          times      \* how often it served the call

callVars == <<outcome, given, times>>

CallInit == /\ outcome = [c \in Calls |-> "none"]
            /\ given = [c \in Calls |-> {}]
            /\ times = [c \in Calls |-> 0]

Open(c) == /\ outcome[c] = "none"
           /\ outcome' = [outcome EXCEPT ![c] = "open"]
           /\ UNCHANGED <<given, times>>

Serve(c, a) == /\ outcome[c] # "none"
               /\ times[c] < Limit
               /\ times' = [times EXCEPT ![c] = @ + 1]
               /\ given' = [given EXCEPT ![c] = @ \cup {a}]
               /\ UNCHANGED outcome

End(c, o) == /\ outcome[c] = "open"
             /\ o \in given[c] \cup {"timeout"}
             /\ outcome' = [outcome EXCEPT ![c] = o]
             /\ UNCHANGED <<given, times>>

CallNext == \E c \in Calls : \/ Open(c)
                             \/ \E a \in Answers : Serve(c, a)
                             \/ \E o \in Answers \cup {"timeout"} : End(c, o)

CallSpec == CallInit /\ [][CallNext]_callVars

=============================================================================
