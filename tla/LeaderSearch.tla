---------------------------- MODULE LeaderSearch ----------------------------
(***************************************************************************)
(* What Connector.Connect promises its caller: it comes back at most once,  *)
(* with a connection to a server that has believed to be the leader since   *)
(* the call began, or with an error, and with an error only when the        *)
(* context is done or the number of retries is limited.                     *)
(***************************************************************************)
CONSTANTS Server       \* the servers of the cluster

VARIABLES limited,     \* whether the number of retries is limited
          led,         \* who has believed to be the leader during the call
          done,        \* the context of the caller is done
          answer       \* what Connect has returned: {} for nothing yet

vars == <<limited, led, done, answer>>

Init == limited \in BOOLEAN /\ led \in SUBSET Server /\ done = FALSE /\ answer = {}

\* The cluster and the caller go on meanwhile.
Lead == led' \in SUBSET Server /\ led \subseteq led' /\ UNCHANGED <<limited, done, answer>>
Expire == done' = TRUE /\ UNCHANGED <<limited, led, answer>>

Find == /\ answer = {}
        /\ \E s \in led : answer' = {s}
        /\ UNCHANGED <<limited, led, done>>

GiveUp == /\ answer = {} /\ (done \/ limited)
          /\ answer' = {"failed"}
          /\ UNCHANGED <<limited, led, done>>

Next == Lead \/ Expire \/ Find \/ GiveUp

Spec == Init /\ [][Next]_vars
=============================================================================
