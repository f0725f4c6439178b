----------------------------- MODULE ForeignBus -----------------------------
(***************************************************************************)
(* The seam (ForeignBus.h): what any driver of the foreign bus promises the *)
(* gateway, and what the gateway promises the driver.                      *)
(*                                                                         *)
(* A request is started under an id of its own, finishes once, as Done or   *)
(* as Timeout, and is forgotten when its outcome is fetched.  A write that  *)
(* is Done is in the device; one that timed out may be there as well, its   *)
(* answer lost.  The requester keeps to fetching live ids and to one write  *)
(* in flight per point.                                                    *)
(***************************************************************************)
EXTENDS RegisterMap

CONSTANT Ids  \* transaction ids, never 0

ASSUME IdsAssumption == Ids \subseteq Nat \ {0}

VARIABLES
  requests,  \* the requests started and not fetched yet, by id
  points     \* what the devices hold

seamVars == <<requests, points>>

NoId == 0

Requests ==
  [unit : Slaves, table : Tables, isWrite : BOOLEAN, value : RegisterValues,
   outcome : Outcomes]

SeamTypeOK ==
  /\ DOMAIN requests \subseteq Ids
  /\ \A id \in DOMAIN requests : requests[id] \in Requests
  /\ points \in [Slaves -> [Tables -> RegisterValues]]

SeamInit ==
  /\ requests = [id \in {} |-> {}]
  /\ points \in [Slaves -> [Tables -> RegisterValues]]

PendingIds == {id \in DOMAIN requests : requests[id].outcome = "Pending"}
FinishedIds == DOMAIN requests \ PendingIds

----------------------------------------------------------------------------
(* StartRead, StartWrite, CheckTransaction.                                *)

Asking(slave, table, isWrite, value) ==
  [unit |-> slave, table |-> table, isWrite |-> isWrite, value |-> value,
   outcome |-> "Pending"]

\* What CheckTransaction answers for a live id.
OutcomeOf(id) == requests[id].outcome

\* The requests left once `id` is fetched; NoId fetches nothing.
Fetched(id) == [other \in DOMAIN requests \ {id} |-> requests[other]]

\* A point with a write of its own in flight among `live`.
BeingWritten(live, slave, table) ==
  \E id \in DOMAIN live :
    live[id].isWrite /\ live[id].unit = slave /\ live[id].table = table

\* A driver may refuse to start a request: it then answers NoId.
MayStart(live, id, request) ==
  /\ id \in Ids \ DOMAIN live
  /\ request.outcome = "Pending"
  /\ request.isWrite => ~BeingWritten(live, request.unit, request.table)

Asked(live, id, request) ==
  [other \in DOMAIN live \cup {id} |-> IF other = id THEN request ELSE live[other]]

Fetch(fetched) ==
  /\ fetched \in FinishedIds \cup {NoId}
  /\ requests' = Fetched(fetched)
  /\ UNCHANGED points

\* A handler of the gateway may fetch a request and start the next at once.
FetchAndStart(fetched, id, request) ==
  /\ fetched \in FinishedIds \cup {NoId}
  /\ MayStart(Fetched(fetched), id, request)
  /\ requests' = Asked(Fetched(fetched), id, request)
  /\ UNCHANGED points

----------------------------------------------------------------------------
(* Service: some pending requests finish.  Their outcomes are `outcomes`,    *)
(* `lost` the writes among the timed-out ones that took effect all the same, *)
(* `readings` what the sensors measure by now.                             *)

Answers == [PendingIds -> Outcomes]

Effective(outcomes, lost) ==
  {id \in PendingIds : requests[id].isWrite /\ (outcomes[id] = "Done" \/ id \in lost)}

MayBeLost(outcomes) ==
  {id \in PendingIds : requests[id].isWrite /\ outcomes[id] = "Timeout"}

Held(slave, table, effective, readings) ==
  LET writes == {id \in effective : /\ requests[id].unit = slave
                                    /\ requests[id].table = table}
  IN IF table = "input" THEN readings[slave]
     ELSE IF writes = {} THEN points[slave][table]
     ELSE Stored(table, requests[CHOOSE id \in writes : TRUE].value)

Answered(request, outcome, held) ==
  IF outcome = "Done" /\ ~request.isWrite
    THEN [request EXCEPT !.outcome = outcome, !.value = held[request.unit][request.table]]
    ELSE [request EXCEPT !.outcome = outcome]

Service(outcomes, lost, readings) ==
  /\ outcomes \in Answers
  /\ lost \subseteq MayBeLost(outcomes)
  /\ points' = [slave \in Slaves |-> [table \in Tables |->
                  Held(slave, table, Effective(outcomes, lost), readings)]]
  /\ requests' = [id \in DOMAIN requests |->
                    IF id \in PendingIds
                      THEN Answered(requests[id], outcomes[id], points')
                      ELSE requests[id]]

\* The devices change a point of their own accord: somebody sets it there, or
\* they restart.
DevicesChange == UNCHANGED requests

----------------------------------------------------------------------------

Readings == [slave \in Slaves |-> points'[slave]["input"]]

SeamNext ==
  \/ \E fetched \in FinishedIds : Fetch(fetched)
  \/ \E fetched \in FinishedIds \cup {NoId}, id \in DOMAIN requests' :
       FetchAndStart(fetched, id, requests'[id])
  \/ \E outcomes \in Answers : \E lost \in SUBSET MayBeLost(outcomes) :
       Service(outcomes, lost, Readings)
  \/ DevicesChange

SeamSpec == SeamInit /\ [][SeamNext]_seamVars
=============================================================================
