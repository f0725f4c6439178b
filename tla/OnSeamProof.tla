----------------------------- MODULE OnSeamProof -----------------------------
(***************************************************************************)
(* The gateway over any driver behind the seam, whatever it refuses or        *)
(* loses: it keeps its side of the seam, forgets no request, and what it       *)
(* believes written is in the device.                                      *)
(*                                                                         *)
(* A driver that refuses a start leaves its user with no request, so the        *)
(* invariant is that of a driver that never does: every request is of the      *)
(* one user that holds its id, and a point has no other.                      *)
(***************************************************************************)
EXTENDS GatewayOnSeam, GatewayProof

----------------------------------------------------------------------------
(* Who holds which request. *)

\* The users of the bus at a slave: its poll and its two outputs.
Users == {"poll"} \cup Outputs

TableFor(user) == IF user = "poll" THEN "input" ELSE TableOf(user)

RequestOf(slave, user) ==
  IF user = "poll" THEN pollTransactionId[slave] ELSE link[slave][user].transactionId

\* The value a user has in flight, if it writes one.
ValueOf(slave, user) == IF user = "poll" THEN 0 ELSE link[slave][user].inFlightValue

AskedBy(slave, user, request) ==
  /\ request.unit = slave
  /\ request.table = TableFor(user)
  /\ request.isWrite = (user # "poll")
  /\ request.isWrite => request.value = ToRegister(user, ValueOf(slave, user))

Owned ==
  /\ \A slave \in Slaves, user \in Users : RequestOf(slave, user) # NoId =>
       /\ RequestOf(slave, user) \in DOMAIN requests
       /\ AskedBy(slave, user, requests[RequestOf(slave, user)])
  /\ \A id \in DOMAIN requests : \E slave \in Slaves, user \in Users :
       RequestOf(slave, user) = id

OnSeamInv ==
  /\ TypeOK
  /\ requests \in [DOMAIN requests -> Requests]
  /\ Owned

\* Users and tables of a slave correspond (main.cpp:466).
LEMMA UserTables ==
  /\ \A user \in Users : TableFor(user) \in Tables
  /\ \A user, other \in Users : TableFor(user) = TableFor(other) => user = other
  BY DEF TableFor, TableOf, Users, Outputs, Tables

\* No id is the refusal (ForeignBus.h:68).
LEMMA IdsAreNotRefusals ==
  ASSUME TypeOK
  PROVE  NoId \notin Ids /\ NoId \notin DOMAIN requests /\ DOMAIN requests \subseteq Ids
  BY IdsAssumption DEF NoId, TypeOK, SeamTypeOK

\* A user of the bus has at most one request (main.cpp:400, 431).
LEMMA OneRequest ==
  ASSUME OnSeamInv, NEW slave \in Slaves, NEW user \in Users, NEW id \in DOMAIN requests,
         requests[id].unit = slave, requests[id].table = TableFor(user)
  PROVE  id = RequestOf(slave, user)
<1>1. id # NoId
  BY IdsAreNotRefusals DEF OnSeamInv
<1>2. PICK other \in Slaves, otherUser \in Users : RequestOf(other, otherUser) = id
  BY DEF OnSeamInv, Owned
<1>3. AskedBy(other, otherUser, requests[id])
  BY <1>1, <1>2 DEF OnSeamInv, Owned
<1>4. other = slave /\ TableFor(otherUser) = TableFor(user)
  BY <1>3 DEF AskedBy
<1> QED
  BY <1>2, <1>4, UserTables

\* No two users of the bus hold the same request.
LEMMA OneHolder ==
  ASSUME OnSeamInv,
         NEW slave \in Slaves, NEW user \in Users, NEW other \in Slaves, NEW otherUser \in Users,
         RequestOf(slave, user) # NoId,
         RequestOf(slave, user) = RequestOf(other, otherUser)
  PROVE  slave = other /\ user = otherUser
<1> DEFINE request == requests[RequestOf(slave, user)]
<1>1. AskedBy(slave, user, request) /\ AskedBy(other, otherUser, request)
  BY DEF OnSeamInv, Owned
<1> HIDE DEF request
<1>2. slave = other /\ TableFor(user) = TableFor(otherUser)
  BY <1>1 DEF AskedBy
<1> QED
  BY <1>2, UserTables

\* Fetching nothing leaves every request.
LEMMA FetchedNothing ==
  ASSUME OnSeamInv
  PROVE  Fetched(NoId) = requests
<1>1. DOMAIN requests \ {NoId} = DOMAIN requests
  BY IdsAreNotRefusals DEF OnSeamInv
<1> QED
  BY <1>1 DEF OnSeamInv, Fetched

----------------------------------------------------------------------------
(* One call of ServiceForeignBus for one user of the bus. *)

\* It waits for the answer; or fetches it, if there is one, and is left with nothing; or
\* starts a new request then.
UserCall(slave, user) ==
  LET mine == RequestOf(slave, user)
      over == mine # NoId => mine \in DOMAIN requests /\ OutcomeOf(mine) # "Pending"
  IN /\ \/ /\ mine # NoId
           /\ requests' = requests
           /\ RequestOf(slave, user)' = mine
           /\ ValueOf(slave, user)' = ValueOf(slave, user)
        \/ /\ over
           /\ requests' = Fetched(mine)
           /\ RequestOf(slave, user)' = NoId
        \/ \E id \in Ids \ DOMAIN Fetched(mine), request \in Requests :
             /\ over
             /\ requests' = Asked(Fetched(mine), id, request)
             /\ RequestOf(slave, user)' = id
             /\ request.outcome = "Pending"
             /\ AskedBy(slave, user, request)'
     /\ \A other \in Slaves, otherUser \in Users : other # slave \/ otherUser # user =>
          /\ RequestOf(other, otherUser)' = RequestOf(other, otherUser)
          /\ ValueOf(other, otherUser)' = ValueOf(other, otherUser)
     /\ points' = points

\* A request is still its user's while the value in flight is.
LEMMA StillAskedBy ==
  ASSUME NEW slave, NEW user, NEW request, AskedBy(slave, user, request),
         ValueOf(slave, user)' = ValueOf(slave, user)
  PROVE  AskedBy(slave, user, request)'
  BY DEF AskedBy

\* Such a call leaves every request with the one user it is of.
LEMMA UserCallKeeps ==
  ASSUME OnSeamInv, NEW slave \in Slaves, NEW user \in Users, UserCall(slave, user)
  PROVE  /\ Owned' /\ (requests \in [DOMAIN requests -> Requests])'
         /\ DOMAIN requests' \subseteq Ids
<1> DEFINE mine == RequestOf(slave, user)
           left == Fetched(mine)
           Waits == /\ mine # NoId
                    /\ requests' = requests
                    /\ RequestOf(slave, user)' = mine
                    /\ ValueOf(slave, user)' = ValueOf(slave, user)
           Leaves == requests' = left /\ RequestOf(slave, user)' = NoId
           Starts(id, request) == /\ requests' = Asked(left, id, request)
                                  /\ RequestOf(slave, user)' = id
                                  /\ AskedBy(slave, user, request)'
<1>1. Waits \/ Leaves \/ \E id \in Ids \ DOMAIN left, request \in Requests : Starts(id, request)
  BY DEF UserCall
<1>2. \A other \in Slaves, otherUser \in Users : other # slave \/ otherUser # user =>
        /\ RequestOf(other, otherUser)' = RequestOf(other, otherUser)
        /\ ValueOf(other, otherUser)' = ValueOf(other, otherUser)
  BY DEF UserCall
<1>3. /\ NoId \notin DOMAIN requests /\ NoId \notin Ids /\ requests \in [DOMAIN requests -> Requests]
      /\ DOMAIN left = DOMAIN requests \ {mine} /\ DOMAIN requests \subseteq Ids
      /\ \A id \in DOMAIN left : left[id] = requests[id] /\ left[id] \in Requests
  BY IdsAreNotRefusals DEF OnSeamInv, Fetched
<1> HIDE DEF left
\* The requests of the other users stay, and are theirs.
<1>4. /\ DOMAIN left \subseteq DOMAIN requests'
      /\ \A id \in DOMAIN left : requests'[id] = requests[id]
      /\ (requests \in [DOMAIN requests -> Requests])'
      /\ NoId' = NoId
  <2>1. CASE Waits
    BY <1>3, <2>1 DEF NoId
  <2>2. CASE Leaves
    <3>1. left \in [DOMAIN left -> Requests]
      BY <1>3 DEF left, Fetched
    <3> QED
      BY <1>3, <2>2, <3>1 DEF NoId
  <2>3. ASSUME NEW id \in Ids \ DOMAIN left, NEW request \in Requests, Starts(id, request)
        PROVE  /\ DOMAIN left \subseteq DOMAIN requests'
               /\ \A other \in DOMAIN left : requests'[other] = requests[other]
               /\ (requests \in [DOMAIN requests -> Requests])'
    BY <1>3, <2>3 DEF Asked
  <2> QED
    BY <1>1, <2>1, <2>2, <2>3 DEF NoId
<1>5. ASSUME NEW other \in Slaves, NEW otherUser \in Users,
             RequestOf(other, otherUser)' # NoId
      PROVE  /\ RequestOf(other, otherUser)' \in DOMAIN requests'
             /\ AskedBy(other, otherUser, requests[RequestOf(other, otherUser)])'
  <2>1. CASE other # slave \/ otherUser # user
    <3> DEFINE id == RequestOf(other, otherUser)
    <3>1. id' = id /\ id # NoId /\ ValueOf(other, otherUser)' = ValueOf(other, otherUser)
      BY <1>2, <1>5, <2>1
    <3>2. id \in DOMAIN requests /\ AskedBy(other, otherUser, requests[id])
      BY <3>1 DEF OnSeamInv, Owned
    <3>3. id # mine
      BY <2>1, <3>1, OneHolder
    <3>4. id \in DOMAIN requests' /\ requests'[id] = requests[id]
      BY <1>3, <1>4, <3>2, <3>3
    <3>5. PICK request : request = requests[id]
      OBVIOUS
    <3>6. AskedBy(other, otherUser, request)'
      <4> HIDE DEF id
      <4> QED
        BY <3>1, <3>2, <3>5, StillAskedBy
    <3>7. requests'[RequestOf(other, otherUser)'] = request
      BY <3>1, <3>4, <3>5
    <3> QED
      BY <3>1, <3>4, <3>6, <3>7 DEF AskedBy
  <2>2. CASE other = slave /\ otherUser = user /\ Waits
    <3>1. mine \in DOMAIN requests /\ AskedBy(slave, user, requests[mine])
      BY <2>2 DEF OnSeamInv, Owned
    <3>2. PICK request : request = requests[mine]
      OBVIOUS
    <3>3. AskedBy(slave, user, request)'
      <4> HIDE DEF mine
      <4> QED
        BY <2>2, <3>1, <3>2, StillAskedBy
    <3>4. requests'[RequestOf(other, otherUser)'] = request
      BY <2>2, <3>2
    <3> QED
      BY <2>2, <3>1, <3>3, <3>4 DEF AskedBy
  <2>3. CASE other = slave /\ otherUser = user /\ Leaves
    BY <1>5, <2>3
  <2>4. ASSUME other = slave, otherUser = user,
               NEW id \in Ids \ DOMAIN left, NEW request \in Requests, Starts(id, request)
        PROVE  /\ RequestOf(other, otherUser)' \in DOMAIN requests'
               /\ AskedBy(other, otherUser, requests[RequestOf(other, otherUser)])'
    <3>1. id \in DOMAIN requests' /\ requests'[RequestOf(other, otherUser)'] = request
      BY <2>4 DEF Asked
    <3> QED
      BY <2>4, <3>1 DEF AskedBy
  <2> QED
    BY <1>1, <2>1, <2>2, <2>3, <2>4
<1>7. DOMAIN requests' \subseteq Ids
  BY <1>1, <1>3 DEF Asked
<1>6. ASSUME NEW id \in DOMAIN requests'
      PROVE  \E other \in Slaves, otherUser \in Users : RequestOf(other, otherUser)' = id
  <2>1. CASE RequestOf(slave, user)' = id
    BY <2>1
  <2>2. CASE RequestOf(slave, user)' # id
    <3>1. id \in DOMAIN requests /\ id # mine
      <4>1. CASE Waits
        BY <2>2, <4>1
      <4>2. CASE Leaves
        BY <1>3, <4>2
      <4>3. ASSUME NEW new \in Ids \ DOMAIN left, NEW request \in Requests, Starts(new, request)
            PROVE  id \in DOMAIN left
        BY <2>2, <4>3 DEF Asked
      <4> QED
        BY <1>1, <1>3, <4>1, <4>2, <4>3
    <3>2. PICK other \in Slaves, otherUser \in Users : RequestOf(other, otherUser) = id
      BY <3>1 DEF OnSeamInv, Owned
    <3> QED
      BY <1>2, <3>1, <3>2
  <2> QED
    BY <2>1, <2>2
<1> QED
  BY <1>4, <1>5, <1>6, <1>7 DEF Owned, NoId

\* What StartRead or StartWrite answers is a refusal or a free id (ForeignBus.h:68).
LEMMA AnswersAreFree ==
  ASSUME NEW live, NEW id \in StartAnswers(live)
  PROVE  id = NoId \/ id \in Ids \ DOMAIN live
  BY DEF StartAnswers, LeastFreeId, FreeIds

\* ServicePoll is such a call of the poll (main.cpp:399).
LEMMA PollIsUserCall ==
  ASSUME OnSeamInv, ServicePoll
  PROVE  /\ unit \in Slaves /\ UserCall(unit, "poll")
         /\ GatewayTypeOK(Ids)'
<1>1. PICK slave \in Slaves : slave = unit
  BY DEF OnSeamInv, TypeOK
<1> DEFINE mine == pollTransactionId[slave]
           over == mine # NoId => mine \in DOMAIN requests /\ OutcomeOf(mine) # "Pending"
<1>2. /\ GatewayTypeOK(Ids) /\ NoId = 0 /\ "poll" \notin Outputs
      /\ pollTransactionId \in [Slaves -> Ids \cup {0}]
      /\ mine # NoId => mine \in DOMAIN requests /\ requests[mine] \in Requests
  <2>1. RequestOf(slave, "poll") = mine /\ "poll" \in Users
    BY DEF RequestOf, Users
  <2>2. mine # NoId => mine \in DOMAIN requests
    BY <2>1 DEF OnSeamInv, Owned
  <2> QED
    BY <2>2 DEF OnSeamInv, TypeOK, GatewayTypeOK, NoId, Outputs
<1>3. ASSUME NEW value, pollTransactionId' = [pollTransactionId EXCEPT ![slave] = value],
             NEW changed \in Slaves,
             SlaveWentOffline(changed) \/ SlaveCameBack(changed) \/ UNCHANGED link
      PROVE  /\ RequestOf(slave, "poll")' = value
             /\ \A other \in Slaves, otherUser \in Users : other # slave \/ otherUser # "poll" =>
                  /\ RequestOf(other, otherUser)' = RequestOf(other, otherUser)
                  /\ ValueOf(other, otherUser)' = ValueOf(other, otherUser)
  <2>1. ASSUME NEW other \in Slaves, NEW output \in Outputs
        PROVE  /\ link'[other][output].transactionId = link[other][output].transactionId
               /\ link'[other][output].inFlightValue = link[other][output].inFlightValue
    BY <1>2, <1>3, BeliefKeepsLinks
  <2> QED
    BY <1>2, <1>3, <2>1 DEF RequestOf, ValueOf, Users
<1>4. RequestOf(slave, "poll") = mine
  BY DEF RequestOf
<1>5. CASE \E id \in StartAnswers(requests) : StartPoll(slave, id)
  <2>1. PICK id \in StartAnswers(requests) : StartPoll(slave, id)
    BY <1>5
  <2> DEFINE request == Asking(slave, "input", FALSE, 0)
  <2>2. /\ mine = NoId /\ over /\ points' = points /\ UNCHANGED link
        /\ pollTransactionId' = [pollTransactionId EXCEPT ![slave] = id]
        /\ requests' = Begun(requests, id, request)
    BY <1>2, <2>1 DEF StartPoll, PollStarts, PollDue
  <2>3. id = NoId \/ id \in Ids \ DOMAIN requests
    BY AnswersAreFree
  <2>4. Fetched(mine) = requests
    BY <2>2, FetchedNothing
  <2>5. request \in Requests /\ request.outcome = "Pending"
    <3>1. 0 \in RegisterValues
      BY SMT DEF RegisterValues, REGISTER_VALUES
    <3> QED
      BY <3>1 DEF Asking, Requests, Tables, Outcomes
  <2>6. AskedBy(slave, "poll", request)'
    BY DEF AskedBy, Asking, TableFor
  <2>7. RequestOf(slave, "poll")' = id
        /\ \A other \in Slaves, otherUser \in Users : other # slave \/ otherUser # "poll" =>
             /\ RequestOf(other, otherUser)' = RequestOf(other, otherUser)
             /\ ValueOf(other, otherUser)' = ValueOf(other, otherUser)
    BY <1>3, <2>2
  <2>8. GatewayTypeOK(Ids)'
    BY <1>2, <2>1, <2>3, PollType DEF StartPoll
  <2> HIDE DEF request
  <2>9. UserCall(slave, "poll")
    BY <1>4, <2>2, <2>3, <2>4, <2>5, <2>6, <2>7 DEF UserCall, Begun
  <2> QED
    BY <1>1, <2>8, <2>9
<1>6. CASE WaitForPoll(slave)
  <2>1. /\ UNCHANGED gatewayVars /\ requests' = requests /\ points' = points
        /\ mine = NoId \/ OutcomeOf(mine) = "Pending"
    BY <1>2, <1>6 DEF WaitForPoll, PollWaits
  <2>2. \A other \in Slaves, otherUser \in Users :
             /\ RequestOf(other, otherUser)' = RequestOf(other, otherUser)
             /\ ValueOf(other, otherUser)' = ValueOf(other, otherUser)
    BY <2>1 DEF RequestOf, ValueOf, gatewayVars
  <2>3. "poll" \in Users
    BY DEF Users
  <2>4. UserCall(slave, "poll")
    BY <1>2, <1>4, <2>1, <2>2, <2>3, FetchedNothing DEF UserCall
  <2>5. GatewayTypeOK(Ids)'
    BY <1>2, <2>1 DEF GatewayTypeOK, gatewayVars
  <2> QED
    BY <1>1, <2>4, <2>5
<1>7. CASE FinishPoll(slave)
  <2>1. /\ PollFinishes(slave, OutcomeOf(mine), requests[mine].value)
        /\ requests' = Fetched(mine) /\ points' = points
    BY <1>7 DEF FinishPoll
  <2>2. /\ mine # NoId /\ over /\ requests[mine].value \in RegisterValues
        /\ pollTransactionId' = [pollTransactionId EXCEPT ![slave] = NoId]
        /\ SlaveWentOffline(slave) \/ SlaveCameBack(slave) \/ UNCHANGED link
    BY <1>2, <2>1 DEF PollFinishes, PollAnswered, PollFailed, Requests
  <2>3. RequestOf(slave, "poll")' = NoId
        /\ \A other \in Slaves, otherUser \in Users : other # slave \/ otherUser # "poll" =>
             /\ RequestOf(other, otherUser)' = RequestOf(other, otherUser)
             /\ ValueOf(other, otherUser)' = ValueOf(other, otherUser)
    BY <1>3, <2>2
  <2>4. UserCall(slave, "poll")
    BY <1>4, <2>1, <2>2, <2>3 DEF UserCall
  <2>5. GatewayTypeOK(Ids)'
    BY <1>2, <2>1, <2>2, PollType
  <2> QED
    BY <1>1, <2>4, <2>5
<1> QED
  BY <1>1, <1>5, <1>6, <1>7 DEF ServicePoll

\* ServiceWriteThrough is such a call of its output (main.cpp:430).
LEMMA WriteIsUserCall ==
  ASSUME OnSeamInv, NEW output \in Outputs, NEW id \in Ids \cup {NoId},
         WriteOut(unit, output, id)
  PROVE  /\ unit \in Slaves /\ UserCall(unit, output)
         /\ GatewayTypeOK(Ids)'
<1>1. PICK slave \in Slaves : slave = unit
  BY DEF OnSeamInv, TypeOK
<1> DEFINE mine == link[slave][output].transactionId
           outcome == OutcomeOf(mine)
           waits == WriteWaits(slave, output, outcome)
           starts == WriteStarts(slave, output)
           finished == FinishedWrite(slave, output)
           live == Fetched(finished)
           winning == Winning(slave, output)
           request == Asking(slave, TableOf(output), TRUE, ToRegister(output, winning))
<1>2. /\ GatewayTypeOK(Ids) /\ NoId = 0 /\ output # "poll" /\ output \in Users
      /\ mine # NoId => mine \in DOMAIN requests
      /\ RequestOf(slave, output) = mine
      /\ winning \in Int
  <2>1. RequestOf(slave, output) = mine /\ output \in Users /\ output # "poll"
    BY DEF RequestOf, Users, Outputs
  <2>2. mine # NoId => mine \in DOMAIN requests
    BY <2>1 DEF OnSeamInv, Owned
  <2>3. GatewayTypeOK(Ids)
    BY DEF OnSeamInv, TypeOK
  <2> QED
    BY <2>1, <2>2, <2>3, WinningType DEF NoId
<1>3. /\ id \in IF starts THEN StartAnswers(live) ELSE {NoId}
      /\ WriteThrough(slave, output, outcome, id)
      /\ requests' = Begun(live, id, request)
      /\ points' = points
  BY <1>1 DEF WriteOut
<1>4. /\ \A other \in Slaves, otherOutput \in Outputs :
           other # slave \/ otherOutput # output =>
             link'[other][otherOutput] = link[other][otherOutput]
      /\ waits => link'[slave][output] = link[slave][output]
      /\ ~waits => link'[slave][output].transactionId = IF starts THEN id ELSE 0
      /\ starts => link'[slave][output].inFlightValue = winning
  BY <1>2, <1>3, WriteThroughTells DEF WriteStarts
<1>5. pollTransactionId' = pollTransactionId /\ GatewayTypeOK(Ids)'
  BY <1>2, <1>3, WriteThroughType DEF WriteThrough
<1>6. \A other \in Slaves, otherUser \in Users : other # slave \/ otherUser # output =>
        /\ RequestOf(other, otherUser)' = RequestOf(other, otherUser)
        /\ ValueOf(other, otherUser)' = ValueOf(other, otherUser)
  BY <1>4, <1>5 DEF RequestOf, ValueOf, Users
<1>7. waits <=> mine # NoId /\ outcome = "Pending"
  BY <1>2 DEF WriteWaits
<1>8. finished = IF mine # NoId /\ outcome # "Pending" THEN mine ELSE NoId
  BY DEF FinishedWrite
<1>9. CASE waits
  <2>1. ~starts /\ id = NoId /\ finished = NoId
    BY <1>3, <1>7, <1>8, <1>9 DEF WriteStarts
  <2>2. requests' = requests
    BY <1>3, <2>1, FetchedNothing DEF Begun
  <2>3. RequestOf(slave, output)' = mine /\ ValueOf(slave, output)' = ValueOf(slave, output)
    BY <1>2, <1>4, <1>9 DEF RequestOf, ValueOf
  <2>4. UserCall(slave, output)
    BY <1>2, <1>3, <1>6, <1>7, <1>9, <2>2, <2>3 DEF UserCall
  <2> QED
    BY <1>1, <1>5, <2>4
<1>10. CASE ~waits
  <2>1. live = Fetched(mine) /\ (mine # NoId => mine \in DOMAIN requests /\ OutcomeOf(mine) # "Pending")
    BY <1>2, <1>7, <1>8, <1>10
  <2> HIDE DEF live, starts, mine, waits
  <2>2. RequestOf(slave, output)' = id
    BY <1>2, <1>3, <1>4, <1>10 DEF RequestOf
  <2>3. CASE id = NoId
    <3>1. requests' = Fetched(mine)
      BY <1>3, <2>1, <2>3 DEF Begun
    <3>2. UserCall(slave, output)
      BY <1>2, <1>3, <1>6, <2>1, <2>2, <2>3, <3>1 DEF UserCall
    <3> QED
      BY <1>1, <1>5, <3>2
  <2>4. CASE id # NoId
    <3>1. starts /\ id \in Ids \ DOMAIN live
      BY <1>3, <2>4, AnswersAreFree
    <3>2. requests' = Asked(live, id, request)
      BY <1>3, <2>4 DEF Begun
    <3>3. request \in Requests /\ request.outcome = "Pending"
      <4>1. ToRegister(output, winning) \in RegisterValues /\ TableOf(output) \in Tables
        BY <1>2, ToRegisterType DEF TableOf, Tables
      <4> QED
        BY <4>1 DEF Asking, Requests, Outcomes
    <3>6. PICK asked : asked = request
      OBVIOUS
    <3>4. AskedBy(slave, output, asked)'
      <4>1. ValueOf(slave, output)' = winning
        BY <1>2, <1>4, <3>1 DEF ValueOf
      <4> HIDE DEF winning
      <4>2. /\ request.unit = slave /\ request.table = TableOf(output)
            /\ request.isWrite = TRUE /\ request.value = ToRegister(output, winning)
        BY DEF Asking
      <4>3. TableFor(output) = TableOf(output)
        BY <1>2 DEF TableFor
      <4> HIDE DEF request
      <4> QED
        BY <1>2, <3>6, <4>1, <4>2, <4>3 DEF AskedBy
    <3>5. UserCall(slave, output)
      <4> HIDE DEF request
      <4> QED
        BY <1>2, <1>3, <1>6, <2>1, <2>2, <3>1, <3>2, <3>3, <3>4, <3>6 DEF UserCall
    <3> QED
      BY <1>1, <1>5, <3>5
  <2> QED
    BY <2>3, <2>4
<1> QED
  BY <1>9, <1>10

----------------------------------------------------------------------------
(* Service. *)

\* The write of a point that takes effect in a Service is its output's own, if there is
\* one (main.cpp:431).
LEMMA EffectiveIsOwn ==
  ASSUME OnSeamInv, NEW effective, effective \subseteq DOMAIN requests,
         NEW slave \in Slaves, NEW output \in Outputs
  PROVE  LET id == RequestOf(slave, output)
             writes == {other \in effective : /\ requests[other].unit = slave
                                              /\ requests[other].table = TableOf(output)}
         IN writes = IF id \in effective THEN {id} ELSE {}
<1> DEFINE mine == RequestOf(slave, output)
           writes == {other \in effective : /\ requests[other].unit = slave
                                            /\ requests[other].table = TableOf(output)}
<1>1. output \in Users /\ TableFor(output) = TableOf(output)
  BY DEF Users, TableFor, Outputs
<1>2. \A id \in writes : id = mine
  BY <1>1, OneRequest
<1>3. mine \in effective => mine \in writes
  BY <1>1, IdsAreNotRefusals DEF OnSeamInv, Owned, AskedBy
<1> QED
  BY <1>2, <1>3

\* A Service keeps whose each request is and the value a write carries; it stores
\* an output's own write if that takes effect (ForeignBus.h:32).
LEMMA ServiceTells ==
  ASSUME OnSeamInv, NEW outcomes \in Answers, NEW lost \in SUBSET MayBeLost(outcomes),
         NEW readings \in [Slaves -> RegisterValues], Service(outcomes, lost, readings)
  PROVE  /\ points' \in [Slaves -> [Tables -> RegisterValues]]
         /\ \A slave \in Slaves : points'[slave]["input"] = readings[slave]
         /\ requests' \in [DOMAIN requests -> Requests]
         /\ \A id \in DOMAIN requests :
              /\ requests'[id].unit = requests[id].unit
              /\ requests'[id].table = requests[id].table
              /\ requests'[id].isWrite = requests[id].isWrite
              /\ requests[id].isWrite => requests'[id].value = requests[id].value
              /\ requests'[id].outcome =
                   IF id \in PendingIds THEN outcomes[id] ELSE requests[id].outcome
         /\ \A slave \in Slaves, output \in Outputs :
              points'[slave][TableOf(output)] =
                IF RequestOf(slave, output) \in Effective(outcomes, lost)
                  THEN Stored(TableOf(output), requests[RequestOf(slave, output)].value)
                  ELSE points[slave][TableOf(output)]
<1> DEFINE effective == Effective(outcomes, lost)
           WritesOf(slave, table) == {id \in effective : /\ requests[id].unit = slave
                                                         /\ requests[id].table = table}
           TheWrite(slave, table) == CHOOSE id \in WritesOf(slave, table) : TRUE
<1>1. /\ \A id \in DOMAIN requests : requests[id] \in Requests
      /\ points \in [Slaves -> [Tables -> RegisterValues]]
      /\ effective \subseteq DOMAIN requests
  BY DEF OnSeamInv, TypeOK, SeamTypeOK, Effective, PendingIds
<1>2. \A slave \in Slaves, table \in Tables : points'[slave][table] =
        IF table = "input" THEN readings[slave]
        ELSE IF WritesOf(slave, table) = {} THEN points[slave][table]
        ELSE Stored(table, requests[TheWrite(slave, table)].value)
  BY DEF Service, Held
<1>3. ASSUME NEW slave, NEW table, WritesOf(slave, table) # {}
      PROVE  TheWrite(slave, table) \in WritesOf(slave, table)
  BY <1>3
<1> HIDE DEF effective, TheWrite
<1>4. points' \in [Slaves -> [Tables -> RegisterValues]]
  <2>1. ASSUME NEW slave \in Slaves, NEW table \in Tables
        PROVE  points'[slave][table] \in RegisterValues
    <3>1. WritesOf(slave, table) # {} =>
            requests[TheWrite(slave, table)].value \in RegisterValues
      BY <1>1, <1>3 DEF Requests
    <3>2. WritesOf(slave, table) # {} =>
            Stored(table, requests[TheWrite(slave, table)].value) \in RegisterValues
      BY <3>1, StoredType
    <3> QED
      BY <1>1, <1>2, <3>2
  <2>2. points' = [slave \in Slaves |-> [table \in Tables |-> points'[slave][table]]]
    BY DEF Service
  <2> QED
    BY <2>1, <2>2
<1>5. ASSUME NEW id \in DOMAIN requests
      PROVE  /\ requests'[id] \in Requests
             /\ requests'[id].unit = requests[id].unit
             /\ requests'[id].table = requests[id].table
             /\ requests'[id].isWrite = requests[id].isWrite
             /\ requests[id].isWrite => requests'[id].value = requests[id].value
             /\ requests'[id].outcome =
                  IF id \in PendingIds THEN outcomes[id] ELSE requests[id].outcome
  <2> DEFINE request == requests[id]
             held == points'[request.unit][request.table]
  <2>1. request \in Requests
    BY <1>1
  <2>2. request.unit \in Slaves /\ request.table \in Tables
    BY <2>1 DEF Requests
  <2>3. held \in RegisterValues
    BY <1>4, <2>2
  <2>4. id \notin PendingIds => requests'[id] = request
    BY DEF Service
  <2>5. id \in PendingIds => outcomes[id] \in Outcomes
    BY DEF Answers
  <2>6. id \in PendingIds => requests'[id] =
          IF outcomes[id] = "Done" /\ ~request.isWrite
            THEN [request EXCEPT !.outcome = outcomes[id], !.value = held]
            ELSE [request EXCEPT !.outcome = outcomes[id]]
    BY DEF Service, Answered
  <2> HIDE DEF request, held
  <2>7. CASE id \notin PendingIds
    BY <2>1, <2>4, <2>7 DEF request
  <2>8. CASE id \in PendingIds /\ outcomes[id] = "Done" /\ ~request.isWrite
    BY <2>1, <2>3, <2>5, <2>6, <2>8 DEF request, Requests
  <2>9. CASE id \in PendingIds /\ ~(outcomes[id] = "Done" /\ ~request.isWrite)
    BY <2>1, <2>5, <2>6, <2>9 DEF request, Requests
  <2> QED
    BY <2>7, <2>8, <2>9
<1>6. requests' \in [DOMAIN requests -> Requests]
  BY <1>5 DEF Service
<1>7. ASSUME NEW slave \in Slaves, NEW output \in Outputs
      PROVE  points'[slave][TableOf(output)] =
               IF RequestOf(slave, output) \in effective
                 THEN Stored(TableOf(output), requests[RequestOf(slave, output)].value)
                 ELSE points[slave][TableOf(output)]
  <2>1. TableOf(output) \in Tables /\ TableOf(output) # "input"
    BY DEF TableOf, Tables
  <2>2. WritesOf(slave, TableOf(output)) =
          IF RequestOf(slave, output) \in effective THEN {RequestOf(slave, output)} ELSE {}
    BY <1>1, EffectiveIsOwn
  <2> HIDE DEF WritesOf
  <2>3. RequestOf(slave, output) \in effective =>
          TheWrite(slave, TableOf(output)) = RequestOf(slave, output)
    BY <1>3, <2>2
  <2> QED
    BY <1>2, <2>1, <2>2, <2>3
<1> QED
  BY <1>2, <1>4, <1>5, <1>6, <1>7 DEF effective, Tables

\* A Service leaves every request with its user (ForeignBus.h:53).
LEMMA ServiceBusKeeps ==
  ASSUME OnSeamInv, ServiceBus
  PROVE  OnSeamInv'
<1>1. PICK outcomes \in Answers : \E lost \in SUBSET MayBeLost(outcomes),
           readings \in [Slaves -> RegisterValues] : Service(outcomes, lost, readings)
  BY PointsAssumption DEF ServiceBus
<1>2. GatewayTypeOK(Ids) /\ GatewayTimePasses(1)
  BY DEF OnSeamInv, TypeOK, ServiceBus
<1>3. GatewayTypeOK(Ids)'
  BY <1>2, TimePassesType
<1>4. \A slave \in Slaves, user \in Users :
        /\ RequestOf(slave, user)' = RequestOf(slave, user)
        /\ ValueOf(slave, user)' = ValueOf(slave, user)
  <2>1. \A slave \in Slaves, output \in Outputs :
          /\ link'[slave][output].transactionId = link[slave][output].transactionId
          /\ link'[slave][output].inFlightValue = link[slave][output].inFlightValue
    BY <1>2, TimeKeepsLinks
  <2>2. pollTransactionId' = pollTransactionId
    BY <1>2 DEF GatewayTimePasses
  <2> QED
    BY <2>1, <2>2 DEF RequestOf, ValueOf, Users
<1>5. /\ DOMAIN requests' = DOMAIN requests
      /\ requests' \in [DOMAIN requests -> Requests]
      /\ points' \in [Slaves -> [Tables -> RegisterValues]]
      /\ \A id \in DOMAIN requests :
           /\ requests'[id].unit = requests[id].unit
           /\ requests'[id].table = requests[id].table
           /\ requests'[id].isWrite = requests[id].isWrite
           /\ requests[id].isWrite => requests'[id].value = requests[id].value
  BY <1>1, ServiceTells
<1>6. ASSUME NEW slave \in Slaves, NEW user \in Users, RequestOf(slave, user)' # NoId
      PROVE  /\ RequestOf(slave, user)' \in DOMAIN requests'
             /\ AskedBy(slave, user, requests[RequestOf(slave, user)])'
  <2>1. PICK id : id = RequestOf(slave, user)
    OBVIOUS
  <2>2. id \in DOMAIN requests /\ AskedBy(slave, user, requests[id])
    BY <1>4, <1>6, <2>1 DEF OnSeamInv, Owned
  <2>3. RequestOf(slave, user)' = id /\ ValueOf(slave, user)' = ValueOf(slave, user)
    BY <1>4, <2>1
  <2>4. AskedBy(slave, user, requests[id])'
    BY <1>5, <2>2, <2>3 DEF AskedBy
  <2>5. requests'[RequestOf(slave, user)'] = requests'[id]
    BY <2>3
  <2> QED
    BY <1>5, <2>2, <2>3, <2>4, <2>5 DEF AskedBy
<1>7. Owned'
  <2>1. \A id \in DOMAIN requests' : \E slave \in Slaves, user \in Users :
          RequestOf(slave, user)' = id
    BY <1>4, <1>5 DEF OnSeamInv, Owned
  <2> QED
    BY <1>6, <2>1 DEF Owned, NoId
<1>8. /\ pc' \in {"Tick", "Poll", "setpoint", "enable"} /\ unit' \in Slaves
      /\ answering' \in [Slaves -> BOOLEAN]
      /\ overridden' \in [Slaves -> [Outputs -> BOOLEAN]]
  BY DEF ServiceBus, OnSeamInv, TypeOK
<1> QED
  BY <1>3, <1>5, <1>7, <1>8 DEF OnSeamInv, TypeOK, SeamTypeOK

----------------------------------------------------------------------------
(* Every step keeps the invariant. *)

\* Before the first pass nothing is asked for (main.cpp:237).
LEMMA OnSeamInit == Init => OnSeamInv
<1> SUFFICES ASSUME Init PROVE OnSeamInv
  OBVIOUS
<1>1. GatewayTypeOK(Ids)
  BY GatewayInitType DEF Init
<1>2. DOMAIN requests = {} /\ requests \in [DOMAIN requests -> Requests]
  BY DEF Init, SeamInit
<1>3. TypeOK
  BY <1>1, <1>2, SlaveCountAssumption DEF Init, SeamInit, TypeOK, SeamTypeOK, Slaves
<1>4. \A slave \in Slaves, user \in Users : RequestOf(slave, user) = NoId
  BY DEF Init, GatewayInit, UnwrittenLink, RequestOf, Users, NoId
<1> QED
  BY <1>2, <1>3, <1>4 DEF OnSeamInv, Owned

\* What happens between two passes leaves the requests and their users alone.
LEMMA OutsideKeeps ==
  ASSUME OnSeamInv, Environment \/ UNCHANGED vars
  PROVE  /\ OnSeamInv' /\ requests' = requests
         /\ UNCHANGED <<link, pollTransactionId>>
<1>1. /\ requests' = requests
      /\ UNCHANGED <<link, pollTransactionId>>
  BY DEF Environment, ClientWrites, ClientRelinquishes, CableChanges, PointChanges,
         DevicesChange, WritePresentValue, RelinquishPresentValue, gatewayVars, vars
<1>2. GatewayTypeOK(Ids)'
  <2>1. CASE ClientWrites
    <3>1. PICK command \in Commands :
            WritePresentValue(command.slave, command.output, command.priority, command.value)
      BY <2>1 DEF ClientWrites
    <3>2. command.slave \in Slaves /\ command.output \in Outputs /\ command.value \in Int
      BY ClientsAssumption
    <3>3. GatewayTypeOK(Ids)
      BY DEF OnSeamInv, TypeOK
    <3> QED
      BY <3>1, <3>2, <3>3, ClientType
  <2>2. CASE ClientRelinquishes
    <3>1. PICK release \in Releases :
            RelinquishPresentValue(release.slave, release.output, release.priority)
      BY <2>2 DEF ClientRelinquishes
    <3>2. release.slave \in Slaves /\ release.output \in Outputs /\ 0 \in Int
      BY ClientsAssumption
    <3>3. GatewayTypeOK(Ids)
      BY DEF OnSeamInv, TypeOK
    <3> QED
      BY <3>1, <3>2, <3>3, ClientType
  <2>3. CASE CableChanges \/ PointChanges \/ UNCHANGED vars
    <3>1. UNCHANGED gatewayVars
      BY <2>3 DEF CableChanges, PointChanges, vars, gatewayVars
    <3> QED
      BY <3>1 DEF gatewayVars, GatewayTypeOK, OnSeamInv, TypeOK
  <2> QED
    BY <2>1, <2>2, <2>3 DEF Environment
<1>3. points' \in [Slaves -> [Tables -> RegisterValues]]
      /\ overridden' \in [Slaves -> [Outputs -> BOOLEAN]]
  <2>1. CASE PointChanges
    <3>1. PICK change \in LocalChanges :
            LET lnk == link[change.slave][change.output]
            IN /\ points' = [points EXCEPT ![change.slave][TableOf(change.output)] = change.value]
               /\ overridden' = [overridden EXCEPT ![change.slave][change.output] =
                                   overridden[change.slave][change.output]
                                     \/ online[change.slave] \/ lnk.written
                                     \/ lnk.transactionId # NoId]
      BY <2>1 DEF PointChanges
    <3>2. change.slave \in Slaves /\ change.output \in Outputs /\ change.value \in RegisterValues
      BY PointsAssumption
    <3>3. TableOf(change.output) \in Tables
      BY DEF TableOf, Tables
    <3> DEFINE flag == \/ overridden[change.slave][change.output]
                       \/ online[change.slave] \/ link[change.slave][change.output].written
                       \/ link[change.slave][change.output].transactionId # NoId
    <3>4. flag \in BOOLEAN
      OBVIOUS
    <3>5. overridden' = [overridden EXCEPT ![change.slave][change.output] = flag]
      BY <3>1
    <3> HIDE DEF flag
    <3> QED
      BY <3>1, <3>2, <3>3, <3>4, <3>5 DEF OnSeamInv, TypeOK, SeamTypeOK
  <2>2. CASE UNCHANGED <<points, overridden>>
    BY <2>2 DEF OnSeamInv, TypeOK, SeamTypeOK
  <2> QED
    BY <2>1, <2>2 DEF Environment, ClientWrites, ClientRelinquishes, CableChanges, vars
<1>4. /\ pc' \in {"Tick", "Poll", "setpoint", "enable"} /\ unit' \in Slaves
      /\ answering' \in [Slaves -> BOOLEAN]
  BY DEF Environment, ClientWrites, ClientRelinquishes, CableChanges, PointChanges,
         OnSeamInv, TypeOK, vars
<1>5. (requests \in [DOMAIN requests -> Requests])' /\ DOMAIN requests' \subseteq Ids
  BY <1>1 DEF OnSeamInv, TypeOK, SeamTypeOK
<1>6. Owned'
  <2>1. \A slave \in Slaves, user \in Users :
          RequestOf(slave, user)' = RequestOf(slave, user)
          /\ ValueOf(slave, user)' = ValueOf(slave, user)
    BY <1>1 DEF RequestOf, ValueOf
  <2> QED
    BY <1>1, <2>1 DEF OnSeamInv, Owned, AskedBy, NoId, RequestOf, ValueOf
<1> QED
  BY <1>1, <1>2, <1>3, <1>4, <1>5, <1>6 DEF OnSeamInv, TypeOK, SeamTypeOK

\* A call of a user keeps the invariant (main.cpp:399, 430).
LEMMA CallKeeps ==
  ASSUME OnSeamInv,
         ServicePoll \/ \E output \in Outputs, id \in Ids \cup {NoId} : ServiceWriteThrough(output, id)
  PROVE  /\ OnSeamInv'
         /\ \E slave \in Slaves, user \in Users : UserCall(slave, user)
<1>1. /\ GatewayTypeOK(Ids)'
      /\ \E slave \in Slaves, user \in Users : UserCall(slave, user)
  <2>1. CASE ServicePoll
    BY <2>1, PollIsUserCall DEF Users
  <2>2. CASE \E output \in Outputs, id \in Ids \cup {NoId} : ServiceWriteThrough(output, id)
    BY <2>2, WriteIsUserCall DEF Users, ServiceWriteThrough
  <2> QED
    BY <2>1, <2>2
<1>2. /\ Owned' /\ (requests \in [DOMAIN requests -> Requests])'
      /\ DOMAIN requests' \subseteq Ids
  BY <1>1, UserCallKeeps
<1>3. points' = points
  BY <1>1 DEF UserCall
<1>4. /\ pc' \in {"Tick", "Poll", "setpoint", "enable"}
      /\ answering' \in [Slaves -> BOOLEAN]
  BY DEF ServicePoll, ServiceWriteThrough, OnSeamInv, TypeOK, Outputs
<1>5. unit' \in Slaves
  BY SlaveCountAssumption, SMT DEF ServicePoll, ServiceWriteThrough, OnSeamInv, TypeOK, Slaves
<1>6. overridden' \in [Slaves -> [Outputs -> BOOLEAN]]
  <2>1. CASE FinishPoll(unit)
    <3> DEFINE flags == [output \in Outputs |->
                 /\ overridden[unit][output]
                 /\ (online[unit] => online'[unit]) \/ link[unit][output].transactionId # NoId]
    <3>1. flags \in [Outputs -> BOOLEAN]
      OBVIOUS
    <3>2. overridden' = [overridden EXCEPT ![unit] = flags]
      BY <2>1 DEF FinishPoll
    <3> HIDE DEF flags
    <3> QED
      BY <3>1, <3>2 DEF OnSeamInv, TypeOK
  <2>2. CASE UNCHANGED overridden
    BY <2>2 DEF OnSeamInv, TypeOK
  <2> QED
    BY <2>1, <2>2 DEF ServicePoll, StartPoll, WaitForPoll, ServiceWriteThrough, WriteOut
<1> QED
  BY <1>1, <1>2, <1>3, <1>4, <1>5, <1>6 DEF OnSeamInv, TypeOK, SeamTypeOK

\* Every step keeps the invariant.
LEMMA OnSeamStep ==
  ASSUME OnSeamInv, [Next]_vars
  PROVE  OnSeamInv'
  BY ServiceBusKeeps, CallKeeps, OutsideKeeps DEF Next, Loop

\* The gateway is well typed over any driver, whatever that refuses, loses or makes up
\* (ForeignBus.h:24; main.cpp:399, 430).
THEOREM OnSeamTypeCorrect == Spec => []TypeOK
<1>1. OnSeamInv => TypeOK
  BY DEF OnSeamInv
<1> QED
  BY <1>1, OnSeamInit, OnSeamStep, PTL DEF Spec

\* A refused start leaves nothing behind and a started one is always somebody's: the driver
\* holds the requests the gateway waits for and no others (ForeignBus.h:68; main.cpp:405).
THEOREM NothingIsForgotten == Spec => []NothingForgotten
<1>1. OnSeamInv => NothingForgotten
  <2> SUFFICES ASSUME OnSeamInv PROVE NothingForgotten
    OBVIOUS
  <2>1. \A slave \in Slaves : InFlight(slave) = {RequestOf(slave, user) : user \in Users}
    BY DEF InFlight, RequestOf, Users, Outputs
  <2>2. NoId \notin DOMAIN requests
    BY IdsAreNotRefusals DEF OnSeamInv
  <2>3. ASSUME NEW id \in DOMAIN requests
        PROVE  id \in UNION {InFlight(slave) : slave \in Slaves}
    BY <2>1, <2>3 DEF OnSeamInv, Owned
  <2>4. ASSUME NEW slave \in Slaves, NEW id \in InFlight(slave), id # NoId
        PROVE  id \in DOMAIN requests
    BY <2>1, <2>4 DEF OnSeamInv, Owned
  <2>5. DOMAIN requests \subseteq (UNION {InFlight(slave) : slave \in Slaves}) \ {NoId}
    BY <2>2, <2>3
  <2>6. (UNION {InFlight(slave) : slave \in Slaves}) \ {NoId} \subseteq DOMAIN requests
    BY <2>4
  <2> QED
    BY <2>5, <2>6, Zenon DEF NothingForgotten
<1> QED
  BY <1>1, OnSeamInit, OnSeamStep, PTL DEF Spec

----------------------------------------------------------------------------
(* The gateway keeps its side of the seam. *)

\* A call of a user starts a request only of a point with none, under a free id, and
\* fetches at most its own (main.cpp:400, 431).
LEMMA CallOnSeam ==
  ASSUME OnSeamInv, NEW slave \in Slaves, NEW user \in Users, UserCall(slave, user)
  PROVE  SeamNext
<1> DEFINE mine == RequestOf(slave, user)
           left == Fetched(mine)
           over == mine # NoId => mine \in DOMAIN requests /\ OutcomeOf(mine) # "Pending"
<1>1. DOMAIN left = DOMAIN requests \ {mine} /\ \A id \in DOMAIN left : left[id] = requests[id]
  BY DEF Fetched
<1>2. over => mine \in FinishedIds \cup {NoId}
  BY DEF FinishedIds, PendingIds, OutcomeOf
<1>3. CASE requests' = requests
  BY <1>3 DEF SeamNext, DevicesChange
<1>4. CASE over /\ requests' = left
  <2>1. CASE mine = NoId
    BY <1>3, <1>4, <2>1, FetchedNothing
  <2>2. CASE mine # NoId
    BY <1>2, <1>4, <2>2 DEF SeamNext, Fetch, UserCall
  <2> QED
    BY <2>1, <2>2
<1>5. ASSUME NEW id \in Ids \ DOMAIN left, NEW request \in Requests, over,
             requests' = Asked(left, id, request), request.outcome = "Pending",
             AskedBy(slave, user, request)'
      PROVE  SeamNext
  <2>1. request.unit = slave /\ request.table = TableFor(user)
    BY <1>5 DEF AskedBy, TableFor
  <2>2. ~BeingWritten(left, request.unit, request.table)
    <3> SUFFICES ASSUME NEW other \in DOMAIN left,
                        left[other].unit = slave, left[other].table = TableFor(user)
                 PROVE  FALSE
      BY <2>1 DEF BeingWritten
    <3>1. other = mine
      BY <1>1, OneRequest
    <3> QED
      BY <1>1, <3>1
  <2> HIDE DEF left
  <2>3. MayStart(left, id, request)
    BY <1>5, <2>2 DEF MayStart
  <2>4. id \in DOMAIN requests' /\ requests'[id] = request
    BY <1>5 DEF Asked
  <2>5. FetchAndStart(mine, id, requests'[id])
    BY <1>2, <1>5, <2>3, <2>4 DEF FetchAndStart, UserCall, left
  <2> QED
    BY <1>2, <1>5, <2>4, <2>5 DEF SeamNext
<1> QED
  BY <1>3, <1>4, <1>5 DEF UserCall

\* Every step is one of the seam (ForeignBus.h:53-76).
LEMMA StepOnSeam ==
  ASSUME OnSeamInv, [Next]_vars
  PROVE  SeamNext
<1>1. CASE ServiceBus
  <2>1. PICK outcomes \in Answers : \E lost \in SUBSET MayBeLost(outcomes),
             readings \in [Slaves -> RegisterValues] : Service(outcomes, lost, readings)
    BY <1>1, PointsAssumption DEF ServiceBus
  <2>2. PICK lost \in SUBSET MayBeLost(outcomes), readings \in [Slaves -> RegisterValues] :
             Service(outcomes, lost, readings)
    BY <2>1
  <2>3. readings = Readings
    BY <2>2, ServiceTells DEF Readings
  <2> QED
    BY <2>2, <2>3 DEF SeamNext
<1>2. CASE ServicePoll \/ \E output \in Outputs, id \in Ids \cup {NoId} : ServiceWriteThrough(output, id)
  BY <1>2, CallKeeps, CallOnSeam
<1>3. CASE Environment \/ UNCHANGED vars
  BY <1>3, OutsideKeeps DEF SeamNext, DevicesChange
<1> QED
  BY <1>1, <1>2, <1>3 DEF Next, Loop

\* Over any driver, the gateway fetches only live ids, each once, and never has two writes
\* of a point in flight (ForeignBus.h:74; main.cpp:406, 445, 460).
THEOREM GatewayKeepsTheSeam == Spec => KeepsTheSeam
<1>1. Init => SeamInit
  BY DEF Init
<1>2. OnSeamInv /\ [Next]_vars => [SeamNext]_seamVars
  BY StepOnSeam
<1> QED
  BY <1>1, <1>2, OnSeamInit, OnSeamStep, PTL DEF Spec, KeepsTheSeam, SeamSpec

----------------------------------------------------------------------------
(* What is believed written is in the device. *)

Holds(slave, output, value) ==
  points[slave][TableOf(output)] = Stored(TableOf(output), ToRegister(output, value))

\* Has the write in flight been answered, and not been fetched yet?
IsDone(slave, output) ==
  /\ RequestOf(slave, output) # NoId
  /\ OutcomeOf(RequestOf(slave, output)) = "Done"

\* A write that is answered is what the device holds, before ServiceWriteThrough has
\* fetched it; until then what was written before still is (main.cpp:431).
InDevice(slave, output) ==
  ~overridden[slave][output] =>
    /\ IsDone(slave, output) => Holds(slave, output, link[slave][output].inFlightValue)
    /\ ~IsDone(slave, output) /\ link[slave][output].written =>
         Holds(slave, output, link[slave][output].lastWrittenValue)

HeldInv == \A slave \in Slaves, output \in Outputs : InDevice(slave, output)

\* What an output's part of the invariant reads is left alone.
LEMMA LeftInDevice ==
  ASSUME NEW slave \in Slaves, NEW output \in Outputs, InDevice(slave, output),
         link'[slave][output].written => link[slave][output].written,
         link'[slave][output].lastWrittenValue = link[slave][output].lastWrittenValue,
         link'[slave][output].inFlightValue = link[slave][output].inFlightValue,
         IsDone(slave, output)' <=> IsDone(slave, output),
         ~overridden'[slave][output] => ~overridden[slave][output],
         points'[slave][TableOf(output)] = points[slave][TableOf(output)]
  PROVE  InDevice(slave, output)'
  BY DEF InDevice, Holds

\* A call of a user leaves the requests of the others as they are.
LEMMA CallLeavesOthers ==
  ASSUME OnSeamInv, NEW slave \in Slaves, NEW user \in Users, UserCall(slave, user),
         NEW other \in Slaves, NEW output \in Outputs, other # slave \/ output # user
  PROVE  IsDone(other, output)' <=> IsDone(other, output)
<1> DEFINE mine == RequestOf(slave, user)
           id == RequestOf(other, output)
<1>1. output \in Users
  BY DEF Users
<1>2. id' = id
  BY <1>1 DEF UserCall
<1>3. ASSUME id # NoId PROVE requests'[id] = requests[id]
  <2>1. id \in DOMAIN requests /\ id # mine
    BY <1>1, <1>3, OneHolder DEF OnSeamInv, Owned
  <2>2. id \in DOMAIN Fetched(mine) /\ Fetched(mine)[id] = requests[id]
    BY <2>1 DEF Fetched
  <2> HIDE DEF mine, id
  <2>3. \A new \in Ids \ DOMAIN Fetched(mine) : \A request :
          Asked(Fetched(mine), new, request)[id] = Fetched(mine)[id]
    BY <2>2 DEF Asked
  <2> QED
    BY <2>2, <2>3 DEF UserCall, mine
<1>4. ASSUME id # NoId PROVE requests'[id'] = requests[id]
  BY <1>2, <1>3, <1>4
<1> QED
  BY <1>2, <1>4 DEF IsDone, OutcomeOf, NoId

\* A Service in which no answer is lost stores the writes that are done and no others
\* (ForeignBus.h:32).
LEMMA ServiceHolds ==
  ASSUME ~LOSES_ANSWERS, OnSeamInv, HeldInv, ServiceBus
  PROVE  HeldInv'
<1>1. PICK outcomes \in Answers, lost \in {{}} :
        /\ \E readings \in [Slaves -> SensorReadings] : Service(outcomes, lost, readings)
        /\ overridden' = [slave \in Slaves |-> [output \in Outputs |->
             /\ overridden[slave][output]
             /\ \A id \in Effective(outcomes, lost) :
                  ~(requests[id].unit = slave /\ requests[id].table = TableOf(output))]]
  BY DEF ServiceBus
<1>2. PICK readings \in [Slaves -> RegisterValues] : Service(outcomes, lost, readings)
  BY <1>1, PointsAssumption
<1>3. lost = {} /\ lost \in SUBSET MayBeLost(outcomes) /\ GatewayTypeOK(Ids) /\ GatewayTimePasses(1)
  BY DEF OnSeamInv, TypeOK, ServiceBus
<1> SUFFICES ASSUME NEW slave \in Slaves, NEW output \in Outputs
             PROVE  InDevice(slave, output)'
  BY DEF HeldInv
<1> DEFINE id == RequestOf(slave, output)
           effective == id \in Effective(outcomes, lost)
           value == link[slave][output].inFlightValue
<1>4. /\ InDevice(slave, output) /\ output \in Users /\ output # "poll"
      /\ TableFor(output) = TableOf(output)
  BY DEF HeldInv, Users, Outputs, TableFor
<1>5. id # NoId =>
        /\ id \in DOMAIN requests /\ requests[id].isWrite
        /\ requests[id].value = ToRegister(output, value)
        /\ requests[id].unit = slave /\ requests[id].table = TableOf(output)
  <2>1. id # NoId => id \in DOMAIN requests /\ AskedBy(slave, output, requests[id])
    BY <1>4 DEF OnSeamInv, Owned
  <2>2. ValueOf(slave, output) = value
    BY <1>4 DEF ValueOf
  <2> HIDE DEF id
  <2> QED
    BY <1>4, <2>1, <2>2 DEF AskedBy
<1>6. /\ link'[slave][output].inFlightValue = value
      /\ link'[slave][output].written = link[slave][output].written
      /\ link'[slave][output].lastWrittenValue = link[slave][output].lastWrittenValue
      /\ id' = id
  <2>1. /\ link'[slave][output].inFlightValue = link[slave][output].inFlightValue
        /\ link'[slave][output].written = link[slave][output].written
        /\ link'[slave][output].lastWrittenValue = link[slave][output].lastWrittenValue
        /\ link'[slave][output].transactionId = link[slave][output].transactionId
    BY <1>3, TimeKeepsLinks
  <2> QED
    BY <1>4, <2>1 DEF RequestOf
<1>7. /\ id # NoId => requests'[id].outcome =
           IF id \in PendingIds THEN outcomes[id] ELSE requests[id].outcome
      /\ points'[slave][TableOf(output)] =
           IF effective THEN Stored(TableOf(output), requests[id].value)
           ELSE points[slave][TableOf(output)]
  BY <1>2, <1>3, <1>5, ServiceTells
<1>8. IsDone(slave, output)' <=> id # NoId /\ requests'[id].outcome = "Done"
  <2>1. requests'[id'] = requests'[id]
    BY <1>6
  <2> QED
    BY <1>6, <2>1 DEF IsDone, OutcomeOf, NoId
<1>9. effective <=> id \in PendingIds /\ requests[id].isWrite /\ outcomes[id] = "Done"
  BY <1>3 DEF Effective
<1>10. NoId \notin PendingIds
  BY IdsAreNotRefusals DEF OnSeamInv, PendingIds
<1> HIDE DEF effective, id
<1>11. CASE effective
  <2>1. IsDone(slave, output)'
    BY <1>7, <1>8, <1>9, <1>10, <1>11
  <2>2. points'[slave][TableOf(output)] = Stored(TableOf(output), ToRegister(output, value))
    BY <1>5, <1>7, <1>9, <1>10, <1>11
  <2> QED
    BY <1>6, <2>1, <2>2 DEF InDevice, Holds
<1>12. CASE ~effective
  <2>1. IsDone(slave, output)' <=> IsDone(slave, output)
    BY <1>5, <1>7, <1>8, <1>9, <1>12 DEF IsDone, OutcomeOf, PendingIds, id
  <2>2. overridden'[slave][output] <=> overridden[slave][output]
    <3>1. \A other \in Effective(outcomes, lost) :
            ~(requests[other].unit = slave /\ requests[other].table = TableOf(output))
      <4>1. Effective(outcomes, lost) \subseteq DOMAIN requests
        BY DEF Effective, PendingIds
      <4> QED
        BY <1>4, <1>12, <4>1, OneRequest DEF effective, id
    <3>2. overridden'[slave][output] <=>
            /\ overridden[slave][output]
            /\ \A other \in Effective(outcomes, lost) :
                 ~(requests[other].unit = slave /\ requests[other].table = TableOf(output))
      BY <1>1
    <3> QED
      BY <3>1, <3>2
  <2> QED
    BY <1>4, <1>6, <1>7, <1>12, <2>1, <2>2, LeftInDevice
<1> QED
  BY <1>11, <1>12

\* A poll writes nothing; an outage makes the gateway write again what is idle
\* (main.cpp:380, 399).
LEMMA PollHolds ==
  ASSUME OnSeamInv, HeldInv, ServicePoll
  PROVE  HeldInv'
<1>1. /\ unit \in Slaves /\ UserCall(unit, "poll")
      /\ GatewayTypeOK(Ids)
  BY PollIsUserCall DEF OnSeamInv, TypeOK
<1> SUFFICES ASSUME NEW slave \in Slaves, NEW output \in Outputs
             PROVE  InDevice(slave, output)'
  BY DEF HeldInv
<1> DEFINE before == link[slave][output]
           after == link'[slave][output]
<1>2. /\ InDevice(slave, output)
      /\ IsDone(slave, output)' <=> IsDone(slave, output)
      /\ points' = points
  <2>1. "poll" \in Users /\ output # "poll"
    BY DEF Users, Outputs
  <2>2. IsDone(slave, output)' <=> IsDone(slave, output)
    BY <1>1, <2>1, CallLeavesOthers
  <2>3. InDevice(slave, output) /\ points' = points
    BY <1>1 DEF HeldInv, UserCall
  <2> QED
    BY <2>2, <2>3
<1>3. CASE link'[slave] = link[slave] /\ overridden'[slave] = overridden[slave]
  BY <1>2, <1>3, LeftInDevice
<1>4. CASE FinishPoll(unit) /\ slave = unit
  <2>1. \/ SlaveWentOffline(slave) /\ online[slave]
        \/ UNCHANGED link /\ (online[slave] => online'[slave])
    BY <1>1, <1>4 DEF FinishPoll, PollFinishes, PollAnswered, PollFailed, DeclareOffline,
                      SlaveCameBack, GatewayTypeOK
  <2>2. overridden'[slave][output] <=>
          /\ overridden[slave][output]
          /\ (online[slave] => online'[slave]) \/ before.transactionId # NoId
    BY <1>4 DEF FinishPoll, OnSeamInv, TypeOK
  <2>3. CASE UNCHANGED link /\ (online[slave] => online'[slave])
    BY <1>2, <2>2, <2>3, LeftInDevice
  <2>4. CASE SlaveWentOffline(slave) /\ online[slave]
    <3>1. after = [before EXCEPT !.written = FALSE] /\ before \in Links(Ids)
          /\ ~online'[slave]
      BY <1>1, <2>4 DEF SlaveWentOffline, Forgotten, GatewayTypeOK
    <3> HIDE DEF before, after
    <3>2. /\ ~after.written /\ after.lastWrittenValue = before.lastWrittenValue
          /\ after.inFlightValue = before.inFlightValue
          /\ after.transactionId = before.transactionId
      BY <3>1 DEF Links
    <3>3. CASE before.transactionId = NoId
      <4>1. ~IsDone(slave, output)
        BY <3>3 DEF IsDone, RequestOf, Outputs, before
      <4> QED
        BY <1>2, <3>2, <4>1 DEF InDevice, after
    <3>4. CASE before.transactionId # NoId
      <4>1. overridden'[slave][output] <=> overridden[slave][output]
        BY <2>2, <3>4
      <4> QED
        BY <1>2, <3>2, <4>1, LeftInDevice DEF before, after
    <3> QED
      BY <3>3, <3>4
  <2> QED
    BY <2>1, <2>3, <2>4
<1>5. CASE ~(FinishPoll(unit) /\ slave = unit)
  <2>1. CASE FinishPoll(unit) /\ slave # unit
    <3>1. SlaveWentOffline(unit) \/ SlaveCameBack(unit) \/ UNCHANGED link
      BY <2>1 DEF FinishPoll, PollFinishes, PollAnswered, PollFailed
    <3>2. link'[slave] = link[slave]
      BY <1>1, <2>1, <3>1 DEF SlaveWentOffline, SlaveCameBack, GatewayTypeOK
    <3>3. overridden'[slave] = overridden[slave]
      BY <1>1, <2>1 DEF FinishPoll, OnSeamInv, TypeOK
    <3> QED
      BY <1>3, <3>2, <3>3
  <2>2. CASE ~FinishPoll(unit)
    BY <1>3, <2>2 DEF ServicePoll, StartPoll, WaitForPoll, PollStarts, PollWaits, gatewayVars
  <2> QED
    BY <1>5, <2>1, <2>2
<1> QED
  BY <1>4, <1>5

\* A write that is fetched is believed written if it is Done, with the value it carried
\* (main.cpp:440).
LEMMA WriteHolds ==
  ASSUME OnSeamInv, HeldInv, NEW output \in Outputs, NEW id \in Ids \cup {NoId},
         WriteOut(unit, output, id)
  PROVE  HeldInv'
<1>1. PICK slave \in Slaves : slave = unit /\ UserCall(slave, output)
  BY WriteIsUserCall
<1> DEFINE before == link[slave][output]
           after == link'[slave][output]
           outcome == OutcomeOf(before.transactionId)
           waits == WriteWaits(slave, output, outcome)
           starts == WriteStarts(slave, output)
           live == Fetched(FinishedWrite(slave, output))
           request == Asking(slave, TableOf(output), TRUE,
                             ToRegister(output, Winning(slave, output)))
           done == before.transactionId # NoId /\ outcome = "Done"
<1>2. /\ id \in IF starts THEN StartAnswers(live) ELSE {NoId}
      /\ WriteThrough(slave, output, outcome, id)
      /\ requests' = Begun(live, id, request)
      /\ points' = points /\ overridden' = overridden
      /\ GatewayTypeOK(Ids) /\ NoId = 0
  BY <1>1 DEF WriteOut, OnSeamInv, TypeOK, NoId
<1>3. /\ \A other \in Slaves, otherOutput \in Outputs :
           other # slave \/ otherOutput # output =>
             link'[other][otherOutput] = link[other][otherOutput]
      /\ waits => after = before
      /\ ~waits => /\ after.transactionId = IF starts THEN id ELSE 0
                   /\ after.written = (done \/ before.written)
                   /\ after.lastWrittenValue =
                        IF done THEN before.inFlightValue ELSE before.lastWrittenValue
  BY <1>2, WriteThroughTells DEF WriteStarts
<1>4. RequestOf(slave, output) = before.transactionId /\ RequestOf(slave, output)' = after.transactionId
      /\ output \in Users
  BY DEF RequestOf, Outputs, Users
<1>5. ASSUME NEW other \in Slaves, NEW otherOutput \in Outputs,
             other # slave \/ otherOutput # output
      PROVE  InDevice(other, otherOutput)'
  <2>1. IsDone(other, otherOutput)' <=> IsDone(other, otherOutput)
    BY <1>1, <1>4, <1>5, CallLeavesOthers
  <2>2. InDevice(other, otherOutput)
    BY DEF HeldInv
  <2> QED
    BY <1>2, <1>3, <1>5, <2>1, <2>2, LeftInDevice
<1>6. InDevice(slave, output) /\ (IsDone(slave, output) <=> done)
  BY <1>4 DEF HeldInv, IsDone
<1>7. waits => outcome = "Pending" /\ before.transactionId # NoId
  BY <1>2 DEF WriteWaits
<1>8. ~IsDone(slave, output)'
  <2>1. CASE waits
    <3>1. id = NoId /\ FinishedWrite(slave, output) = NoId
      BY <1>2, <1>7, <2>1 DEF WriteStarts, FinishedWrite
    <3>2. requests' = requests
      BY <1>2, <3>1, FetchedNothing DEF Begun
    <3>3. requests'[after.transactionId].outcome = "Pending"
      BY <1>3, <1>7, <2>1, <3>2 DEF OutcomeOf
    <3> HIDE DEF after
    <3> QED
      BY <1>4, <3>3 DEF IsDone, OutcomeOf
  <2>2. CASE ~waits /\ after.transactionId = NoId
    <3> HIDE DEF after
    <3> QED
      BY <1>4, <2>2 DEF IsDone, NoId
  <2>3. CASE ~waits /\ after.transactionId # NoId
    <3>1. after.transactionId = id /\ id # NoId
      BY <1>2, <1>3, <2>3
    <3>2. requests'[id].outcome = "Pending"
      <4> HIDE DEF live
      <4> QED
        BY <1>2, <3>1 DEF Begun, Asked, Asking
    <3>3. requests'[after.transactionId].outcome = "Pending"
      BY <3>1, <3>2
    <3> HIDE DEF after
    <3> QED
      BY <1>4, <3>3 DEF IsDone, OutcomeOf
  <2> QED
    BY <2>1, <2>2, <2>3
<1>9. InDevice(slave, output)'
  <2> HIDE DEF before, after, waits, done
  <2>1. after.written /\ ~overridden[slave][output] => Holds(slave, output, after.lastWrittenValue)
    <3>1. CASE done
      <4>1. ~waits
        BY <1>7, <3>1 DEF done
      <4> QED
        BY <1>3, <1>6, <3>1, <4>1 DEF InDevice, before
    <3>2. CASE ~done
      BY <1>3, <1>6, <3>2 DEF InDevice, before
    <3> QED
      BY <3>1, <3>2
  <2>2. Holds(slave, output, after.lastWrittenValue) =>
          Holds(slave, output, link[slave][output].lastWrittenValue)'
    BY <1>2 DEF Holds, after
  <2> QED
    BY <1>2, <1>8, <2>1, <2>2 DEF InDevice, after
<1> QED
  BY <1>5, <1>9 DEF HeldInv

\* A change at a device is one the gateway will write over, or it counts as made there.
LEMMA OutsideHolds ==
  ASSUME OnSeamInv, HeldInv, Environment \/ UNCHANGED vars
  PROVE  HeldInv'
<1>1. requests' = requests /\ link' = link
  BY OutsideKeeps
<1> SUFFICES ASSUME NEW slave \in Slaves, NEW output \in Outputs
             PROVE  InDevice(slave, output)'
  BY DEF HeldInv
<1>2. InDevice(slave, output) /\ (IsDone(slave, output)' <=> IsDone(slave, output))
  BY <1>1 DEF HeldInv, IsDone, RequestOf, OutcomeOf, NoId, Outputs
<1>3. CASE points'[slave][TableOf(output)] = points[slave][TableOf(output)]
             /\ (~overridden'[slave][output] => ~overridden[slave][output])
  BY <1>1, <1>2, <1>3, LeftInDevice
<1>4. CASE PointChanges
  <2>1. PICK change \in LocalChanges :
          /\ points' = [points EXCEPT ![change.slave][TableOf(change.output)] = change.value]
          /\ overridden' = [overridden EXCEPT ![change.slave][change.output] =
                              \/ overridden[change.slave][change.output]
                              \/ online[change.slave]
                              \/ link[change.slave][change.output].written
                              \/ link[change.slave][change.output].transactionId # NoId]
    BY <1>4 DEF PointChanges
  <2>2. /\ change.slave \in Slaves /\ change.output \in Outputs
        /\ overridden \in [Slaves -> [Outputs -> BOOLEAN]]
        /\ points \in [Slaves -> [Tables -> RegisterValues]]
    BY PointsAssumption DEF OnSeamInv, TypeOK, SeamTypeOK
  <2>3. CASE slave = change.slave /\ output = change.output
    <3> DEFINE flag == \/ overridden[change.slave][change.output]
                       \/ online[change.slave]
                       \/ link[change.slave][change.output].written
                       \/ link[change.slave][change.output].transactionId # NoId
    <3>1. overridden' = [overridden EXCEPT ![change.slave][change.output] = flag]
      BY <2>1
    <3> HIDE DEF flag
    <3>2. overridden'[slave][output] = flag
      BY <2>2, <2>3, <3>1
    <3>3. flag \/ (~link[slave][output].written /\ link[slave][output].transactionId = NoId)
      BY <2>3 DEF flag
    <3>4. CASE flag
      BY <3>2, <3>4 DEF InDevice
    <3>5. CASE ~link[slave][output].written /\ link[slave][output].transactionId = NoId
      <4>1. ~IsDone(slave, output)
        BY <3>5 DEF IsDone, RequestOf, Outputs
      <4> QED
        BY <1>1, <1>2, <3>5, <4>1 DEF InDevice
    <3> QED
      BY <3>3, <3>4, <3>5
  <2>4. CASE slave # change.slave \/ output # change.output
    <3>1. slave # change.slave \/ TableOf(output) # TableOf(change.output)
      BY <2>2, <2>4 DEF TableOf, Outputs
    <3>2. points'[slave][TableOf(output)] = points[slave][TableOf(output)]
      BY <2>1, <2>2, <3>1
    <3>3. overridden'[slave][output] = overridden[slave][output]
      <4> DEFINE flag == \/ overridden[change.slave][change.output]
                         \/ online[change.slave]
                         \/ link[change.slave][change.output].written
                         \/ link[change.slave][change.output].transactionId # NoId
      <4>1. overridden' = [overridden EXCEPT ![change.slave][change.output] = flag]
        BY <2>1
      <4> HIDE DEF flag
      <4> QED
        BY <2>2, <2>4, <4>1
    <3> QED
      BY <1>3, <3>2, <3>3
  <2> QED
    BY <2>3, <2>4
<1>5. CASE UNCHANGED <<points, overridden>>
  BY <1>3, <1>5
<1> QED
  BY <1>4, <1>5 DEF Environment, ClientWrites, ClientRelinquishes, CableChanges, vars

\* Over a driver that loses no answer of a write, an output that is written and idle is in
\* the device, unless somebody changed it there since (main.cpp:207, 380, 440).
THEOREM WrittenIsHeld ==
  ASSUME ~LOSES_ANSWERS
  PROVE  Spec => []WrittenMeansHeld
<1>1. Init => HeldInv
  <2> SUFFICES ASSUME Init PROVE HeldInv
    OBVIOUS
  <2>1. ASSUME NEW slave \in Slaves, NEW output \in Outputs
        PROVE  ~link[slave][output].written /\ link[slave][output].transactionId = NoId
    BY DEF Init, GatewayInit, UnwrittenLink, NoId
  <2> QED
    BY <2>1 DEF HeldInv, InDevice, IsDone, RequestOf, Outputs
<1>2. OnSeamInv /\ HeldInv /\ [Next]_vars => HeldInv'
  BY ServiceHolds, PollHolds, WriteHolds, OutsideHolds DEF Next, Loop, ServiceWriteThrough
<1>3. HeldInv => WrittenMeansHeld
  <2>1. ASSUME HeldInv, NEW slave \in Slaves, NEW output \in Outputs,
               link[slave][output].written, link[slave][output].transactionId = NoId,
               ~overridden[slave][output]
        PROVE  Holds(slave, output, link[slave][output].lastWrittenValue)
    BY <2>1 DEF HeldInv, InDevice, IsDone, RequestOf, Outputs
  <2> QED
    BY <2>1 DEF WrittenMeansHeld, Holds
<1> QED
  BY <1>1, <1>2, <1>3, OnSeamInit, OnSeamStep, PTL DEF Spec
=============================================================================
