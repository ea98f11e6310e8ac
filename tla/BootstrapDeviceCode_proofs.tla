--------------------- MODULE BootstrapDeviceCode_proofs ---------------------
(* Proofs about BootstrapDeviceCode, for any sets of codes, sign-ins and   *)
(* overlapping polls.                                                      *)
EXTENDS BootstrapDeviceCode, TLAPS

(* The types of the items at hand: an approved item holds a session, and a *)
(* running invocation has the arguments it needs.                          *)
Shape ==
    /\ \A d \in Codes : item[d].status = "approved" => item[d].session \in SignIns
    /\ \A d \in Codes : replica[d].status = "approved" => replica[d].session \in SignIns
    /\ \A s \in SignIns : cb[s] # "unused" => state[s] \in UserCodes
    /\ \A s \in SignIns : cb[s] = "update" => hit[s] \in Codes
    /\ \A q \in Polls : poll[q] # "idle" => code[q] \in Codes
    /\ \A q \in Polls : poll[q] = "consume" => tokens[q] \in SignIns

(* What the updates make of an item.                                       *)
LEMMA ItemShapes ==
    /\ Absent \in Items
    /\ Absent.status # "approved"
    /\ [status |-> "pending", session |-> None, whole |-> TRUE] \in Items
    /\ [status |-> "pending", session |-> None, whole |-> TRUE].status # "approved"
    /\ \A i \in Items : Consumed(i) \in Items /\ Consumed(i).status # "approved"
    /\ \A i \in Items, s \in SignIns :
        LET j == [status |-> "approved", session |-> s, whole |-> i.whole]
        IN  j \in Items /\ j.session = s
    /\ \A i \in Items : i.session \in SignIns \cup {None}
BY DEF Items, Absent, Consumed

(* Type correctness: every item stays well formed, whatever is updated or  *)
(* deleted under a running invocation.                                     *)
THEOREM DeviceCodeTypes == Spec => [](TypeOK /\ Shape)
<1>1. Init => TypeOK /\ Shape
  BY DEF Init, TypeOK, Shape, Items, Absent
<1>2. TypeOK /\ Shape /\ [Next]_vars => (TypeOK /\ Shape)'
  <2> SUFFICES ASSUME TypeOK, Shape, [Next]_vars
               PROVE  (TypeOK /\ Shape)'
    OBVIOUS
  <2> USE NoneAssumption, ItemShapes DEF TypeOK, Shape, table, callbacks, polls, history
  <2>1. ASSUME NEW d \in Codes, NEW u \in UserCodes, HandleDeviceCode(d, u)
        PROVE  (TypeOK /\ Shape)'
    <3>1. TypeOK'
      BY <2>1 DEF HandleDeviceCode
    <3>2. Shape'
      BY <2>1 DEF HandleDeviceCode
    <3> QED BY <3>1, <3>2
  <2>2. ASSUME NEW s \in SignIns, NEW u \in UserCodes, HandleVerify(s, u)
        PROVE  (TypeOK /\ Shape)'
    BY <2>2 DEF HandleVerify
  <2>3. ASSUME NEW s \in SignIns, ExchangeCode(s)
        PROVE  (TypeOK /\ Shape)'
    BY <2>3 DEF ExchangeCode
  <2>4. ASSUME NEW s \in SignIns, FindDevice(s)
        PROVE  (TypeOK /\ Shape)'
    <3>1. cb' \in [SignIns -> {"unused", "exchange", "query", "update", "done"}]
      BY <2>4 DEF FindDevice
    <3>2. hit' \in [SignIns -> Codes \cup {None}]
      BY <2>4 DEF FindDevice, Indexed
    <3>3. UNCHANGED <<table, user, state, polls, history>>
      BY <2>4 DEF FindDevice
    <3>4. TypeOK'
      BY <3>1, <3>2, <3>3
    <3>5. Shape'
      BY <2>4 DEF FindDevice, Indexed
    <3> QED BY <3>4, <3>5
  <2>5. ASSUME NEW s \in SignIns, Approve(s)
        PROVE  (TypeOK /\ Shape)'
    <3>1. TypeOK'
      BY <2>5 DEF Approve
    <3>2. Shape'
      BY <2>5 DEF Approve
    <3> QED BY <3>1, <3>2
  <2>6. ASSUME NEW q \in Polls, NEW d \in Codes, StartPoll(q, d)
        PROVE  (TypeOK /\ Shape)'
    BY <2>6 DEF StartPoll
  <2>7. ASSUME NEW q \in Polls, ReadItem(q)
        PROVE  (TypeOK /\ Shape)'
    <3>1. PICK i \in {item[code[q]], replica[code[q]]} :
            \/ /\ i.status = "approved"
               /\ poll' = [poll EXCEPT ![q] = "consume"]
               /\ tokens' = [tokens EXCEPT ![q] = i.session]
               /\ UNCHANGED code
            \/ i.status # "approved" /\ EndPoll(q)
      BY <2>7 DEF ReadItem
    <3>2. UNCHANGED <<table, user, callbacks, history>>
      BY <2>7 DEF ReadItem
    <3>3. i.status = "approved" => i.session \in SignIns
      BY <2>7 DEF ReadItem
    <3>4. poll[q] = "read" /\ code[q] \in Codes
      BY <2>7 DEF ReadItem
    <3>5. CASE i.status = "approved"
      <4>1. TypeOK'
        BY <3>1, <3>2, <3>3, <3>5
      <4>2. Shape'
        BY <3>1, <3>2, <3>3, <3>4, <3>5
      <4> QED BY <4>1, <4>2
    <3>6. CASE i.status # "approved"
      <4>1. TypeOK'
        BY <3>1, <3>2, <3>6 DEF EndPoll
      <4>2. Shape'
        BY <3>1, <3>2, <3>6 DEF EndPoll
      <4> QED BY <4>1, <4>2
    <3> QED BY <3>5, <3>6
  <2>8. ASSUME NEW q \in Polls, Consume(q)
        PROVE  (TypeOK /\ Shape)'
    <3>1. code[q] \in Codes /\ tokens[q] \in SignIns /\ item[code[q]] \in Items
      BY <2>8 DEF Consume
    <3>2. TypeOK'
      <4>1. item' \in [Codes -> Items] /\ issues' \in [Codes -> Nat]
        <5>1. \/ item' = [item EXCEPT ![code[q]] = Consumed(item[code[q]])]
              \/ item' = item
          BY <2>8 DEF Consume
        <5>2. \/ issues' = [issues EXCEPT ![code[q]] = issues[code[q]] + 1]
              \/ issues' = issues
          BY <2>8 DEF Consume
        <5>4. item' \in [Codes -> Items]
          BY <3>1, <5>1
        <5>5. issues' \in [Codes -> Nat]
          BY <5>2
        <5> QED BY <5>4, <5>5
      <4>2. poll' \in [Polls -> {"idle", "read", "consume"}]
            /\ code' \in [Polls -> Codes \cup {None}]
            /\ tokens' \in [Polls -> SignIns \cup {None}]
        BY <2>8 DEF Consume, EndPoll
      <4>3. UNCHANGED <<replica, index, lapsed, user, callbacks, approvals>>
        BY <2>8 DEF Consume
      <4> QED BY <4>1, <4>2, <4>3
    <3>3. Shape'
      <4>1. \A d \in Codes : item'[d].status = "approved" => item'[d].session \in SignIns
        <5>1. \/ item' = [item EXCEPT ![code[q]] = Consumed(item[code[q]])]
              \/ item' = item
          BY <2>8 DEF Consume
        <5> QED BY <3>1, <5>1
      <4>2. UNCHANGED <<replica, index, lapsed, user, callbacks, approvals>>
        BY <2>8 DEF Consume
      <4>3. /\ \A r \in Polls : poll'[r] # "idle" => code'[r] \in Codes
            /\ \A r \in Polls : poll'[r] = "consume" => tokens'[r] \in SignIns
        BY <2>8 DEF Consume, EndPoll
      <4> QED BY <4>1, <4>2, <4>3
    <3> QED BY <3>2, <3>3
  <2>9. ASSUME NEW d \in Codes, Replicate(d) \/ IndexCatchesUp(d) \/ Lapse(d) \/ DeleteExpired(d)
        PROVE  (TypeOK /\ Shape)'
    <3>1. CASE Replicate(d)
      <4>1. TypeOK'
        BY <3>1 DEF Replicate
      <4>2. Shape'
        BY <3>1 DEF Replicate
      <4> QED BY <4>1, <4>2
    <3>2. CASE IndexCatchesUp(d)
      BY <3>2 DEF IndexCatchesUp
    <3>3. CASE Lapse(d)
      BY <3>3 DEF Lapse
    <3>4. CASE DeleteExpired(d)
      BY <3>4 DEF DeleteExpired
    <3> QED BY <2>9, <3>1, <3>2, <3>3, <3>4
  <2>10. CASE UNCHANGED vars
    BY <2>10 DEF vars
  <2> HIDE DEF TypeOK, Shape
  <2> QED
    BY <2>1, <2>2, <2>3, <2>4, <2>5, <2>6, <2>7, <2>8, <2>9, <2>10 DEF Next
<1> QED
  BY <1>1, <1>2, PTL DEF Spec

(* An approved item is worth one more answer.                              *)
Covered ==
    \A d \in Codes :
        /\ issues[d] <= approvals[d]
        /\ item[d].status = "approved" => issues[d] + 1 <= approvals[d]

(* No interleaving of polls, replicas, deletions and callbacks takes more  *)
(* tokens out of a device code than sign-ins put in.                       *)
THEOREM IssuesAlwaysCovered == Spec => []IssuesCovered
<1>1. Init => Covered
  <2> SUFFICES ASSUME Init, NEW d \in Codes
               PROVE  issues[d] <= approvals[d] /\ item[d].status # "approved"
    BY DEF Covered
  <2>1. issues[d] = 0 /\ approvals[d] = 0 /\ item[d] = Absent
    BY DEF Init
  <2> QED BY <2>1, ItemShapes
<1>2. TypeOK /\ Shape /\ Covered /\ [Next]_vars => Covered'
  <2> SUFFICES ASSUME TypeOK, Shape, Covered, [Next]_vars
               PROVE  Covered'
    OBVIOUS
  <2> USE ItemShapes DEF TypeOK, Shape, Covered, table, callbacks, polls, history
  <2>1. ASSUME NEW s \in SignIns, Approve(s)
        PROVE  Covered'
    BY <2>1 DEF Approve
  <2>2. ASSUME NEW q \in Polls, Consume(q)
        PROVE  Covered'
    <3>1. code[q] \in Codes
      BY <2>2 DEF Consume
    <3>2. CASE UNCHANGED <<item, issues>>
      BY <2>2, <3>2 DEF Consume
    <3>3. ASSUME item[code[q]].status = "approved",
                 item' = [item EXCEPT ![code[q]] = Consumed(item[code[q]])],
                 \/ issues' = [issues EXCEPT ![code[q]] = issues[code[q]] + 1]
                 \/ issues' = issues
          PROVE  Covered'
      BY <2>2, <3>1, <3>3 DEF Consume
    <3> QED BY <2>2, <3>2, <3>3 DEF Consume
  <2>3. ASSUME NEW d \in Codes, DeleteExpired(d)
        PROVE  Covered'
    BY <2>3 DEF DeleteExpired
  <2>4. ASSUME NEW d \in Codes, NEW u \in UserCodes, HandleDeviceCode(d, u)
        PROVE  Covered'
    BY <2>4 DEF HandleDeviceCode
  <2>5. CASE UNCHANGED <<item, issues, approvals>>
    BY <2>5
  <2>6. ASSUME NEW s \in SignIns, ExchangeCode(s) \/ FindDevice(s)
        PROVE  UNCHANGED <<item, issues, approvals>>
    BY <2>6 DEF ExchangeCode, FindDevice
  <2>7. ASSUME NEW s \in SignIns, NEW u \in UserCodes, HandleVerify(s, u)
        PROVE  UNCHANGED <<item, issues, approvals>>
    BY <2>7 DEF HandleVerify
  <2>8. ASSUME NEW q \in Polls, ReadItem(q) \/ (\E d \in Codes : StartPoll(q, d))
        PROVE  UNCHANGED <<item, issues, approvals>>
    BY <2>8 DEF ReadItem, StartPoll
  <2>9. ASSUME NEW d \in Codes, Replicate(d) \/ IndexCatchesUp(d) \/ Lapse(d)
        PROVE  UNCHANGED <<item, issues, approvals>>
    BY <2>9 DEF Replicate, IndexCatchesUp, Lapse
  <2>10. CASE UNCHANGED vars
    BY <2>10 DEF vars
  <2> HIDE DEF Shape, TypeOK, Covered
  <2> QED
    BY <2>1, <2>2, <2>3, <2>4, <2>5, <2>6, <2>7, <2>8, <2>9, <2>10 DEF Next
<1>3. TypeOK /\ Covered => IssuesCovered
  BY DEF TypeOK, Covered, IssuesCovered
<1> QED
  BY <1>1, <1>2, <1>3, DeviceCodeTypes, PTL DEF Spec

(* Every sign-in referred to is one whose callback is over, so its user    *)
(* code no longer changes, and it is the user code of the device code that *)
(* refers to it.                                                           *)
Belongs(s, d) == cb[s] = "done" /\ state[s] = user[d]

Traced ==
    /\ \A d \in Codes : item[d].session # None => Belongs(item[d].session, d)
    /\ \A d \in Codes : replica[d].session # None => Belongs(replica[d].session, d)
    /\ \A s \in SignIns : cb[s] = "update" => state[s] = user[hit[s]]
    /\ \A s \in SignIns : cb[s] = "done" => state[s] \in UserCodes
    /\ \A q \in Polls : poll[q] # "idle" => user[code[q]] # None
    /\ \A q \in Polls : tokens[q] # None => poll[q] = "consume" /\ Belongs(tokens[q], code[q])

(* The tokens an answer can carry for a device code come from a sign-in    *)
(* started from the user code handed out with it.                          *)
THEOREM OwnSignInOnly == Spec => []OwnSignIn
<1>1. Init => Traced
  BY NoneAssumption DEF Init, Traced, Absent
<1>2. TypeOK /\ Shape /\ Traced /\ [Next]_vars => Traced'
  <2> SUFFICES ASSUME TypeOK, Shape, Traced, [Next]_vars
               PROVE  Traced'
    OBVIOUS
  <2> USE NoneAssumption, ItemShapes DEF TypeOK, Shape, Traced, Belongs, table, callbacks, polls, history
  <2>1. ASSUME NEW d \in Codes, NEW u \in UserCodes, HandleDeviceCode(d, u)
        PROVE  Traced'
    BY <2>1 DEF HandleDeviceCode
  <2>2. ASSUME NEW s \in SignIns, NEW u \in UserCodes, HandleVerify(s, u)
        PROVE  Traced'
    BY <2>2 DEF HandleVerify
  <2>3. ASSUME NEW s \in SignIns, ExchangeCode(s)
        PROVE  Traced'
    BY <2>3 DEF ExchangeCode
  <2>4. ASSUME NEW s \in SignIns, FindDevice(s)
        PROVE  Traced'
    BY <2>4 DEF FindDevice, Indexed
  <2>5. ASSUME NEW s \in SignIns, Approve(s)
        PROVE  Traced'
    BY <2>5 DEF Approve
  <2>6. ASSUME NEW q \in Polls, NEW d \in Codes, StartPoll(q, d)
        PROVE  Traced'
    BY <2>6 DEF StartPoll
  <2>7. ASSUME NEW q \in Polls, ReadItem(q)
        PROVE  Traced'
    <3>1. PICK i \in {item[code[q]], replica[code[q]]} :
            \/ /\ i.status = "approved"
               /\ poll' = [poll EXCEPT ![q] = "consume"]
               /\ tokens' = [tokens EXCEPT ![q] = i.session]
               /\ UNCHANGED code
            \/ i.status # "approved" /\ EndPoll(q)
      BY <2>7 DEF ReadItem
    <3>2. UNCHANGED <<table, user, callbacks, history>> /\ code[q] \in Codes /\ poll[q] = "read"
      BY <2>7 DEF ReadItem
    <3>3. i.session # None => Belongs(i.session, code[q])
      BY <3>2
    <3>4. CASE i.status = "approved"
      BY <3>1, <3>2, <3>3, <3>4
    <3>5. CASE i.status # "approved"
      <4>1. \A o \in Polls : o # q =>
              poll'[o] = poll[o] /\ code'[o] = code[o] /\ tokens'[o] = tokens[o]
        BY <3>1, <3>5 DEF EndPoll
      <4>2. poll'[q] = "idle" /\ tokens'[q] = None
        BY <3>1, <3>5 DEF EndPoll
      <4> QED BY <3>2, <4>1, <4>2
    <3> QED BY <3>4, <3>5
  <2>8. ASSUME NEW q \in Polls, Consume(q)
        PROVE  Traced'
    <3>1. code[q] \in Codes /\ item[code[q]] \in Items /\ Consumed(item[code[q]]).session = item[code[q]].session
      BY <2>8 DEF Consume, Consumed
    <3>2. UNCHANGED <<replica, user, callbacks>>
      BY <2>8 DEF Consume
    <3>3. \A d \in Codes : item'[d].session = item[d].session
      <4>1. \/ item' = [item EXCEPT ![code[q]] = Consumed(item[code[q]])]
            \/ item' = item
        BY <2>8 DEF Consume
      <4> QED BY <3>1, <4>1
    <3> QED BY <2>8, <3>2, <3>3 DEF Consume, EndPoll
  <2>9. ASSUME NEW d \in Codes, Replicate(d) \/ IndexCatchesUp(d) \/ Lapse(d) \/ DeleteExpired(d)
        PROVE  Traced'
    <3>1. Absent.session = None
      BY DEF Absent
    <3>2. CASE Replicate(d)
      BY <3>2 DEF Replicate
    <3>3. CASE IndexCatchesUp(d) \/ Lapse(d)
      BY <3>3 DEF IndexCatchesUp, Lapse
    <3>4. CASE DeleteExpired(d)
      BY <3>1, <3>4 DEF DeleteExpired
    <3> QED BY <2>9, <3>2, <3>3, <3>4
  <2>10. CASE UNCHANGED vars
    BY <2>10 DEF vars
  <2> HIDE DEF TypeOK, Shape, Traced
  <2> QED
    BY <2>1, <2>2, <2>3, <2>4, <2>5, <2>6, <2>7, <2>8, <2>9, <2>10 DEF Next
<1>3. Traced => OwnSignIn
  BY DEF Traced, Belongs, OwnSignIn
<1> QED
  BY <1>1, <1>2, <1>3, DeviceCodeTypes, PTL DEF Spec
=============================================================================
