--------------------------- MODULE LLMPoolProofs ---------------------------
(***************************************************************************)
(* Proofs about LLMPool, for any number of clients and endpoints and any    *)
(* limits:                                                                  *)
(*   - TypeCorrect: the type invariant;                                     *)
(*   - RequestsAreBounded: how many requests a chat sends;                  *)
(*   - PausesAreJustified: only exhausted accounts disable endpoints and    *)
(*     pause the run;                                                       *)
(*   - FailuresAreThorough: a chat that gives up has tried them all.        *)
(***************************************************************************)
EXTENDS LLMPool, FiniteSetTheorems, WellFoundedInduction, TLAPS

\* The order of the natural numbers as a relation.
Before == OpToRel(<, Nat)

\* A set of natural numbers has a least one.
LEMMA LeastOfNat ==
    ASSUME NEW K \in SUBSET Nat, K # {}
    PROVE  \E k \in K : \A j \in K : k <= j
<1>1. IsWellFoundedOn(Before, Nat)
  BY NatLessThanWellFounded DEF Before
<1>2. PICK k \in K : \A j \in K : <<j, k>> \notin Before
  BY <1>1, WFMin
<1>3. Before = {ss \in Nat \X Nat : ss[1] < ss[2]}
  BY Zenon DEF Before, OpToRel
<1>4. ASSUME NEW j \in K
      PROVE  k <= j
  <2>1. k \in Nat /\ j \in Nat
    OBVIOUS
  <2>2. <<j, k>> \in Nat \X Nat /\ <<j, k>>[1] = j /\ <<j, k>>[2] = k
    BY <2>1
  <2>3. ~ (j < k)
    BY <1>2, <1>3, <2>2, Zenon
  <2> QED
    BY <2>1, <2>3
<1> QED
  BY <1>4

\* Going round the pool from the index finds an endpoint of any non-empty set.
LEMMA FirstOfMember ==
    ASSUME index \in Endpoints, NEW S \in SUBSET Endpoints, S # {}
    PROVE  FirstOf(S) \in S
<1> DEFINE K == {k \in Endpoints : FromIndex(k) \in S}
<1>1. K # {}
  <2>1. PICK e \in S : TRUE
    OBVIOUS
  <2>2. Size \in Nat \ {0} /\ index \in 0 .. Size - 1 /\ e \in 0 .. Size - 1
    BY ClientAssumption DEF Endpoints
  <2> DEFINE k == IF e >= index THEN e - index ELSE e - index + Size
  <2>3. k \in Endpoints /\ (index + k = e \/ index + k = e + Size)
    BY <2>2 DEF Endpoints
  <2>4. FromIndex(k) = e
    <3>1. e % Size = e /\ (e + Size) % Size = e
      BY <2>2
    <3> QED
      BY <2>3, <3>1 DEF FromIndex
  <2> QED
    BY <2>3, <2>4
<1>2. K \in SUBSET Nat
  BY ClientAssumption DEF Endpoints
<1>3. PICK k \in K : \A j \in K : k <= j
  BY <1>1, <1>2, LeastOfNat
<1>4. \A j \in 0 .. k - 1 : FromIndex(j) \notin S
  BY <1>2, <1>3, ClientAssumption DEF Endpoints
<1> QED
  BY <1>3, <1>4 DEF FirstOf

\* Whatever endpoints a chat has tried, the pool gives it one that is left.
LEMMA PickMember ==
    ASSUME TypeOK, Available # {}, NEW exclude
    PROVE  Pick(exclude) \in Available
<1>1. index \in Endpoints /\ Available \in SUBSET Endpoints
  BY DEF TypeOK, Available
<1> QED
  BY <1>1, FirstOfMember DEF Pick

LEMMA AdvanceType == TypeOK /\ Advance => index' \in Endpoints
<1> SUFFICES ASSUME TypeOK, Advance
             PROVE  index' \in Endpoints
  OBVIOUS
<1>1. index + 1 \in Nat /\ Size \in Nat \ {0}
  BY ClientAssumption DEF TypeOK, Endpoints
<1>2. (index + 1) % Size \in 0 .. Size - 1
  BY <1>1
<1> QED
  BY <1>2 DEF Advance, Endpoints

-----------------------------------------------------------------------------
\* How attempts are counted: the limit is raised only by giving up
\* stream_options, and an attempt under way is below it unless transient trouble
\* is waited out.
Counted(c) ==
    /\ chat[c].attempt <= chat[c].limit
    /\ chat[c].usage => chat[c].limit = Limit
    /\ ~chat[c].patient =>
          /\ chat[c].limit <= Limit + 1
          /\ pc[c] \in {"checking", "sent", "retrying"} => chat[c].attempt < chat[c].limit

CountInv == TypeOK /\ \A c \in Clients : Counted(c)

ChatType == [attempt : 0 .. Limit + 2, limit : Limit .. Limit + 2,
             attempted : SUBSET Endpoints, budget : 0 .. Doublings,
             usage : BOOLEAN, patient : BOOLEAN, error : Errors]

\* The helpers of the actions.  A chat as it begins.
LEMMA FreshChat ==
    ASSUME TypeOK, NEW c \in Clients, NEW e \in Endpoints, NEW patient \in Patience
    PROVE  /\ FirstAttempt(c, e, patient) \in ChatType
           /\ FirstAttempt(c, e, patient).attempt = 0
           /\ FirstAttempt(c, e, patient).limit = Limit
           /\ FirstAttempt(c, e, patient).error = "none"
<1>1. /\ Limit \in Nat \ {0} /\ Doublings \in Nat /\ Streams \in BOOLEAN
      /\ patient \in BOOLEAN
  BY ClientAssumption
<1>2. (Streams /\ e \notin unsupported[c]) \in BOOLEAN
  BY <1>1
<1>3. NoChat \in ChatType
  BY <1>1 DEF NoChat, ChatType, Errors
<1>4. FirstAttempt(c, e, patient) \in ChatType
  BY <1>1, <1>2, <1>3 DEF FirstAttempt, ChatType
<1> QED
  BY <1>1, <1>4 DEF FirstAttempt, NoChat

\* A chat that begins, a request that is sent, a bad answer and an end.
LEMMA BeginsType ==
    ASSUME TypeOK, NEW c \in Clients, NEW e \in Endpoints, Begins(c, e)
    PROVE  /\ pc' \in [Clients -> Steps] /\ chat' \in [Clients -> ChatType]
           /\ result' \in [Clients -> Results]
<1>1. PICK patient \in Patience : chat' = [chat EXCEPT ![c] = FirstAttempt(c, e, patient)]
  BY DEF Begins
<1>2. chat \in [Clients -> ChatType]
  BY DEF TypeOK, ChatType
<1>3. chat' \in [Clients -> ChatType]
  BY <1>1, <1>2, FreshChat
<1> QED
  BY <1>3 DEF Begins, Goto, TypeOK, Steps, Results

LEMMA SendType ==
    ASSUME TypeOK, NEW c \in Clients, NEW e \in Endpoints, Send(c, e)
    PROVE  /\ pc' \in [Clients -> Steps] /\ chat' \in [Clients -> ChatType]
           /\ cur' \in [Clients -> Endpoints]
  BY DEF Send, Goto, Use, TypeOK, ChatType, Steps

LEMMA ErrsType ==
    ASSUME TypeOK, NEW c \in Clients, NEW error \in Errors, Errs(c, error)
    PROVE  pc' \in [Clients -> Steps] /\ chat' \in [Clients -> ChatType]
  BY DEF Errs, Goto, TypeOK, ChatType, Steps

LEMMA EndsType ==
    ASSUME TypeOK, NEW c \in Clients, NEW how \in Results, Ends(c, how)
    PROVE  pc' \in [Clients -> Steps] /\ result' \in [Clients -> Results]
  BY DEF Ends, Goto, TypeOK, Steps

\* The variables of the process and of the service.
PoolType ==
    /\ index \in Endpoints /\ disabled \subseteq Endpoints
    /\ unsupported \in [Clients -> SUBSET Endpoints]
    /\ exhausted \subseteq Endpoints /\ troubles \in 0 .. MaxTroubles

\* Those of the clients.
ClientType ==
    /\ cur \in [Clients -> Endpoints] /\ pc \in [Clients -> Steps]
    /\ chat \in [Clients -> ChatType] /\ result \in [Clients -> Results]

LEMMA TypeParts == TypeOK <=> PoolType /\ ClientType
  BY DEF TypeOK, PoolType, ClientType, ChatType

LEMMA PoolStep == TypeOK /\ [Next]_vars => PoolType'
<1> SUFFICES ASSUME TypeOK, [Next]_vars
             PROVE  PoolType'
  OBVIOUS
<1>a. index' \in Endpoints \/ (index' # index /\ ~Advance)
  BY AdvanceType DEF TypeOK
<1>b. MaxTroubles \in Nat
  BY ClientAssumption
<1> USE <1>a, <1>b DEF PoolType, TypeOK, process, client, service, Trouble
<1>1. ASSUME NEW c \in Clients, Connect(c)
      PROVE  PoolType'
  BY <1>1 DEF Connect
<1>2. ASSUME NEW c \in Clients, Ask(c)
      PROVE  PoolType'
  BY <1>2 DEF Ask
<1>3. ASSUME NEW c \in Clients, Check(c)
      PROVE  PoolType'
  BY <1>3 DEF Check
<1>4. ASSUME NEW c \in Clients, Answer(c)
      PROVE  PoolType'
  BY <1>4 DEF Answer
<1>5. ASSUME NEW c \in Clients, Truncate(c)
      PROVE  PoolType'
  BY <1>5 DEF Truncate
<1>6. ASSUME NEW c \in Clients, Exhaust(c)
      PROVE  PoolType'
  BY <1>6 DEF Exhaust
<1>7. ASSUME NEW c \in Clients, Reject(c)
      PROVE  PoolType'
  BY <1>7 DEF Reject
<1>8. ASSUME NEW c \in Clients, RejectOption(c)
      PROVE  PoolType'
  BY <1>8 DEF RejectOption
<1>9. ASSUME NEW c \in Clients, Retry(c)
      PROVE  PoolType'
  BY <1>9 DEF Retry
<1>10. ASSUME NEW c \in Clients, GiveUp(c)
      PROVE  PoolType'
  BY <1>10 DEF GiveUp
<1>11. ASSUME NEW c \in Clients, NEW e \in {"transient", "other"}, Fail(c, e)
      PROVE  PoolType'
  BY <1>11 DEF Fail
<1>12. CASE RunOut
  BY <1>12 DEF RunOut
<1>13. CASE UNCHANGED vars
  BY <1>13 DEF vars
<1> QED
  BY <1>1, <1>2, <1>3, <1>4, <1>5, <1>6, <1>7, <1>8, <1>9, <1>10, <1>11, <1>12, <1>13 DEF Next, Proceed, Reply, Upset

LEMMA ClientStep == CountInv /\ [Next]_vars => ClientType'
<1> SUFFICES ASSUME CountInv, [Next]_vars
             PROVE  ClientType'
  OBVIOUS
<1>a. /\ TypeOK /\ \A c \in Clients : Counted(c)
      /\ Available \subseteq Endpoints
      /\ Available # {} => \A S : Pick(S) \in Available
      /\ Limit \in Nat \ {0} /\ Doublings \in Nat
  BY PickMember, ClientAssumption DEF CountInv, Available
<1> USE <1>a DEF ClientType, TypeOK, process, client, service
<1>1. ASSUME NEW c \in Clients, Connect(c)
      PROVE  ClientType'
  <2>1. CASE Available # {}
    <3>1. Use(c, Pick({})) /\ Goto(c, "idle") /\ Pick({}) \in Endpoints
      BY <1>1, <2>1 DEF Connect
    <3> QED
      BY <1>1, <2>1, <3>1 DEF Connect, Use, Goto, ChatType, Steps
  <2>2. CASE Available = {}
    BY <1>1, <2>2 DEF Connect, ChatType, Results
  <2> QED
    BY <2>1, <2>2
<1>2. ASSUME NEW c \in Clients, Ask(c)
      PROVE  ClientType'
  BY <1>2, BeginsType, SendType DEF Ask, Goto, Use, Ends, Errs, ChatType, Results, Steps, Errors, Counted, Least, GoesOn
<1>3. ASSUME NEW c \in Clients, Check(c)
      PROVE  ClientType'
  BY <1>3, BeginsType, SendType DEF Check, Goto, Use, Ends, Errs, ChatType, Results, Steps, Errors, Counted, Least, GoesOn
<1>4. ASSUME NEW c \in Clients, Answer(c)
      PROVE  ClientType'
  BY <1>4, BeginsType, SendType DEF Answer, Goto, Use, Ends, Errs, ChatType, Results, Steps, Errors, Counted, Least, GoesOn
<1>5. ASSUME NEW c \in Clients, Truncate(c)
      PROVE  ClientType'
  <2>1. UNCHANGED <<cur, unsupported>>
    BY <1>5 DEF Truncate
  <2>2. CASE chat[c].budget >= Doublings
    BY <1>5, <2>1, <2>2, EndsType DEF Truncate, ChatType, Results
  <2>3. CASE ~(chat[c].budget >= Doublings)
    <3>1. chat[c].budget + 1 \in 0 .. Doublings
      BY <2>3
    <3>2. chat' \in [Clients -> ChatType]
      BY <1>5, <2>3, <3>1 DEF Truncate, ChatType, Errors
    <3> QED
      BY <1>5, <2>1, <2>3, <3>2 DEF Truncate, Goto, Steps
  <2> QED
    BY <2>2, <2>3
<1>6. ASSUME NEW c \in Clients, Exhaust(c)
      PROVE  ClientType'
  BY <1>6, BeginsType, SendType DEF Exhaust, Goto, Use, Ends, Errs, ChatType, Results, Steps, Errors, Counted, Least, GoesOn
<1>7. ASSUME NEW c \in Clients, Reject(c)
      PROVE  ClientType'
  BY <1>7, BeginsType, SendType DEF Reject, Goto, Use, Ends, Errs, ChatType, Results, Steps, Errors, Counted, Least, GoesOn
<1>8. ASSUME NEW c \in Clients, RejectOption(c)
      PROVE  ClientType'
  BY <1>8, BeginsType, SendType DEF RejectOption, Goto, Use, Ends, Errs, ChatType, Results, Steps, Errors, Counted, Least, GoesOn
<1>9. ASSUME NEW c \in Clients, Retry(c)
      PROVE  ClientType'
  <2>1. Least(chat[c].attempt + 1, chat[c].limit) \in 0 .. Limit + 2
    BY DEF Least, Counted
  <2>2. chat' \in [Clients -> ChatType]
    BY <1>9, <2>1 DEF Retry, ChatType
  <2>3. CASE Available # {}
    <3>1. /\ Use(c, Pick(chat[c].attempted)) /\ Goto(c, "checking") /\ result' = result
          /\ Pick(chat[c].attempted) \in Endpoints
      BY <1>9, <2>3 DEF Retry
    <3> QED
      BY <2>2, <3>1 DEF Use, Goto, Steps
  <2>4. CASE Available = {}
    BY <1>9, <2>2, <2>4, EndsType DEF Retry, Results
  <2> QED
    BY <2>3, <2>4
<1>10. ASSUME NEW c \in Clients, GiveUp(c)
      PROVE  ClientType'
  BY <1>10, BeginsType, SendType DEF GiveUp, Goto, Use, Ends, Errs, ChatType, Results, Steps, Errors, Counted, Least, GoesOn
<1>11. ASSUME NEW c \in Clients, NEW e \in {"transient", "other"}, Fail(c, e)
      PROVE  ClientType'
  BY <1>11, BeginsType, SendType DEF Fail, Goto, Use, Ends, Errs, ChatType, Results, Steps, Errors, Counted, Least, GoesOn
<1>12. CASE RunOut
  BY <1>12, BeginsType, SendType DEF RunOut, Goto, Use, Ends, Errs, ChatType, Results, Steps, Errors, Counted, Least, GoesOn
<1>13. CASE UNCHANGED vars
  BY <1>13, BeginsType, SendType DEF vars, Goto, Use, Ends, Errs, ChatType, Results, Steps, Errors, Counted, Least, GoesOn
<1> QED
  BY <1>1, <1>2, <1>3, <1>4, <1>5, <1>6, <1>7, <1>8, <1>9, <1>10, <1>11, <1>12, <1>13 DEF Next, Proceed, Reply, Upset
\* A chat begins afresh, or ends before its first request.
LEMMA AskChat ==
    ASSUME TypeOK, NEW c \in Clients, Ask(c)
    PROVE  /\ disabled' = disabled /\ exhausted' = exhausted
           /\ \/ \E new \in ChatType :
                    /\ chat' = [chat EXCEPT ![c] = new]
                    /\ new.attempt = 0 /\ new.limit = Limit /\ new.error = "none"
                    /\ result' = [result EXCEPT ![c] = "none"]
                    /\ pc' = [pc EXCEPT ![c] = "checking"]
              \/ /\ Available = {} /\ chat' = chat
                 /\ result' = [result EXCEPT ![c] = "unavailable"]
                 /\ pc' = [pc EXCEPT ![c] = "idle"]
<1>1. UNCHANGED <<disabled, exhausted>>
  BY DEF Ask, service
<1>2. ASSUME NEW e \in Endpoints, Begins(c, e)
      PROVE  \E new \in ChatType :
                    /\ chat' = [chat EXCEPT ![c] = new]
                    /\ new.attempt = 0 /\ new.limit = Limit /\ new.error = "none"
                    /\ result' = [result EXCEPT ![c] = "none"]
                    /\ pc' = [pc EXCEPT ![c] = "checking"]
  <2>1. PICK patient \in Patience : chat' = [chat EXCEPT ![c] = FirstAttempt(c, e, patient)]
    BY <1>2 DEF Begins
  <2>2. FirstAttempt(c, e, patient) \in ChatType
    BY FreshChat
  <2> QED
    BY <1>2, <2>1, <2>2, FreshChat DEF Begins, Goto
<1>3. cur[c] \in Endpoints /\ (Available # {} => Pick({}) \in Endpoints)
  BY PickMember DEF TypeOK, Available
<1>4. \/ \E e \in Endpoints : Begins(c, e)
      \/ Available = {} /\ Ends(c, "unavailable") /\ chat' = chat
  BY <1>3 DEF Ask
<1> QED
  BY <1>1, <1>2, <1>4 DEF Ends, Goto

-----------------------------------------------------------------------------
\* A step keeps the count of every chat.
LEMMA CountStep == CountInv /\ [Next]_vars => \A c \in Clients : Counted(c)'
<1> SUFFICES ASSUME CountInv, [Next]_vars, NEW d \in Clients
             PROVE  Counted(d)'
  OBVIOUS
<1>a. /\ chat \in [Clients -> ChatType] /\ pc \in [Clients -> Steps]
      /\ Counted(d)
      /\ Limit \in Nat \ {0}
      /\ chat[d] \in ChatType
  BY ClientAssumption DEF CountInv, TypeOK, ChatType
<1> USE <1>a DEF Counted, client
<1>1. ASSUME NEW c \in Clients, Connect(c)
      PROVE  Counted(d)'
  BY <1>1 DEF Connect, Goto, Ends, Errs, Begins, Send, FirstAttempt, NoChat, ChatType, Least, GoesOn
<1>2. ASSUME NEW c \in Clients, Ask(c)
      PROVE  Counted(d)'
  BY <1>2, AskChat DEF CountInv, ChatType
<1>3. ASSUME NEW c \in Clients, Check(c)
      PROVE  Counted(d)'
  BY <1>3 DEF Check, Goto, Ends, Errs, Begins, Send, FirstAttempt, NoChat, ChatType, Least, GoesOn
<1>4. ASSUME NEW c \in Clients, Answer(c)
      PROVE  Counted(d)'
  BY <1>4 DEF Answer, Goto, Ends, Errs, Begins, Send, FirstAttempt, NoChat, ChatType, Least, GoesOn
<1>5. ASSUME NEW c \in Clients, Truncate(c)
      PROVE  Counted(d)'
  BY <1>5 DEF Truncate, Goto, Ends, Errs, Begins, Send, FirstAttempt, NoChat, ChatType, Least, GoesOn
<1>6. ASSUME NEW c \in Clients, Exhaust(c)
      PROVE  Counted(d)'
  BY <1>6 DEF Exhaust, Goto, Ends, Errs, Begins, Send, FirstAttempt, NoChat, ChatType, Least, GoesOn
<1>7. ASSUME NEW c \in Clients, Reject(c)
      PROVE  Counted(d)'
  BY <1>7 DEF Reject, Goto, Ends, Errs, Begins, Send, FirstAttempt, NoChat, ChatType, Least, GoesOn
<1>8. ASSUME NEW c \in Clients, RejectOption(c)
      PROVE  Counted(d)'
  BY <1>8 DEF RejectOption, Goto, Ends, Errs, Begins, Send, FirstAttempt, NoChat, ChatType, Least, GoesOn
<1>9. ASSUME NEW c \in Clients, Retry(c)
      PROVE  Counted(d)'
  BY <1>9 DEF Retry, Goto, Ends, Errs, Begins, Send, FirstAttempt, NoChat, ChatType, Least, GoesOn
<1>10. ASSUME NEW c \in Clients, GiveUp(c)
      PROVE  Counted(d)'
  BY <1>10 DEF GiveUp, Goto, Ends, Errs, Begins, Send, FirstAttempt, NoChat, ChatType, Least, GoesOn
<1>11. ASSUME NEW c \in Clients, NEW e \in {"transient", "other"}, Fail(c, e)
      PROVE  Counted(d)'
  BY <1>11 DEF Fail, Goto, Ends, Errs, Begins, Send, FirstAttempt, NoChat, ChatType, Least, GoesOn
<1>12. CASE RunOut
  BY <1>12 DEF RunOut, Goto, Ends, Errs, Begins, Send, FirstAttempt, NoChat, ChatType, Least, GoesOn
<1>13. CASE UNCHANGED vars
  BY <1>13 DEF vars, Goto, Ends, Errs, Begins, Send, FirstAttempt, NoChat, ChatType, Least, GoesOn
<1> QED
  BY <1>1, <1>2, <1>3, <1>4, <1>5, <1>6, <1>7, <1>8, <1>9, <1>10, <1>11, <1>12, <1>13 DEF Next, Proceed, Reply, Upset

LEMMA CountInvariant == Spec => []CountInv
<1>1. Init => CountInv
  <2> SUFFICES ASSUME Init
               PROVE  CountInv
    OBVIOUS
  <2>1. 0 \in Endpoints /\ 0 \in 0 .. MaxTroubles /\ Limit \in Nat \ {0} /\ Doublings \in Nat
    BY ClientAssumption DEF Endpoints
  <2>2. NoChat \in ChatType
    BY <2>1 DEF NoChat, ChatType, Errors
  <2>3. PoolType /\ ClientType
    BY <2>1, <2>2 DEF Init, PoolType, ClientType, Steps, Results
  <2>4. \A c \in Clients : Counted(c)
    BY <2>1 DEF Init, NoChat, Counted
  <2> QED
    BY <2>3, <2>4, TypeParts DEF CountInv
<1>2. CountInv /\ [Next]_vars => CountInv'
  <2> SUFFICES ASSUME CountInv, [Next]_vars
               PROVE  CountInv'
    OBVIOUS
  <2>1. PoolType' /\ ClientType'
    BY PoolStep, ClientStep DEF CountInv
  <2>2. TypeOK'
    BY <2>1 DEF TypeOK, PoolType, ClientType, ChatType
  <2> QED
    BY <2>2, CountStep DEF CountInv
<1> QED
  BY <1>1, <1>2, PTL DEF Spec

\* Every variable of the clients, the process and the service keeps its type.
THEOREM TypeCorrect == Spec => []TypeOK
<1>1. CountInv => TypeOK
  BY DEF CountInv
<1> QED
  BY <1>1, CountInvariant, PTL

\* A chat that does not wait transient trouble out sends at most one request more
\* than its limit, however its endpoints fail and whatever other clients do.
THEOREM RequestsAreBounded == Spec => []RequestsBounded
<1>1. CountInv => RequestsBounded
  <2> SUFFICES ASSUME CountInv, NEW c \in Clients, ~chat[c].patient
               PROVE  chat[c].attempt + (IF pc[c] = "sent" THEN 1 ELSE 0) <= Limit + 1
    BY DEF RequestsBounded
  <2>1. /\ Counted(c) /\ chat[c].attempt \in Nat /\ chat[c].limit \in Nat
        /\ Limit \in Nat
    BY ClientAssumption DEF CountInv, TypeOK
  <2> QED
    BY <2>1 DEF Counted
<1> QED
  BY <1>1, CountInvariant, PTL

-----------------------------------------------------------------------------
\* A quota error is remembered with an endpoint disabled for it.
PauseInv ==
    /\ PauseJustified
    /\ \A c \in Clients : chat[c].error = "quota" => disabled # {}

LEMMA NothingLeft == Available = {} => disabled # {}
<1>1. 0 \in Endpoints
  BY ClientAssumption DEF Endpoints
<1> QED
  BY <1>1 DEF Available

LEMMA PauseNext == TypeOK /\ PauseInv /\ [Next]_vars => PauseInv'
<1> SUFFICES ASSUME TypeOK, PauseInv, [Next]_vars
             PROVE  PauseInv'
  OBVIOUS
<1>a. /\ chat \in [Clients -> ChatType] /\ result \in [Clients -> Results]
      /\ (Available = {} => disabled # {})
  BY NothingLeft DEF TypeOK, ChatType
<1> USE <1>a DEF PauseInv, PauseJustified, process, client, service
<1>1. ASSUME NEW c \in Clients, Connect(c)
      PROVE  PauseInv'
  BY <1>1 DEF Connect, Goto, Ends, Errs, Begins, Send, FirstAttempt, NoChat, ChatType
<1>2. ASSUME NEW c \in Clients, Ask(c)
      PROVE  PauseInv'
  BY <1>2, AskChat DEF CountInv, ChatType
<1>3. ASSUME NEW c \in Clients, Check(c)
      PROVE  PauseInv'
  BY <1>3 DEF Check, Goto, Ends, Errs, Begins, Send, FirstAttempt, NoChat, ChatType
<1>4. ASSUME NEW c \in Clients, Answer(c)
      PROVE  PauseInv'
  BY <1>4 DEF Answer, Goto, Ends, Errs, Begins, Send, FirstAttempt, NoChat, ChatType
<1>5. ASSUME NEW c \in Clients, Truncate(c)
      PROVE  PauseInv'
  BY <1>5 DEF Truncate, Goto, Ends, Errs, Begins, Send, FirstAttempt, NoChat, ChatType
<1>6. ASSUME NEW c \in Clients, Exhaust(c)
      PROVE  PauseInv'
  BY <1>6 DEF Exhaust, Goto, Ends, Errs, Begins, Send, FirstAttempt, NoChat, ChatType
<1>7. ASSUME NEW c \in Clients, Reject(c)
      PROVE  PauseInv'
  BY <1>7 DEF Reject, Goto, Ends, Errs, Begins, Send, FirstAttempt, NoChat, ChatType
<1>8. ASSUME NEW c \in Clients, RejectOption(c)
      PROVE  PauseInv'
  BY <1>8 DEF RejectOption, Goto, Ends, Errs, Begins, Send, FirstAttempt, NoChat, ChatType
<1>9. ASSUME NEW c \in Clients, Retry(c)
      PROVE  PauseInv'
  BY <1>9 DEF Retry, Goto, Ends, Errs, Begins, Send, FirstAttempt, NoChat, ChatType
<1>10. ASSUME NEW c \in Clients, GiveUp(c)
      PROVE  PauseInv'
  BY <1>10 DEF GiveUp, Goto, Ends, Errs, Begins, Send, FirstAttempt, NoChat, ChatType
<1>11. ASSUME NEW c \in Clients, NEW e \in {"transient", "other"}, Fail(c, e)
      PROVE  PauseInv'
  BY <1>11 DEF Fail, Goto, Ends, Errs, Begins, Send, FirstAttempt, NoChat, ChatType
<1>12. CASE RunOut
  BY <1>12 DEF RunOut, Goto, Ends, Errs, Begins, Send, FirstAttempt, NoChat, ChatType
<1>13. CASE UNCHANGED vars
  BY <1>13 DEF vars, Goto, Ends, Errs, Begins, Send, FirstAttempt, NoChat, ChatType
<1> QED
  BY <1>1, <1>2, <1>3, <1>4, <1>5, <1>6, <1>7, <1>8, <1>9, <1>10, <1>11, <1>12, <1>13 DEF Next, Proceed, Reply, Upset

\* Rate limits, gateways and rejected requests, of whichever client, neither
\* disable an endpoint nor pause the run.
THEOREM PausesAreJustified == Spec => []PauseJustified
<1>1. Init => PauseInv
  BY DEF Init, NoChat, PauseInv, PauseJustified
<1>2. PauseInv => PauseJustified
  BY DEF PauseInv
<1> QED
  BY <1>1, <1>2, PauseNext, TypeCorrect, PTL DEF Spec
-----------------------------------------------------------------------------
\* What FailureThorough needs.  The endpoints a chat still has to try are those
\* it has not sent a request to and nobody has disabled.
Left(c)  == Endpoints \ (chat[c].attempted \cup disabled)
Spare(c) == IF Streams /\ ~chat[c].usage THEN 1 ELSE 0

\* After a requests and the one under way, few are left; "spare" is the request
\* that dropping stream_options may have cost.
Few(S, a, spare) == S = {} \/ Cardinality(S) + a + 1 <= Size + spare

\* Before a request the endpoint it will go to counts as tried: should another
\* client disable it, any other one will do.
Covered(c) ==
    /\ chat[c].usage => Streams
    /\ result[c] = "failed" => pc[c] = "idle"
    /\ pc[c] = "sent" => cur[c] \in chat[c].attempted
    /\ pc[c] = "checking" => Few(Left(c) \ {cur[c]}, chat[c].attempt, Spare(c))
    /\ pc[c] \in {"sent", "retrying"} => Few(Left(c), chat[c].attempt, Spare(c))
    /\ Limit >= Size /\ result[c] = "failed" /\ chat[c].error # "rejected"
         => Cardinality(Left(c)) <= Spare(c)

LEMMA EndpointsFinite ==
    /\ IsFiniteSet(Endpoints) /\ Cardinality(Endpoints) = Size
    /\ \A S \in SUBSET Endpoints : /\ IsFiniteSet(S) /\ Cardinality(S) \in Nat
                                   /\ Cardinality(S) <= Size
<1>1. Size \in Nat /\ Size - 1 \in Int /\ 0 \in Int
  BY ClientAssumption
<1>2. IsFiniteSet(Endpoints) /\ Cardinality(Endpoints) = Size
  BY <1>1, FS_Interval DEF Endpoints
<1> QED
  BY <1>2, FS_Subset, FS_CardinalityType

\* Fewer endpoints are left when more were tried or disabled, or when fewer
\* requests were made.
LEMMA FewMonotone ==
    ASSUME NEW S \in SUBSET Endpoints, NEW T \in SUBSET S, NEW a \in Nat, NEW b \in Nat, b <= a,
           NEW m \in Nat, NEW n \in Nat, m <= n, Few(S, a, m)
    PROVE  Few(T, b, n)
<1>1. Cardinality(T) <= Cardinality(S) /\ Cardinality(S) \in Nat /\ Cardinality(T) \in Nat
  BY EndpointsFinite, FS_Subset
<1> QED
  BY <1>1, ClientAssumption DEF Few

\* One endpoint less is one request more.
LEMMA FewLess ==
    ASSUME NEW S \in SUBSET Endpoints, NEW e \in S, NEW a \in Nat, NEW m \in Nat, Few(S, a, m)
    PROVE  Few(S \ {e}, a + 1, m)
<1>1. Cardinality(S \ {e}) = Cardinality(S) - 1 /\ Cardinality(S) \in Nat
  BY EndpointsFinite, FS_RemoveElement
<1>2. S # {}
  OBVIOUS
<1> QED
  BY <1>1, <1>2, ClientAssumption DEF Few

\* A chat that begins has all endpoints but one before it after its request.
LEMMA FewAtFirst ==
    ASSUME NEW S \in SUBSET Endpoints, NEW e \in S, NEW m \in Nat
    PROVE  Few(S \ {e}, 0, m)
<1>1. Cardinality(S \ {e}) = Cardinality(S) - 1 /\ Cardinality(S) \in Nat /\ Cardinality(S) <= Size
  BY EndpointsFinite, FS_RemoveElement
<1> QED
  BY <1>1, ClientAssumption DEF Few

\* What other clients do to the pool only leaves less.
LEMMA CoveredOther ==
    ASSUME CountInv, NEW d \in Clients, Covered(d), chat'[d] = chat[d], cur'[d] = cur[d],
           pc'[d] = pc[d], result'[d] = result[d], disabled \subseteq disabled'
    PROVE  Covered(d)'
<1>1. Left(d)' \subseteq Left(d) /\ Left(d) \subseteq Endpoints /\ Spare(d)' = Spare(d) /\ Spare(d) \in Nat
  BY DEF Left, Spare
<1>2. chat[d].attempt \in Nat
  BY ClientAssumption DEF CountInv, TypeOK
<1>3. pc[d] = "checking" => Few(Left(d)' \ {cur[d]}, chat[d].attempt, Spare(d))
  <2>1. Left(d)' \ {cur[d]} \subseteq Left(d) \ {cur[d]} /\ Left(d) \ {cur[d]} \subseteq Endpoints
    BY <1>1
  <2> QED
    BY <1>1, <1>2, <2>1, FewMonotone DEF Covered
<1>4. pc[d] \in {"sent", "retrying"} => Few(Left(d)', chat[d].attempt, Spare(d))
  BY <1>1, <1>2, FewMonotone DEF Covered
<1>5. Cardinality(Left(d)') <= Cardinality(Left(d)) /\ Cardinality(Left(d)) \in Nat /\ Cardinality(Left(d)') \in Nat
  BY <1>1, EndpointsFinite, FS_Subset
<1>6. Limit >= Size /\ result[d] = "failed" /\ chat[d].error # "rejected" => Cardinality(Left(d)') <= Spare(d)
  BY <1>1, <1>5 DEF Covered
<1> QED
  BY <1>1, <1>3, <1>4, <1>6 DEF Covered, Few

\* A request goes to the endpoint chosen for it, or to another one because that
\* one is disabled by now.
LEMMA CoveredSend ==
    ASSUME CountInv, NEW c \in Clients, Covered(c), pc[c] = "checking", NEW e \in Endpoints,
           Send(c, e), e = cur[c] \/ cur[c] \in disabled, disabled' = disabled, result' = result
    PROVE  Covered(c)'
<1>1. chat \in [Clients -> ChatType] /\ cur \in [Clients -> Endpoints] /\ pc \in [Clients -> Steps]
  BY DEF CountInv, TypeOK, ChatType
<1>2. /\ chat'[c].attempted = chat[c].attempted \cup {e}
      /\ chat'[c].attempt = chat[c].attempt /\ chat'[c].usage = chat[c].usage
      /\ cur'[c] = e /\ pc'[c] = "sent" /\ result'[c] # "failed"
  BY <1>1 DEF Send, Goto, Use, ChatType, Covered
<1>3. Left(c)' \subseteq Left(c) \ {cur[c]} /\ Left(c) \ {cur[c]} \subseteq Endpoints
  BY <1>2 DEF Left
<1>4. Spare(c)' = Spare(c) /\ Spare(c) \in Nat /\ chat[c].attempt \in Nat
  BY <1>1, <1>2, ClientAssumption DEF Spare, ChatType
<1>5. Few(Left(c)', chat[c].attempt, Spare(c))
  BY <1>3, <1>4, FewMonotone DEF Covered
<1> QED
  BY <1>2, <1>4, <1>5 DEF Covered, Few

\* A bad answer after which the chat goes on deciding.
LEMMA CoveredRetrying ==
    ASSUME CountInv, NEW c \in Clients, Covered(c), pc[c] = "sent", pc'[c] = "retrying",
           chat'[c].attempted = chat[c].attempted, chat'[c].attempt = chat[c].attempt,
           chat'[c].usage = chat[c].usage, disabled \subseteq disabled', result' = result
    PROVE  Covered(c)'
<1>1. Left(c)' \subseteq Left(c) /\ Left(c) \subseteq Endpoints
  BY DEF Left
<1>2. Spare(c)' = Spare(c) /\ Spare(c) \in Nat /\ chat[c].attempt \in Nat
  BY ClientAssumption DEF Spare, CountInv, TypeOK
<1>3. Few(Left(c)', chat[c].attempt, Spare(c))
  BY <1>1, <1>2, FewMonotone DEF Covered
<1>4. result'[c] # "failed"
  BY DEF Covered
<1> QED
  BY <1>2, <1>3, <1>4 DEF Covered, Few

\* A chat that ends otherwise than by giving up.
LEMMA CoveredEnd ==
    ASSUME NEW c \in Clients, Covered(c), pc'[c] = "idle" \/ pc'[c] = "new",
           chat'[c].usage = chat[c].usage,
           \/ result'[c] \in Results \ {"failed"}
           \/ result'[c] = "failed" /\ pc'[c] = "idle" /\ chat'[c].error = "rejected"
    PROVE  Covered(c)'
  BY DEF Covered

LEMMA CoveredAsk ==
    ASSUME CountInv, NEW c \in Clients, Covered(c), Ask(c)
    PROVE  Covered(c)'
<1>1. /\ chat \in [Clients -> ChatType] /\ cur \in [Clients -> Endpoints] /\ pc \in [Clients -> Steps]
      /\ result \in [Clients -> Results] /\ disabled' = disabled /\ TypeOK
  BY DEF CountInv, TypeOK, ChatType, Ask
<1>2. ASSUME NEW e \in Available, Begins(c, e), cur'[c] = e
      PROVE  Covered(c)'
  <2>1. PICK patient \in Patience : chat' = [chat EXCEPT ![c] = FirstAttempt(c, e, patient)]
    BY <1>2 DEF Begins
  <2>2. /\ chat'[c].attempted = {} /\ chat'[c].attempt = 0 /\ chat'[c].usage \in {Streams /\ e \notin unsupported[c]}
        /\ pc'[c] = "checking" /\ result'[c] = "none"
    BY <1>1, <1>2, <2>1 DEF FirstAttempt, NoChat, Begins, Goto
  <2>3. Left(c)' = Available /\ Available \subseteq Endpoints /\ Spare(c)' \in Nat
    BY <1>1, <2>2 DEF Left, Available, Spare
  <2>4. Few(Available \ {e}, 0, Spare(c)')
    BY <1>2, <2>3, FewAtFirst
  <2>5. chat'[c].usage => Streams
    BY <2>2
  <2> QED
    BY <1>2, <2>2, <2>3, <2>4, <2>5 DEF Covered, Few
<1>3. CASE cur[c] \notin disabled /\ Begins(c, cur[c]) /\ UNCHANGED <<index, cur>>
  BY <1>1, <1>2, <1>3 DEF Available
<1>4. CASE Available # {} /\ Begins(c, Pick({})) /\ Use(c, Pick({}))
  BY <1>1, <1>2, <1>4, PickMember DEF Use
<1>5. CASE Ends(c, "unavailable") /\ UNCHANGED <<cur, chat>>
  BY <1>1, <1>5, CoveredEnd DEF Ends, Goto, Results
<1> QED
  BY <1>3, <1>4, <1>5 DEF Ask

LEMMA CoveredCheck ==
    ASSUME CountInv, NEW c \in Clients, Covered(c), Check(c)
    PROVE  Covered(c)'
<1>1. /\ cur \in [Clients -> Endpoints] /\ pc \in [Clients -> Steps] /\ pc[c] = "checking"
      /\ result \in [Clients -> Results] /\ disabled' = disabled /\ TypeOK
  BY DEF CountInv, TypeOK, Check
<1>2. CASE Send(c, cur[c]) /\ result' = result
  BY <1>1, <1>2, CoveredSend
<1>3. CASE cur[c] \in disabled /\ Available # {} /\ Send(c, Pick({})) /\ result' = result
  <2>1. Pick({}) \in Endpoints
    BY <1>1, <1>3, PickMember DEF Available
  <2> QED
    BY <1>1, <1>3, <2>1, CoveredSend
<1>4. CASE Ends(c, "unavailable") /\ UNCHANGED <<cur, chat>>
  BY <1>1, <1>4, CoveredEnd DEF Ends, Goto, Results
<1> QED
  BY <1>2, <1>3, <1>4 DEF Check

\* The pool is rotated away from what the chat has tried, as long as anything
\* else is left.
LEMMA CoveredRetry ==
    ASSUME CountInv, NEW c \in Clients, Covered(c), Retry(c)
    PROVE  Covered(c)'
<1>1. /\ chat \in [Clients -> ChatType] /\ cur \in [Clients -> Endpoints] /\ pc \in [Clients -> Steps]
      /\ result \in [Clients -> Results] /\ disabled' = disabled /\ TypeOK /\ pc[c] = "retrying"
      /\ chat' = [chat EXCEPT ![c].attempt = Least(@ + 1, chat[c].limit)]
  BY DEF CountInv, TypeOK, ChatType, Retry
<1> DEFINE a == chat[c].attempt
           b == Least(a + 1, chat[c].limit)
<1>2. /\ a \in Nat /\ b \in Nat /\ b <= a + 1
      /\ chat'[c].attempt = b /\ chat'[c].attempted = chat[c].attempted /\ chat'[c].usage = chat[c].usage
  BY <1>1, ClientAssumption DEF Least, ChatType
<1>3. Left(c)' = Left(c) /\ Spare(c)' = Spare(c) /\ Spare(c) \in Nat /\ Left(c) \subseteq Endpoints
      /\ Left(c) = Available \ chat[c].attempted
  BY <1>1, <1>2 DEF Left, Spare, Available
<1> HIDE DEF b
<1>4. CASE Available # {}
  <2> DEFINE e == Pick(chat[c].attempted)
  <2>1. cur'[c] = e /\ pc'[c] = "checking" /\ result'[c] # "failed"
    BY <1>1, <1>4 DEF Retry, Use, Goto, Covered
  <2>2. Left(c) # {} => e \in Left(c)
    <3>1. FirstOf(Left(c)) \in Left(c) \/ Left(c) = {}
      BY <1>1, <1>3, FirstOfMember DEF TypeOK
    <3> QED
      BY <1>3, <3>1 DEF Pick
  <2> HIDE DEF e
  <2>3. Few(Left(c), a, Spare(c))
    BY <1>1 DEF Covered
  <2>4. Few(Left(c) \ {e}, b, Spare(c))
    <3>1. CASE Left(c) = {}
      BY <3>1 DEF Few
    <3>2. CASE Left(c) # {}
      <4>1. Few(Left(c) \ {e}, a + 1, Spare(c))
        BY <1>2, <1>3, <2>2, <2>3, <3>2, FewLess
      <4>2. Left(c) \ {e} \in SUBSET Endpoints /\ a + 1 \in Nat
        BY <1>2, <1>3
      <4> QED
        BY <1>2, <1>3, <4>1, <4>2, FewMonotone
    <3> QED
      BY <3>1, <3>2
  <2> QED
    BY <1>2, <1>3, <2>1, <2>4 DEF Covered, Few
<1>5. CASE Available = {}
  BY <1>1, <1>2, <1>5, CoveredEnd DEF Retry, Ends, Goto, Results
<1> QED
  BY <1>4, <1>5

\* Giving up after the last attempt.
LEMMA CoveredGiveUp ==
    ASSUME CountInv, NEW c \in Clients, Covered(c), GiveUp(c)
    PROVE  Covered(c)'
<1>1. /\ chat \in [Clients -> ChatType] /\ pc \in [Clients -> Steps]
      /\ result \in [Clients -> Results] /\ disabled' = disabled /\ chat' = chat
      /\ pc[c] = "retrying" /\ pc'[c] = "idle" /\ chat[c] \in ChatType
  BY DEF CountInv, TypeOK, ChatType, GiveUp, Ends, Goto, process, service
<1>2. /\ Left(c)' = Left(c) /\ Left(c) \subseteq Endpoints
      /\ Spare(c)' = Spare(c) /\ Spare(c) \in Nat
  BY <1>1 DEF Left, Spare
<1>3. chat[c].attempt + 1 >= Limit /\ chat[c].attempt \in Nat
  BY <1>1, ClientAssumption DEF GiveUp, GoesOn, ChatType
<1>4. Limit >= Size => Cardinality(Left(c)) <= Spare(c)
  <2>1. Few(Left(c), chat[c].attempt, Spare(c))
    BY <1>1 DEF Covered
  <2>2. Cardinality(Left(c)) \in Nat /\ (Left(c) = {} => Cardinality(Left(c)) = 0)
    BY <1>2, EndpointsFinite, FS_EmptySet
  <2> QED
    BY <1>2, <1>3, <2>1, <2>2, ClientAssumption DEF Few
<1> QED
  BY <1>1, <1>2, <1>4 DEF Covered

\* The request without stream_options goes to the endpoint just tried.
LEMMA CoveredRejectOption ==
    ASSUME CountInv, NEW c \in Clients, Covered(c), RejectOption(c)
    PROVE  Covered(c)'
<1>1. /\ chat \in [Clients -> ChatType] /\ pc \in [Clients -> Steps]
      /\ disabled' = disabled /\ cur' = cur /\ result' = result /\ pc[c] = "sent" /\ pc'[c] = "checking"
      /\ chat[c].usage /\ chat[c].attempt \in Nat
  BY ClientAssumption DEF CountInv, TypeOK, ChatType, RejectOption, Goto, process
<1>2. /\ chat'[c].attempt = chat[c].attempt + 1 /\ chat'[c].attempted = chat[c].attempted
      /\ ~chat'[c].usage
  BY <1>1 DEF RejectOption, ChatType
<1>3. /\ Left(c)' = Left(c) /\ Left(c) \ {cur[c]} = Left(c) /\ Left(c) \subseteq Endpoints
      /\ Spare(c) = 0 /\ Spare(c)' = 1 /\ result[c] # "failed"
  BY <1>1, <1>2 DEF Left, Spare, Covered
<1>4. Few(Left(c), chat[c].attempt + 1, 1)
  <2>1. Few(Left(c), chat[c].attempt, 0)
    BY <1>1, <1>3 DEF Covered
  <2>2. Cardinality(Left(c)) \in Nat
    BY <1>3, EndpointsFinite
  <2> QED
    BY <1>1, <2>1, <2>2, ClientAssumption DEF Few
<1> QED
  BY <1>1, <1>2, <1>3, <1>4 DEF Covered, Few

\* A step of one client leaves the chats of the others alone.
LEMMA OthersAlone ==
    ASSUME CountInv, NEW c \in Clients, Ask(c) \/ Proceed(c) \/ Reply(c) \/ Upset(c),
           NEW d \in Clients, d # c
    PROVE  /\ chat'[d] = chat[d] /\ cur'[d] = cur[d] /\ pc'[d] = pc[d] /\ result'[d] = result[d]
           /\ disabled \subseteq disabled'
<1>1. /\ chat \in [Clients -> ChatType] /\ cur \in [Clients -> Endpoints] /\ pc \in [Clients -> Steps]
      /\ result \in [Clients -> Results] /\ TypeOK
  BY DEF CountInv, TypeOK, ChatType
<1> USE <1>1 DEF process, client, service, Goto, Use, Ends, Errs, Send, Begins
<1>2. CASE Ask(c)
  <2>1. disabled' = disabled /\ (cur' = cur \/ \E e : cur' = [cur EXCEPT ![c] = e])
    BY <1>2 DEF Ask
  <2> QED
    BY <1>2, <2>1, AskChat
<1>3. CASE Connect(c) \/ Check(c)
  BY <1>3 DEF Connect, Check
<1>4. CASE Retry(c) \/ GiveUp(c)
  BY <1>4 DEF Retry, GiveUp
<1>5. CASE Reply(c)
  BY <1>5 DEF Reply, Answer, Exhaust
<1>6. CASE Truncate(c) \/ Reject(c) \/ RejectOption(c)
  BY <1>6 DEF Truncate, Reject, RejectOption
<1>7. ASSUME NEW error \in {"transient", "other"}, Fail(c, error)
      PROVE  /\ chat'[d] = chat[d] /\ cur'[d] = cur[d] /\ pc'[d] = pc[d] /\ result'[d] = result[d]
             /\ disabled \subseteq disabled'
  BY <1>7 DEF Fail
<1> QED
  BY <1>2, <1>3, <1>4, <1>5, <1>6, <1>7 DEF Proceed, Upset

LEMMA CoveredOwn ==
    ASSUME CountInv, NEW c \in Clients, Covered(c), Ask(c) \/ Proceed(c) \/ Reply(c) \/ Upset(c)
    PROVE  Covered(c)'
<1>1. /\ chat \in [Clients -> ChatType] /\ pc \in [Clients -> Steps]
      /\ result \in [Clients -> Results]
  BY DEF CountInv, TypeOK, ChatType
<1>2. CASE Connect(c)
  <2>1. chat' = chat /\ pc[c] = "new" /\ pc'[c] \in {"idle", "new"}
        /\ result'[c] \in {result[c], "unavailable"}
    BY <1>1, <1>2 DEF Connect, Goto
  <2>2. result[c] # "failed"
    BY <2>1 DEF Covered
  <2> QED
    BY <1>1, <2>1, <2>2, CoveredEnd DEF Results
<1>3. CASE Answer(c)
  BY <1>1, <1>3, CoveredEnd DEF Answer, Ends, Goto, Results
<1>4. CASE Exhaust(c)
  <2>1. /\ pc[c] = "sent" /\ pc'[c] = "retrying" /\ chat' = [chat EXCEPT ![c].error = "quota"]
        /\ disabled \subseteq disabled' /\ result' = result
    BY <1>1, <1>4 DEF Exhaust, Errs, Goto
  <2> QED
    BY <1>1, <2>1, CoveredRetrying DEF ChatType
<1>5. CASE Truncate(c)
  <2>1. CASE chat[c].budget >= Doublings
    BY <1>1, <1>5, <2>1, CoveredEnd DEF Truncate, Ends, Goto, Results
  <2>2. CASE ~(chat[c].budget >= Doublings)
    <3>1. /\ pc[c] = "sent" /\ pc'[c] = "retrying" /\ disabled' = disabled /\ result' = result
          /\ chat' = [chat EXCEPT ![c].budget = @ + 1, ![c].error = "transient"]
      BY <1>1, <1>5, <2>2 DEF Truncate, Goto, process
    <3> QED
      BY <1>1, <3>1, CoveredRetrying DEF ChatType
  <2> QED
    BY <2>1, <2>2
<1>6. CASE Reject(c)
  BY <1>1, <1>6, CoveredEnd DEF Reject, Ends, Goto, ChatType
<1>7. ASSUME NEW error \in {"transient", "other"}, Fail(c, error)
      PROVE  Covered(c)'
  <2>1. /\ pc[c] = "sent" /\ pc'[c] = "retrying" /\ chat' = [chat EXCEPT ![c].error = error]
        /\ disabled' = disabled /\ result' = result
    BY <1>1, <1>7 DEF Fail, Errs, Goto, process
  <2> QED
    BY <1>1, <2>1, CoveredRetrying DEF ChatType
<1> QED
  BY <1>2, <1>3, <1>4, <1>5, <1>6, <1>7, CoveredAsk, CoveredCheck, CoveredRetry, CoveredGiveUp,
     CoveredRejectOption DEF Proceed, Reply, Upset

\* A chat that gives up has tried every endpoint that is not disabled, or all but
\* the one that giving up stream_options cost, whatever the other clients did to
\* the index and to the pool in the meantime.
THEOREM FailuresAreThorough == Spec => []FailureThorough
<1>1. Init => \A c \in Clients : Covered(c)
  BY DEF Init, NoChat, Covered
<1>2. CountInv /\ (\A c \in Clients : Covered(c)) /\ [Next]_vars => (\A c \in Clients : Covered(c))'
  <2> SUFFICES ASSUME CountInv, \A c \in Clients : Covered(c), [Next]_vars, NEW d \in Clients
               PROVE  Covered(d)'
    OBVIOUS
  <2>1. ASSUME NEW c \in Clients, Ask(c) \/ Proceed(c) \/ Reply(c) \/ Upset(c)
        PROVE  Covered(d)'
    <3>1. CASE d = c
      BY <2>1, <3>1, CoveredOwn
    <3>2. CASE d # c
      BY <2>1, <3>2, OthersAlone, CoveredOther
    <3> QED
      BY <3>1, <3>2
  <2>2. CASE RunOut \/ UNCHANGED vars
    <3>1. chat' = chat /\ cur' = cur /\ pc' = pc /\ result' = result /\ disabled' = disabled
      BY <2>2 DEF RunOut, vars, process, client
    <3> QED
      BY <3>1, CoveredOther
  <2> QED
    BY <2>1, <2>2 DEF Next
<1>3. (\A c \in Clients : Covered(c)) => FailureThorough
  BY DEF FailureThorough, Covered, Left, Spare
<1> QED
  BY <1>1, <1>2, <1>3, CountInvariant, PTL DEF Spec
=============================================================================
