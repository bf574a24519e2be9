---------------------------- MODULE PatternsProofs ----------------------------
(***************************************************************************)
(* Proofs about the resilience patterns of appendix D, push notifications, *)
(* short polling and the queues of appendix B, for any number of callers,  *)
(* orders, keys, pollers, endpoints and consumers.  A behaviour is of one  *)
(* of the components, as in the model-checked instances; what the others   *)
(* keep does not change in it.                                             *)
(***************************************************************************)
EXTENDS MCPatterns, ListsProofs, FiniteSetTheorems

(* Every step is one of the component's, or changes nothing it keeps.      *)
LEMMA StepOfEach ==
    ASSUME [Next]_vars
    PROVE  /\ [CallsNext]_callVars /\ [PaymentsNext]_payVars /\ [KeysNext]_keyVars
           /\ [OriginalRequest]_chainVars /\ [PushNext]_pushVars /\ [PollNext]_pollVars
           /\ [QueueNext]_queueVars
BY DEF Next, vars, CallsStep, PaymentsStep, KeysStep, ChainStep, PushStep, PollStep,
       QueueStep

-----------------------------------------------------------------------------
(* Idempotency keys.  An order that is not too old is the one its key      *)
(* stands for, and a valid entry stands for an order as old as itself.     *)
Entry == [age : 0 .. StoreTTL + 1, hash : Params \union {0}]
CreatedOrder == [key : Keys, params : Params, age : 0 .. StoreTTL + 1]

BindingTypes ==
    /\ keyed \in [Keys -> Entry]
    /\ body \in [Keys -> Nat]
    /\ created \in Seq(CreatedOrder)

EntryStands(k) ==
    Valid(keyed[k]) =>
        /\ body[k] \in DOMAIN created
        /\ created[body[k]].key = k
        /\ created[body[k]].params = keyed[k].hash
        /\ created[body[k]].age = keyed[k].age

OrderStands(i) ==
    created[i].age <= StoreTTL =>
        /\ Valid(keyed[created[i].key])
        /\ body[created[i].key] = i

AnswerStands ==
    /\ response.status = 201 =>
          /\ response.order \in DOMAIN created
          /\ created[response.order].key = response.key
          /\ created[response.order].params = response.params
    /\ response.status = 422 =>
          \E i \in DOMAIN created :
             created[i].key = response.key /\ created[i].params # response.params
                /\ created[i].age <= StoreTTL

BindingInv ==
    /\ BindingTypes
    /\ \A k \in Keys : EntryStands(k)
    /\ \A i \in DOMAIN created : OrderStands(i)
    /\ AnswerStands

LEMMA BindingStart == ASSUME PatternsAssumption, KeysInit PROVE BindingInv
<1>1. BindingTypes
  BY DEF PatternsAssumption, KeysInit, BindingTypes, NotStored, Entry
<1>2. \A k \in Keys : EntryStands(k)
  BY DEF PatternsAssumption, KeysInit, EntryStands, NotStored, Valid
<1> QED
  BY <1>1, <1>2 DEF KeysInit, BindingInv, OrderStands, AnswerStands, NoAnswer

LEMMA RepeatedBinds ==
    ASSUME BindingInv, NEW k \in Keys, NEW p \in Params, Repeated(k, p)
    PROVE  BindingInv'
<1>1. UNCHANGED <<keyed, body, created>> /\ Valid(keyed[k])
  BY DEF Repeated
<1>2. EntryStands(k)
  BY DEF BindingInv
<1>3. AnswerStands'
  <2>1. body[k] \in DOMAIN created /\ created[body[k]].age <= StoreTTL
    BY <1>1, <1>2 DEF EntryStands, Valid
  <2>2. CASE SameRequest(k, p)
    BY <1>1, <1>2, <2>2 DEF Repeated, Answer, EntryStands, AnswerStands, SameRequest
  <2>3. CASE ~ SameRequest(k, p)
    <3>1. response' = [status |-> 422, key |-> k, params |-> p, order |-> 0]
      BY <2>3 DEF Repeated, Answer
    <3>2. created[body[k]].key = k /\ created[body[k]].params # p
      BY <1>1, <1>2, <2>3 DEF EntryStands, SameRequest
    <3> QED
      BY <1>1, <2>1, <3>1, <3>2 DEF AnswerStands
  <2> QED
    BY <2>2, <2>3
<1> QED
  BY <1>1, <1>3 DEF BindingInv, BindingTypes, EntryStands, OrderStands

LEMMA CreatedBinds ==
    ASSUME PatternsAssumption, BindingInv, NEW k \in Keys, NEW p \in Params, Created(k, p)
    PROVE  BindingInv'
<1> DEFINE n == Len(created) + 1
           o == [key |-> k, params |-> p, age |-> 0]
<1>1. /\ ~ Valid(keyed[k])
      /\ created' = Append(created, o)
      /\ keyed' = [keyed EXCEPT ![k] = Stored(p)]
      /\ body' = [body EXCEPT ![k] = n]
      /\ response' = [status |-> 201, key |-> k, params |-> p, order |-> n]
  BY DEF Created, Answer
<1>2. /\ keyed \in [Keys -> Entry] /\ body \in [Keys -> Nat] /\ created \in Seq(CreatedOrder)
      /\ StoreTTL \in Nat
  BY DEF BindingInv, BindingTypes, PatternsAssumption
<1>3. o \in CreatedOrder
  BY <1>2 DEF CreatedOrder
<1> HIDE DEF o
<1>4. /\ DOMAIN created' = 1 .. n /\ DOMAIN created = 1 .. Len(created) /\ Len(created) \in Nat
      /\ created'[n] = o /\ \A i \in DOMAIN created : created'[i] = created[i]
      /\ created' \in Seq(CreatedOrder)
  BY <1>1, <1>2, <1>3
<1>5. BindingTypes'
  BY <1>1, <1>2, <1>4 DEF BindingTypes, Entry, Stored
<1>6. ASSUME NEW l \in Keys
      PROVE  EntryStands(l)'
  <2>1. CASE l = k
    <3>1. body'[k] = n /\ keyed'[k] = [age |-> 0, hash |-> p]
      BY <1>1, <1>2 DEF Stored
    <3>2. n \in DOMAIN created'
      BY <1>4
    <3> QED
      BY <1>4, <2>1, <3>1, <3>2 DEF EntryStands, o
  <2>2. CASE l # k
    <3>1. body'[l] = body[l] /\ keyed'[l] = keyed[l]
      BY <1>1, <1>2, <2>2
    <3>2. \A i \in DOMAIN created : i \in DOMAIN created'
      BY <1>4
    <3>3. EntryStands(l)
      BY DEF BindingInv
    <3> QED
      BY <1>4, <3>1, <3>2, <3>3 DEF EntryStands, Valid
  <2> QED
    BY <2>1, <2>2
<1>7. ASSUME NEW i \in DOMAIN created'
      PROVE  OrderStands(i)'
  <2>1. CASE i = n
    <3>1. created'[i].key = k /\ body'[k] = n /\ keyed'[k].age = 0
      BY <1>1, <1>2, <1>4, <2>1 DEF Stored, o
    <3> QED
      BY <1>2, <2>1, <3>1 DEF OrderStands, Valid
  <2>2. CASE i # n
    <3>1. i \in DOMAIN created /\ created'[i] = created[i] /\ created[i] \in CreatedOrder
      BY <1>2, <1>4, <2>2
    <3>2. OrderStands(i)
      BY <3>1 DEF BindingInv
    <3>3. ASSUME created[i].age <= StoreTTL
          PROVE  created[i].key # k /\ created[i].key \in Keys
      BY <1>1, <3>1, <3>2, <3>3 DEF OrderStands, CreatedOrder
    <3> QED
      BY <1>1, <1>2, <3>1, <3>2, <3>3 DEF OrderStands, Valid
  <2> QED
    BY <2>1, <2>2
<1>8. AnswerStands'
  <2>1. n \in DOMAIN created' /\ created'[n].key = k /\ created'[n].params = p
    BY <1>4 DEF o
  <2> QED
    BY <1>1, <2>1 DEF AnswerStands
<1> QED
  BY <1>5, <1>6, <1>7, <1>8 DEF BindingInv

LEMMA KeysTickBinds ==
    ASSUME PatternsAssumption, BindingInv, KeysTick
    PROVE  BindingInv'
<1> DEFINE older(a) == Least(a + 1, StoreTTL + 1)
<1>1. /\ keyed' = [k \in Keys |-> AgedEntry(keyed[k])]
      /\ created' = [i \in DOMAIN created |-> [created[i] EXCEPT !.age = older(@)]]
      /\ response' = NoAnswer /\ body' = body
  BY DEF KeysTick
<1>2. /\ keyed \in [Keys -> Entry] /\ body \in [Keys -> Nat] /\ created \in Seq(CreatedOrder)
      /\ StoreTTL \in Nat
  BY DEF BindingInv, BindingTypes, PatternsAssumption
<1>3. \A a \in 0 .. StoreTTL + 1 :
         older(a) \in 0 .. StoreTTL + 1 /\ (older(a) <= StoreTTL => a <= StoreTTL)
  BY <1>2 DEF Least
<1> HIDE DEF older
<1>4. ASSUME NEW k \in Keys
      PROVE  /\ keyed'[k] \in Entry /\ keyed'[k].age = older(keyed[k].age)
             /\ keyed'[k].hash = keyed[k].hash /\ keyed[k].age \in 0 .. StoreTTL + 1
  <2>1. keyed[k] \in Entry
    BY <1>2
  <2>2. keyed'[k] = [keyed[k] EXCEPT !.age = older(@)]
    BY <1>1 DEF AgedEntry, older
  <2> QED
    BY <1>3, <2>1, <2>2 DEF Entry
<1>5. ASSUME NEW i \in DOMAIN created
      PROVE  /\ created'[i] \in CreatedOrder /\ created'[i].age = older(created[i].age)
             /\ created'[i].key = created[i].key /\ created'[i].params = created[i].params
             /\ created[i].age \in 0 .. StoreTTL + 1 /\ created[i].key \in Keys
  <2>1. created[i] \in CreatedOrder
    BY <1>2
  <2>2. created'[i] = [created[i] EXCEPT !.age = older(@)]
    BY <1>1
  <2> QED
    BY <1>3, <2>1, <2>2 DEF CreatedOrder
<1>6. DOMAIN created' = DOMAIN created /\ created' \in Seq(CreatedOrder)
  <2>1. DOMAIN created = 1 .. Len(created) /\ Len(created) \in Nat
    BY <1>2
  <2>2. DOMAIN created' = 1 .. Len(created) /\ created' = [i \in 1 .. Len(created) |-> created'[i]]
    BY <1>1, <2>1
  <2> QED
    BY <1>5, <2>1, <2>2
<1>7. BindingTypes'
  <2>1. keyed' \in [Keys -> Entry]
    BY <1>1, <1>4
  <2> QED
    BY <1>1, <1>2, <1>6, <2>1 DEF BindingTypes
<1>8. ASSUME NEW k \in Keys
      PROVE  EntryStands(k)'
  <2>1. EntryStands(k)
    BY DEF BindingInv
  <2> QED
    BY <1>1, <1>3, <1>4, <1>5, <1>6, <2>1 DEF EntryStands, Valid
<1>9. ASSUME NEW i \in DOMAIN created'
      PROVE  OrderStands(i)'
  <2>1. OrderStands(i) /\ i \in DOMAIN created
    BY <1>6 DEF BindingInv
  <2>2. ASSUME created'[i].age <= StoreTTL
        PROVE  keyed'[created[i].key].age = created'[i].age /\ body[created[i].key] = i
    <3>1. created[i].age <= StoreTTL
      BY <1>3, <1>5, <2>1, <2>2
    <3>2. Valid(keyed[created[i].key]) /\ body[created[i].key] = i
      BY <2>1, <3>1 DEF OrderStands
    <3>3. EntryStands(created[i].key)
      BY <1>5, <2>1 DEF BindingInv
    <3> QED
      BY <1>4, <1>5, <2>1, <3>2, <3>3 DEF EntryStands
  <2> QED
    BY <1>1, <1>5, <2>1, <2>2 DEF OrderStands, Valid
<1>10. AnswerStands'
  BY <1>1 DEF AnswerStands, NoAnswer
<1> QED
  BY <1>7, <1>8, <1>9, <1>10 DEF BindingInv

LEMMA BindingStep ==
    ASSUME PatternsAssumption, BindingInv, [KeysNext]_keyVars PROVE BindingInv'
<1>1. CASE KeysTick
  BY <1>1, KeysTickBinds
<1>2. ASSUME NEW k \in Keys, NEW p \in Params, Repeated(k, p) PROVE BindingInv'
  BY <1>2, RepeatedBinds
<1>3. ASSUME NEW k \in Keys, NEW p \in Params, Created(k, p) PROVE BindingInv'
  BY <1>3, CreatedBinds
<1>4. CASE UNCHANGED keyVars
  BY <1>4 DEF keyVars, BindingInv, BindingTypes, EntryStands, OrderStands, AnswerStands, Valid
<1> QED
  BY <1>1, <1>2, <1>3, <1>4 DEF KeysNext

LEMMA BindingHolds == ASSUME BindingInv PROVE KeysBindOrders
<1>1. ASSUME NEW i \in DOMAIN created, NEW j \in DOMAIN created, i # j,
             created[i].key = created[j].key
      PROVE  created[i].age > StoreTTL \/ created[j].age > StoreTTL
  <2>1. OrderStands(i) /\ OrderStands(j)
    BY DEF BindingInv
  <2>2. ~ (created[i].age <= StoreTTL) \/ ~ (created[j].age <= StoreTTL)
    BY <1>1, <2>1 DEF OrderStands
  <2>3. created[i] \in CreatedOrder /\ created[j] \in CreatedOrder
    BY DEF BindingInv, BindingTypes
  <2>4. created[i].age \in Nat /\ created[j].age \in Nat /\ StoreTTL \in Nat
    BY <2>3, PatternsAssumption DEF CreatedOrder, PatternsAssumption
  <2> QED
    BY <2>2, <2>4
<1>2. AnswerStands
  BY DEF BindingInv
<1> QED
  BY <1>1, <1>2 DEF KeysBindOrders, AnswerStands

-----------------------------------------------------------------------------
(* Payments.  Only the last charge of an order can be younger than the     *)
(* life of a stored response, and then there is one as old.                *)
Paid == [age : 0 .. StoreTTL + 1, hash : Nat]

Reports == {"none", "confirmed", "deferred", "failed"}

ChargeInv ==
    /\ stored \in [Orders -> Paid]
    /\ charges \in [Orders -> Seq(0 .. StoreTTL + 1)]
    /\ result \in [Orders -> [Calls -> Reports]]
    /\ \A o \in Orders :
          /\ Valid(stored[o]) => charges[o] # <<>>
          /\ \A k \in Calls : result[o][k] = "confirmed" => charges[o] # <<>>
          /\ \A i \in DOMAIN charges[o] :
                charges[o][i] <= StoreTTL =>
                    i = Len(charges[o]) /\ stored[o].age <= charges[o][i]

LEMMA ChargeStart == ASSUME PatternsAssumption, PaymentsInit PROVE ChargeInv
<1>1. /\ stored \in [Orders -> Paid] /\ \A o \in Orders : ~ Valid(stored[o])
      /\ charges \in [Orders -> Seq(0 .. StoreTTL + 1)]
      /\ \A o \in Orders : charges[o] = <<>>
  BY DEF PatternsAssumption, PaymentsInit, NotStored, Paid, Valid
<1>2. /\ result \in [Orders -> [Calls -> Reports]]
      /\ \A o \in Orders, k \in Calls : result[o][k] = "none"
  BY DEF PaymentsInit, Reports
<1>3. \A o \in Orders, k \in Calls : result[o][k] # "confirmed"
  BY <1>2
<1> QED
  BY <1>1, <1>2, <1>3 DEF ChargeInv

(* A charge is made only when none that is young is there.                 *)
LEMMA ChargedKeeps ==
    ASSUME PatternsAssumption, ChargeInv, NEW o \in Orders, Charged(o),
           result' \in [Orders -> [Calls -> Reports]],
           \A p \in Orders \ {o} : result'[p] = result[p]
    PROVE  ChargeInv'
<1>1. /\ ~ Valid(stored[o])
      /\ stored' = [stored EXCEPT ![o] = Stored(1)]
      /\ charges' = [charges EXCEPT ![o] = Append(@, 0)]
  BY DEF Charged
<1>2. StoreTTL \in Nat /\ stored[o].age \in 0 .. StoreTTL + 1
  BY DEF PatternsAssumption, ChargeInv, Paid
<1>3. \A p \in Orders \ {o} : stored'[p] = stored[p] /\ charges'[p] = charges[p]
  BY <1>1 DEF ChargeInv
<1>4. Stored(1) \in Paid /\ Stored(1).age = 0
  BY <1>2 DEF Paid, Stored
<1>5. stored' \in [Orders -> Paid] /\ stored'[o].age = 0
  BY <1>1, <1>4 DEF ChargeInv
<1> DEFINE c == charges[o]
<1>6. c \in Seq(0 .. StoreTTL + 1) /\ 0 \in 0 .. StoreTTL + 1
  BY <1>2 DEF ChargeInv
<1>7. charges'[o] = Append(c, 0)
  BY <1>1 DEF ChargeInv
<1>8. \A i \in DOMAIN c : ~ (c[i] <= StoreTTL)
  BY <1>1, <1>2, <1>6 DEF ChargeInv, Valid
<1> HIDE DEF c
<1>9. /\ Append(c, 0) \in Seq(0 .. StoreTTL + 1) /\ Append(c, 0) # <<>>
      /\ Len(Append(c, 0)) = Len(c) + 1
      /\ \A i \in DOMAIN Append(c, 0) :
            i = Len(c) + 1 \/ (i \in DOMAIN c /\ Append(c, 0)[i] = c[i])
      /\ Append(c, 0)[Len(c) + 1] = 0
  <2> HIDE DEF ChargeInv
  <2>1. c \in Seq(0 .. StoreTTL + 1) /\ 0 \in 0 .. StoreTTL + 1
    BY <1>6
  <2> QED
    BY <2>1, SMTT(30)
<1>10. charges' \in [Orders -> Seq(0 .. StoreTTL + 1)]
  BY <1>1, <1>7, <1>9 DEF ChargeInv
<1>11. ASSUME NEW p \in Orders
       PROVE  /\ Valid(stored'[p]) => charges'[p] # <<>>
              /\ \A k \in Calls : result'[p][k] = "confirmed" => charges'[p] # <<>>
              /\ \A i \in DOMAIN charges'[p] :
                    charges'[p][i] <= StoreTTL =>
                        i = Len(charges'[p]) /\ stored'[p].age <= charges'[p][i]
  <2>1. CASE p = o
    <3>1. ASSUME NEW i \in DOMAIN Append(c, 0), Append(c, 0)[i] <= StoreTTL
          PROVE  i = Len(Append(c, 0)) /\ 0 <= Append(c, 0)[i]
      BY <1>8, <1>9, <3>1
    <3> QED
      BY <1>5, <1>7, <1>9, <2>1, <3>1
  <2>2. CASE p # o
    BY <1>3, <2>2 DEF ChargeInv
  <2> QED
    BY <2>1, <2>2
<1> QED
  BY <1>5, <1>10, <1>11 DEF ChargeInv, Valid

(* An attempt confirms what was charged before, or charges.  Its end is of *)
(* one placement; the others, of the same order too, keep theirs.          *)
LEMMA EndsKeep ==
    ASSUME ChargeInv, NEW o \in Orders, NEW k, NEW how \in Reports, NEW bu,
           Ends(o, k, how, bu)
    PROVE  /\ result' \in [Orders -> [Calls -> Reports]]
           /\ \A p \in Orders \ {o} : result'[p] = result[p]
           /\ \A j \in Calls : result'[o][j] = result[o][j] \/ result'[o][j] = how
<1>1. result' = [result EXCEPT ![o][k] = how] /\ result \in [Orders -> [Calls -> Reports]]
  BY DEF Ends, ChargeInv
<1> QED
  BY <1>1

LEMMA ReportKeeps ==
    ASSUME ChargeInv, UNCHANGED <<stored, charges>>, NEW o \in Orders,
           result' \in [Orders -> [Calls -> Reports]],
           \A p \in Orders \ {o} : result'[p] = result[p],
           \A j \in Calls : \/ result'[o][j] = result[o][j]
                            \/ result'[o][j] # "confirmed" \/ charges[o] # <<>>
    PROVE  ChargeInv'
<1>1. ASSUME NEW p \in Orders, NEW j \in Calls, result'[p][j] = "confirmed"
      PROVE  charges[p] # <<>>
  BY <1>1 DEF ChargeInv
<1> QED
  BY <1>1 DEF ChargeInv, Valid

LEMMA AttemptKeeps ==
    ASSUME PatternsAssumption, ChargeInv, NEW o \in Orders, NEW k, NEW attempt,
           NEW bu, Attempt(o, k, attempt, bu)
    PROVE  ChargeInv'
<1>1. CASE Hit(o) /\ Ends(o, k, "confirmed", bu)
  <2>1. UNCHANGED <<stored, charges>> /\ charges[o] # <<>>
    BY <1>1 DEF Hit, ChargeInv
  <2>2. "confirmed" \in Reports /\ Ends(o, k, "confirmed", bu)
    BY <1>1 DEF Reports
  <2>3. /\ result' \in [Orders -> [Calls -> Reports]]
        /\ \A p \in Orders \ {o} : result'[p] = result[p]
    BY <2>2, EndsKeep
  <2> QED
    BY <2>1, <2>3, ReportKeeps
<1>2. CASE Charged(o) /\ Ends(o, k, "confirmed", bu)
  <2>1. "confirmed" \in Reports /\ Ends(o, k, "confirmed", bu)
    BY <1>2 DEF Reports
  <2>2. /\ result' \in [Orders -> [Calls -> Reports]]
        /\ \A p \in Orders \ {o} : result'[p] = result[p]
    BY <2>1, EndsKeep
  <2> QED
    BY <1>2, <2>2, ChargedKeeps
<1>3. CASE Rejected(o) /\ Ends(o, k, "deferred", bu)
  <2>1. UNCHANGED <<stored, charges>>
    BY <1>3 DEF Rejected
  <2>2. "deferred" \in Reports /\ Ends(o, k, "deferred", bu) /\ "deferred" # "confirmed"
    BY <1>3 DEF Reports
  <2>3. /\ result' \in [Orders -> [Calls -> Reports]]
        /\ \A p \in Orders \ {o} : result'[p] = result[p]
        /\ \A j \in Calls : result'[o][j] = result[o][j] \/ result'[o][j] = "deferred"
    BY <2>2, EndsKeep
  <2>4. \A j \in Calls : result'[o][j] = result[o][j] \/ result'[o][j] # "confirmed"
    BY <2>2, <2>3
  <2> QED
    BY <2>1, <2>3, <2>4, ReportKeeps
<1>4. CASE ServiceDown(o) /\ Ends(o, k, "failed", bu)
  <2>1. UNCHANGED <<stored, charges>>
    BY <1>4 DEF ServiceDown
  <2>2. "failed" \in Reports /\ Ends(o, k, "failed", bu) /\ "failed" # "confirmed"
    BY <1>4 DEF Reports
  <2>3. /\ result' \in [Orders -> [Calls -> Reports]]
        /\ \A p \in Orders \ {o} : result'[p] = result[p]
        /\ \A j \in Calls : result'[o][j] = result[o][j] \/ result'[o][j] = "failed"
    BY <2>2, EndsKeep
  <2>4. \A j \in Calls : result'[o][j] = result[o][j] \/ result'[o][j] # "confirmed"
    BY <2>2, <2>3
  <2> QED
    BY <2>1, <2>3, <2>4, ReportKeeps
<1>5. CASE ServiceDown(o) /\ UNCHANGED result
  BY <1>5 DEF ServiceDown, ChargeInv, Valid
<1> QED
  BY <1>1, <1>2, <1>3, <1>4, <1>5 DEF Attempt

LEMMA PaymentsTickKeeps ==
    ASSUME PatternsAssumption, ChargeInv, PaymentsTick
    PROVE  ChargeInv'
<1> DEFINE older(a) == Least(a + 1, StoreTTL + 1)
<1>1. /\ stored' = [o \in Orders |-> AgedEntry(stored[o])]
      /\ charges' = [o \in Orders |-> AgedTo(StoreTTL + 1, charges[o])]
      /\ result' = result
  BY DEF PaymentsTick
<1>2. StoreTTL \in Nat
  BY DEF PatternsAssumption
<1>3. /\ \A a \in 0 .. StoreTTL + 1 :
            older(a) \in 0 .. StoreTTL + 1 /\ (older(a) <= StoreTTL => a <= StoreTTL)
      /\ \A a, b \in 0 .. StoreTTL + 1 : a <= b => older(a) <= older(b)
  BY <1>2 DEF Least
<1>4. ASSUME NEW o \in Orders
      PROVE  /\ stored'[o] \in Paid /\ stored'[o].age = older(stored[o].age)
             /\ stored[o].age \in 0 .. StoreTTL + 1
             /\ charges'[o] \in Seq(0 .. StoreTTL + 1)
             /\ DOMAIN charges'[o] = DOMAIN charges[o]
             /\ Len(charges'[o]) = Len(charges[o])
             /\ \A i \in DOMAIN charges[o] :
                   /\ charges'[o][i] = older(charges[o][i])
                   /\ charges[o][i] \in 0 .. StoreTTL + 1
  <2> DEFINE c == charges[o]
             s == stored[o]
  <2>1. c \in Seq(0 .. StoreTTL + 1) /\ s \in Paid
    BY DEF ChargeInv
  <2>2. stored'[o] = [s EXCEPT !.age = older(@)]
    BY <1>1 DEF AgedEntry
  <2>3. charges'[o] = [i \in DOMAIN c |-> older(c[i])]
    BY <1>1 DEF AgedTo
  <2> HIDE DEF c, s, older
  <2>4. DOMAIN c = 1 .. Len(c) /\ Len(c) \in Nat /\ \A i \in DOMAIN c : c[i] \in 0 .. StoreTTL + 1
    BY <2>1
  <2>5. /\ charges'[o] \in Seq(0 .. StoreTTL + 1) /\ DOMAIN charges'[o] = DOMAIN c
        /\ Len(charges'[o]) = Len(c)
    BY <1>3, <2>3, <2>4
  <2>6. stored'[o] \in Paid /\ stored'[o].age = older(s.age) /\ s.age \in 0 .. StoreTTL + 1
    BY <1>3, <2>1, <2>2 DEF Paid
  <2> QED
    BY <2>3, <2>4, <2>5, <2>6 DEF c, s
<1> HIDE DEF older
<1>5. ASSUME NEW o \in Orders
      PROVE  /\ Valid(stored'[o]) => charges'[o] # <<>>
             /\ \A k \in Calls : result[o][k] = "confirmed" => charges'[o] # <<>>
  <2>1. Valid(stored'[o]) => Valid(stored[o])
    BY <1>3, <1>4 DEF Valid
  <2>2. charges[o] # <<>> => charges'[o] # <<>>
    <3>1. charges[o] \in Seq(0 .. StoreTTL + 1)
      BY DEF ChargeInv
    <3> QED
      BY <1>4, <3>1
  <2> QED
    BY <2>1, <2>2 DEF ChargeInv
<1>6. ASSUME NEW o \in Orders, NEW i \in DOMAIN charges[o], charges'[o][i] <= StoreTTL
      PROVE  i = Len(charges[o]) /\ stored'[o].age <= charges'[o][i]
  <2>1. charges[o][i] <= StoreTTL
    BY <1>3, <1>4, <1>6
  <2>2. i = Len(charges[o]) /\ stored[o].age <= charges[o][i]
    BY <2>1 DEF ChargeInv
  <2> QED
    BY <1>3, <1>4, <2>2
<1>7. stored' \in [Orders -> Paid] /\ charges' \in [Orders -> Seq(0 .. StoreTTL + 1)]
  BY <1>1, <1>4
<1> QED
  BY <1>1, <1>4, <1>5, <1>6, <1>7 DEF ChargeInv, Valid

LEMMA ChargeStep ==
    ASSUME PatternsAssumption, ChargeInv, [PaymentsNext]_payVars PROVE ChargeInv'
<1>1. ASSUME NEW o \in Orders, PlaceOrder(o) \/ \E k \in Calls : Retry(o, k)
      PROVE  ChargeInv'
  BY <1>1, AttemptKeeps DEF PlaceOrder, Retry
<1>2. CASE Flip
  BY <1>2 DEF Flip, ChargeInv, Valid
<1>3. CASE PaymentsTick
  BY <1>3, PaymentsTickKeeps
<1>4. CASE UNCHANGED payVars
  BY <1>4 DEF payVars, ChargeInv, Valid
<1> QED
  BY <1>1, <1>2, <1>3, <1>4 DEF PaymentsNext

(* A list keeps at most one of its elements when only its last can stay.   *)
LEMMA KeepsOne ==
    ASSUME NEW T, NEW seq \in Seq(T), NEW S,
           \A i \in DOMAIN seq : seq[i] \in S => i = Len(seq)
    PROVE  Len(Keep(seq, S)) <= 1
<1>1. PICK f : KeepsAt(f, seq, S)
  BY KeepPositions
<1>2. Keep(seq, S) \in Seq(T \cap S)
  BY KeepType
<1>3. Len(Keep(seq, S)) \in Nat /\ DOMAIN seq = 1 .. Len(seq)
  BY <1>2
<1>4. ASSUME Len(Keep(seq, S)) > 1 PROVE FALSE
  <2>1. 1 \in 1 .. Len(Keep(seq, S)) /\ 2 \in 1 .. Len(Keep(seq, S)) /\ 1 < 2
    BY <1>3, <1>4
  <2>2. /\ f[1] \in 1 .. Len(seq) /\ f[2] \in 1 .. Len(seq) /\ f[1] < f[2]
        /\ seq[f[1]] \in S /\ seq[f[2]] \in S
    BY <1>1, <1>2, <2>1 DEF KeepsAt
  <2>3. f[1] = Len(seq) /\ f[2] = Len(seq)
    BY <1>3, <2>2
  <2> QED
    BY <2>2, <2>3
<1> QED
  BY <1>3, <1>4

LEMMA ChargeHolds == ASSUME PatternsAssumption, ChargeInv PROVE ChargeFollowsOrder
<1>1. ASSUME NEW o \in Orders
      PROVE  Len(Within(StoreTTL + 1, charges[o])) <= 1
  <2>1. charges[o] \in Seq(0 .. StoreTTL + 1)
    BY DEF ChargeInv
  <2>2. \A i \in DOMAIN charges[o] :
           charges[o][i] \in 0 .. (StoreTTL + 1) - 1 => i = Len(charges[o])
    BY DEF ChargeInv, PatternsAssumption
  <2> QED
    BY <2>1, <2>2, KeepsOne DEF Within
<1>2. ConfirmedIsCharged
  BY DEF ChargeInv, ConfirmedIsCharged
<1> QED
  BY <1>1, <1>2 DEF ChargeFollowsOrder, ChargedOnce

(* However a client retries or reuses its keys, an order is charged once   *)
(* within the life of its stored response, what is confirmed was charged,  *)
(* and a key stands for one order (create_order, charge_payment and        *)
(* IdempotencyStore of resilience_demo.py).                                *)
THEOREM RetriesChargeOnce == Spec => []RetriesAreHarmless
<1>1. Init => BindingInv /\ ChargeInv
  BY PatternsAssumption, BindingStart, ChargeStart DEF Init
<1>2. (BindingInv /\ ChargeInv) /\ [Next]_vars => (BindingInv /\ ChargeInv)'
  BY PatternsAssumption, StepOfEach, BindingStep, ChargeStep
<1>3. BindingInv /\ ChargeInv => RetriesAreHarmless
  BY PatternsAssumption, BindingHolds, ChargeHolds DEF RetriesAreHarmless
<1>4. Spec => Init /\ [][Next]_vars
  BY PTL DEF Spec
<1> QED
  BY <1>1, <1>2, <1>3, <1>4, PTL

-----------------------------------------------------------------------------
(* Ages.  What falls into a window after a tick depends only on what fell  *)
(* into it before.                                                         *)
LEMMA AgedAppend ==
    ASSUME NEW cap \in Nat, NEW s \in Seq(Nat), NEW e \in Nat
    PROVE  /\ AgedTo(cap, Append(s, e)) = Append(AgedTo(cap, s), Least(e + 1, cap))
           /\ AgedTo(cap, s) \in Seq(0 .. cap) /\ Len(AgedTo(cap, s)) = Len(s)
           /\ Least(e + 1, cap) \in 0 .. cap
<1> DEFINE a == AgedTo(cap, s)
           more == Append(s, e)
           b == AgedTo(cap, more)
<1>1. \A n \in Nat : Least(n + 1, cap) \in 0 .. cap
  BY DEF Least
<1>2. DOMAIN s = 1 .. Len(s) /\ Len(s) \in Nat /\ \A i \in DOMAIN s : s[i] \in Nat
  OBVIOUS
<1>3. a = [i \in 1 .. Len(s) |-> Least(s[i] + 1, cap)]
  BY <1>2 DEF AgedTo
<1>4. a \in Seq(0 .. cap) /\ Len(a) = Len(s) /\ DOMAIN a = 1 .. Len(s)
  BY <1>1, <1>2, <1>3
<1>5. /\ DOMAIN more = 1 .. Len(s) + 1 /\ more[Len(s) + 1] = e
      /\ \A i \in 1 .. Len(s) : more[i] = s[i]
  BY <1>2
<1> HIDE DEF a, more
<1>6. b = [i \in 1 .. Len(s) + 1 |-> Least(more[i] + 1, cap)]
  BY <1>5 DEF AgedTo
<1> DEFINE x == Least(e + 1, cap)
<1>7. x \in 0 .. cap
  BY <1>1
<1>8. b \in Seq(0 .. cap) /\ Len(b) = Len(s) + 1 /\ b[Len(s) + 1] = x
      /\ \A i \in 1 .. Len(s) : b[i] = a[i]
  <2>1. more \in Seq(Nat)
    BY DEF more
  <2>2. \A i \in 1 .. Len(s) + 1 : more[i] \in Nat /\ Least(more[i] + 1, cap) \in 0 .. cap
    BY <1>1, <1>2, <1>5, <2>1
  <2> QED
    BY <1>2, <1>3, <1>5, <1>6, <2>2
<1> HIDE DEF b, x
<1>9. Append(a, x) = b
  <2>1. /\ Append(a, x) \in Seq(0 .. cap) /\ Len(Append(a, x)) = Len(s) + 1
        /\ Append(a, x)[Len(s) + 1] = x
        /\ \A i \in 1 .. Len(s) : Append(a, x)[i] = a[i]
    <3>1. Append(a, x) \in Seq(0 .. cap) /\ Len(Append(a, x)) = Len(a) + 1
      BY <1>4, <1>7, AppendProperties
    <3>2. Append(a, x)[Len(a) + 1] = x
      BY <1>4, <1>7, AppendProperties
    <3>3. \A i \in 1 .. Len(a) : Append(a, x)[i] = a[i]
      BY <1>4, <1>7, AppendProperties
    <3> QED
      BY <1>4, <3>1, <3>2, <3>3
  <2>2. \A i \in 1 .. Len(s) + 1 : i \in 1 .. Len(s) \/ i = Len(s) + 1
    BY <1>2
  <2>3. \A i \in 1 .. Len(s) + 1 : Append(a, x)[i] = b[i]
    BY <1>8, <2>1, <2>2
  <2> QED
    BY <1>8, <2>1, <2>3, SeqEqual
<1> QED
  BY <1>4, <1>7, <1>9 DEF a, b, x, more

LEMMA KeepAged ==
    ASSUME NEW cap \in Nat, NEW s \in Seq(Nat)
    PROVE  Within(cap, AgedTo(cap, s)) = Within(cap, AgedTo(cap, Within(cap, s)))
<1> DEFINE R == 0 .. cap - 1
           P == {t \in Seq(Nat) : Keep(AgedTo(cap, t), R) = Keep(AgedTo(cap, Keep(t, R)), R)}
<1>1. <<>> \in P
  <2>1. <<>> \in Seq(Nat) /\ Keep(<<>>, R) = <<>>
    BY KeepEmpty
  <2> QED
    BY <2>1
<1>2. ASSUME NEW t \in Seq(Nat), NEW e \in Nat, t \in P
      PROVE  Append(t, e) \in P
  <2> DEFINE x == Least(e + 1, cap)
             k == Keep(t, R)
             more == Append(t, e)
  <2>1. k \in Seq(Nat)
    <3>1. k \in Seq(Nat \cap R)
      BY KeepType
    <3> QED
      BY <3>1
  <2>2. Keep(more, R) = IF e \in R THEN Append(k, e) ELSE k
    BY KeepAppend
  <2>3. /\ AgedTo(cap, more) = Append(AgedTo(cap, t), x)
        /\ AgedTo(cap, t) \in Seq(Nat) /\ x \in Nat
    <3>1. AgedTo(cap, more) = Append(AgedTo(cap, t), x) /\ x \in 0 .. cap
          /\ AgedTo(cap, t) \in Seq(0 .. cap)
      BY AgedAppend
    <3> QED
      BY <3>1
  <2>4. /\ AgedTo(cap, Append(k, e)) = Append(AgedTo(cap, k), x)
        /\ AgedTo(cap, k) \in Seq(Nat)
    <3>1. /\ AgedTo(cap, Append(k, e)) = Append(AgedTo(cap, k), x)
          /\ AgedTo(cap, k) \in Seq(0 .. cap)
      BY <2>1, AgedAppend
    <3> QED
      BY <3>1
  <2>5. Keep(AgedTo(cap, t), R) = Keep(AgedTo(cap, k), R)
    BY <1>2
  <2>6. e \notin R => x \notin R
    BY DEF Least
  <2>7. more \in Seq(Nat)
    OBVIOUS
  <2> DEFINE at1 == AgedTo(cap, t)
             ak == AgedTo(cap, k)
  <2> HIDE DEF x, k, at1, ak, more, R
  <2>8. Keep(Append(at1, x), R) = IF x \in R THEN Append(Keep(at1, R), x) ELSE Keep(at1, R)
    BY <2>3, KeepAppend DEF at1
  <2>9. Keep(Append(ak, x), R) = IF x \in R THEN Append(Keep(ak, R), x) ELSE Keep(ak, R)
    BY <2>3, <2>4, KeepAppend DEF ak
  <2>10. Keep(AgedTo(cap, more), R) = Keep(AgedTo(cap, Keep(more, R)), R)
    <3>1. CASE e \in R
      BY <2>2, <2>3, <2>4, <2>5, <2>8, <2>9, <3>1 DEF at1, ak
    <3>2. CASE e \notin R
      BY <2>2, <2>3, <2>4, <2>5, <2>6, <2>8, <2>9, <3>2 DEF at1, ak
    <3> QED
      BY <3>1, <3>2
  <2> QED
    BY <2>7, <2>10 DEF more
<1> HIDE DEF P
<1>3. Seq(Nat) \subseteq P
  BY <1>1, <1>2, BySequence
<1> QED
  BY <1>3 DEF P, Within

(* Nothing more falls into a window when time passes, and what is kept     *)
(* stays when it is looked at again.                                       *)
LEMMA KeepTwice ==
    ASSUME NEW S, NEW s \in Seq(Nat)
    PROVE  Keep(Keep(s, S), S) = Keep(s, S)
<1>1. S \cap S = S
  OBVIOUS
<1> QED
  BY <1>1, KeepBoth

LEMMA WithinAged ==
    ASSUME NEW cap \in Nat, NEW s \in Seq(Nat)
    PROVE  Len(Within(cap, AgedTo(cap, s))) <= Len(Within(cap, s))
<1> DEFINE k == Within(cap, s)
<1>1. k \in Seq(Nat)
  <2>1. k \in Seq(Nat \cap (0 .. cap - 1))
    BY KeepType DEF Within
  <2> QED
    BY <2>1
<1>2. Within(cap, AgedTo(cap, s)) = Within(cap, AgedTo(cap, k))
  BY KeepAged
<1> HIDE DEF k
<1>3. AgedTo(cap, k) \in Seq(0 .. cap) /\ Len(AgedTo(cap, k)) = Len(k)
  <2>1. 0 \in Nat
    OBVIOUS
  <2> QED
    BY <1>1, <2>1, AgedAppend
<1>4. Len(Keep(AgedTo(cap, k), 0 .. cap - 1)) <= Len(AgedTo(cap, k))
  BY <1>3, KeepType
<1> QED
  BY <1>2, <1>3, <1>4 DEF k, Within

-----------------------------------------------------------------------------
(* The breaker's callers.  In the window the breaker's list has all that   *)
(* failed since the circuit last closed, however often it was pruned.      *)
InWindow(s) == Within(WindowSize, s)

EvidenceInv ==
    /\ cb \in Breaker /\ since \in Seq(Nat)
    /\ InWindow(cb.failures) = InWindow(since)
    /\ cb.state = "CLOSED" => Len(InWindow(since)) < FailureThreshold

LEMMA BreakerAges ==
    ASSUME PatternsAssumption, NEW b \in Breaker
    PROVE  b.failures \in Seq(Nat) /\ WindowSize \in Nat /\ 0 \in 0 .. WindowSize - 1
<1>1. b.failures \in Seq(0 .. WindowSize) /\ WindowSize \in Nat \ {0}
  BY DEF PatternsAssumption, Breaker
<1> QED
  BY <1>1

LEMMA WindowAppend ==
    ASSUME PatternsAssumption, NEW s \in Seq(Nat)
    PROVE  InWindow(Append(s, 0)) = Append(InWindow(s), 0)
<1>1. 0 \in 0 .. WindowSize - 1
  BY DEF PatternsAssumption
<1> QED
  BY <1>1, KeepAppend DEF InWindow, Within

(* What recording a failure does to a breaker.                             *)
LEMMA FailureRecorded ==
    ASSUME PatternsAssumption, NEW b \in Breaker
    PROVE  LET r == RecordFailure(b) IN
           /\ r \in Breaker
           /\ InWindow(r.failures) = Append(InWindow(b.failures), 0)
           /\ r.state = "CLOSED" <=>
                 b.state = "CLOSED" /\ Len(Append(InWindow(b.failures), 0)) < FailureThreshold
           /\ b.state \in {"OPEN", "HALF_OPEN"} => r.state = "OPEN"
           /\ b.state # "HALF_OPEN" => r.state # "HALF_OPEN"
           /\ r.opened = 0 \/ r.opened = b.opened
           /\ r.state = "OPEN" /\ b.state # "OPEN" => r.opened = 0
<1> DEFINE recorded == Append(b.failures, 0)
           kept == Within(WindowSize, recorded)
           r == RecordFailure(b)
<1>1. /\ b.failures \in Seq(Nat) /\ b.failures \in Seq(0 .. WindowSize)
      /\ b.state \in CircuitState /\ b.opened \in 0 .. RecoveryTimeout
      /\ WindowSize \in Nat \ {0} /\ RecoveryTimeout \in Nat /\ FailureThreshold \in Nat
  BY BreakerAges DEF Breaker, PatternsAssumption
<1>2. recorded \in Seq(0 .. WindowSize) /\ recorded \in Seq(Nat)
  BY <1>1
<1>3. kept \in Seq(0 .. WindowSize) /\ kept \in Seq(Nat) /\ Len(kept) \in Nat
  <2>2. kept \in Seq((0 .. WindowSize) \cap (0 .. WindowSize - 1))
    BY <1>2, KeepType DEF Within
  <2> HIDE DEF kept
  <2> QED
    BY <1>1, <2>2
<1>4. kept = Append(InWindow(b.failures), 0)
  BY <1>1, WindowAppend DEF InWindow
<1>5. InWindow(kept) = kept /\ InWindow(recorded) = kept
  BY <1>2, KeepTwice DEF InWindow, Within
<1>6. r = IF b.state = "HALF_OPEN"
          THEN [b EXCEPT !.state = "OPEN", !.opened = 0, !.failures = recorded]
          ELSE IF Len(kept) >= FailureThreshold
          THEN [b EXCEPT !.state = "OPEN", !.opened = 0, !.failures = kept]
          ELSE [b EXCEPT !.failures = kept]
  BY DEF RecordFailure
<1> HIDE DEF kept, recorded, r
<1>7. /\ r \in Breaker
      /\ \/ b.state = "HALF_OPEN" /\ r.state = "OPEN" /\ r.opened = 0 /\ r.failures = recorded
         \/ /\ b.state # "HALF_OPEN" /\ Len(kept) >= FailureThreshold
            /\ r.state = "OPEN" /\ r.opened = 0 /\ r.failures = kept
         \/ /\ b.state # "HALF_OPEN" /\ Len(kept) < FailureThreshold
            /\ r.state = b.state /\ r.opened = b.opened /\ r.failures = kept
  <2>1. b \in Breaker /\ 0 \in 0 .. RecoveryTimeout /\ "OPEN" \in CircuitState
    BY <1>1 DEF CircuitState
  <2>2. CASE b.state = "HALF_OPEN"
    <3> DEFINE b1 == [b EXCEPT !.state = "OPEN"]
               b2 == [b1 EXCEPT !.opened = 0]
    <3>1. b1 \in Breaker /\ b1.state = "OPEN"
      BY <2>1 DEF Breaker
    <3> HIDE DEF b1
    <3>2. b2 \in Breaker /\ b2.state = "OPEN" /\ b2.opened = 0
      BY <2>1, <3>1 DEF Breaker
    <3>3. r = [b2 EXCEPT !.failures = recorded]
      BY <1>6, <2>2 DEF b1
    <3> HIDE DEF b2
    <3> QED
      BY <1>2, <2>2, <3>2, <3>3 DEF Breaker
  <2>3. CASE b.state # "HALF_OPEN" /\ Len(kept) >= FailureThreshold
    <3> DEFINE b1 == [b EXCEPT !.state = "OPEN"]
               b2 == [b1 EXCEPT !.opened = 0]
    <3>1. b1 \in Breaker /\ b1.state = "OPEN"
      BY <2>1 DEF Breaker
    <3> HIDE DEF b1
    <3>2. b2 \in Breaker /\ b2.state = "OPEN" /\ b2.opened = 0
      BY <2>1, <3>1 DEF Breaker
    <3>3. r = [b2 EXCEPT !.failures = kept]
      BY <1>6, <2>3 DEF b1
    <3> HIDE DEF b2
    <3> QED
      BY <1>3, <2>3, <3>2, <3>3 DEF Breaker
  <2>4. CASE b.state # "HALF_OPEN" /\ Len(kept) < FailureThreshold
    <3>1. r = [b EXCEPT !.failures = kept]
      BY <1>1, <1>3, <1>6, <2>4
    <3> QED
      BY <1>3, <2>1, <2>4, <3>1 DEF Breaker
  <2> QED
    BY <1>1, <1>3, <2>2, <2>3, <2>4
<1>8. InWindow(r.failures) = kept
  BY <1>5, <1>7
<1>9. b.state \in {"CLOSED", "OPEN", "HALF_OPEN"} /\ FailureThreshold \in Nat /\ Len(kept) \in Nat
  BY <1>1, <1>3 DEF CircuitState
<1>10. r.state = "CLOSED" <=> b.state = "CLOSED" /\ Len(kept) < FailureThreshold
  BY <1>7, <1>9
<1>11. /\ b.state \in {"OPEN", "HALF_OPEN"} => r.state = "OPEN"
       /\ b.state # "HALF_OPEN" => r.state # "HALF_OPEN"
       /\ r.opened = 0 \/ r.opened = b.opened
       /\ r.state = "OPEN" /\ b.state # "OPEN" => r.opened = 0
  BY <1>7, <1>9
<1> QED
  BY <1>4, <1>7, <1>8, <1>10, <1>11, Zenon DEF r

LEMMA SuccessRecorded ==
    ASSUME NEW b \in Breaker
    PROVE  LET r == RecordSuccess(b) IN
           /\ r \in Breaker /\ r.opened = b.opened
           /\ b.state = "HALF_OPEN" => r.state = "CLOSED" /\ r.failures = <<>>
           /\ b.state # "HALF_OPEN" => r = b
<1>1. CASE b.state # "HALF_OPEN"
  BY <1>1 DEF RecordSuccess
<1>2. CASE b.state = "HALF_OPEN"
  <2> DEFINE b1 == [b EXCEPT !.state = "CLOSED"]
             r == RecordSuccess(b)
  <2>1. b1 \in Breaker /\ b1.state = "CLOSED" /\ b1.opened = b.opened
    BY DEF Breaker, CircuitState
  <2>2. r = [b1 EXCEPT !.failures = <<>>]
    BY <1>2 DEF RecordSuccess
  <2> HIDE DEF b1, r
  <2>3. r \in Breaker /\ r.state = "CLOSED" /\ r.opened = b.opened /\ r.failures = <<>>
    <3>1. <<>> \in Seq(0 .. WindowSize)
      OBVIOUS
    <3> DEFINE none == <<>>
    <3>2. none \in Seq(0 .. WindowSize) /\ r = [b1 EXCEPT !.failures = none]
      BY <2>2, <3>1
    <3> HIDE DEF none
    <3>3. r \in Breaker /\ r.state = "CLOSED" /\ r.opened = b.opened /\ r.failures = none
      BY <2>1, <3>2 DEF Breaker
    <3> QED
      BY <3>3 DEF none
  <2> QED
    BY <1>2, <2>3 DEF r
<1> QED
  BY <1>1, <1>2

LEMMA RequestAllowed ==
    ASSUME NEW b \in Breaker, Allows(b)
    PROVE  LET r == AllowRequest(b) IN
           /\ r \in Breaker /\ r.failures = b.failures /\ r.opened = b.opened
           /\ b.state = "CLOSED" => r = b
           /\ b.state = "OPEN" => r.state = "HALF_OPEN"
           /\ b.state # "HALF_OPEN"
BY DEF AllowRequest, Allows, Breaker, CircuitState

LEMMA BreakerAged ==
    ASSUME PatternsAssumption, NEW b \in Breaker
    PROVE  LET r == AgedBreaker(b) IN
           /\ r \in Breaker /\ r.state = b.state
           /\ r.failures = AgedTo(WindowSize, b.failures)
           /\ r.opened = Least(b.opened + 1, RecoveryTimeout)
<1> DEFINE r == AgedBreaker(b)
           b1 == [b EXCEPT !.opened = Least(@ + 1, RecoveryTimeout)]
<1>1. b.failures \in Seq(Nat) /\ WindowSize \in Nat
  BY BreakerAges
<1>2. AgedTo(WindowSize, b.failures) \in Seq(0 .. WindowSize)
  <2>1. 0 \in Nat
    OBVIOUS
  <2> QED
    BY <1>1, <2>1, AgedAppend
<1>3. b1 \in Breaker /\ b1.opened = Least(b.opened + 1, RecoveryTimeout) /\ b1.state = b.state
  <2>1. Least(b.opened + 1, RecoveryTimeout) \in 0 .. RecoveryTimeout
    BY DEF Breaker, PatternsAssumption, Least
  <2> QED
    BY <2>1 DEF Breaker
<1>4. r = [b1 EXCEPT !.failures = AgedTo(WindowSize, b.failures)]
  BY DEF AgedBreaker
<1> HIDE DEF r, b1
<1>5. r \in Breaker /\ r.state = b1.state /\ r.opened = b1.opened
      /\ r.failures = AgedTo(WindowSize, b.failures)
  BY <1>2, <1>3, <1>4 DEF Breaker
<1> QED
  BY <1>3, <1>5 DEF r

LEMMA EvidenceStart == ASSUME PatternsAssumption, CallsInit PROVE EvidenceInv
<1>1. <<>> \in Seq(Nat) /\ <<>> \in Seq(0 .. WindowSize)
  OBVIOUS
<1>2. InWindow(<<>>) = <<>>
  BY KeepEmpty DEF InWindow, Within
<1> QED
  BY <1>1, <1>2 DEF PatternsAssumption, CallsInit, EvidenceInv, NewBreaker, Breaker, CircuitState

LEMMA RequestEvidence ==
    ASSUME EvidenceInv, NEW c \in Callers, Request(c) PROVE EvidenceInv'
<1>1. cb \in Breaker /\ Allows(cb) /\ cb' = AllowRequest(cb) /\ since' = since
  BY DEF EvidenceInv, Request
<1>2. /\ cb' \in Breaker /\ cb'.failures = cb.failures
      /\ cb'.state = "CLOSED" => cb.state = "CLOSED"
  BY <1>1, RequestAllowed DEF Breaker, CircuitState
<1> QED
  BY <1>1, <1>2 DEF EvidenceInv, InWindow

LEMMA SucceedEvidence ==
    ASSUME PatternsAssumption, EvidenceInv, NEW c \in Callers, Succeed(c) PROVE EvidenceInv'
<1>1. /\ cb \in Breaker /\ cb' = RecordSuccess(cb)
      /\ since' = IF cb.state = "HALF_OPEN" THEN <<>> ELSE since
  BY DEF EvidenceInv, Succeed
<1>2. CASE cb.state = "HALF_OPEN"
  <2>1. cb' \in Breaker /\ cb'.failures = <<>> /\ since' = <<>>
    BY <1>1, <1>2, SuccessRecorded
  <2>2. InWindow(<<>>) = <<>> /\ <<>> \in Seq(Nat) /\ Len(<<>>) = 0
    BY KeepEmpty DEF InWindow, Within
  <2>3. 0 < FailureThreshold
    BY DEF PatternsAssumption
  <2> QED
    BY <2>1, <2>2, <2>3 DEF EvidenceInv, InWindow
<1>3. CASE cb.state # "HALF_OPEN"
  <2>1. cb' = cb /\ since' = since
    BY <1>1, <1>3, SuccessRecorded
  <2> QED
    BY <2>1 DEF EvidenceInv, InWindow
<1> QED
  BY <1>2, <1>3

LEMMA FailEvidence ==
    ASSUME PatternsAssumption, EvidenceInv, NEW c \in Callers, Fail(c)
    PROVE  /\ EvidenceInv'
           /\ cb.state = "CLOSED" /\ cb'.state = "OPEN" =>
                 Len(InWindow(since')) >= FailureThreshold
<1>1. /\ cb \in Breaker /\ cb' = RecordFailure(cb)
      /\ since \in Seq(Nat) /\ since' = Append(since, 0)
      /\ InWindow(cb.failures) = InWindow(since)
  BY DEF EvidenceInv, Fail
<1> DEFINE w == Append(InWindow(cb.failures), 0)
<1>2. /\ cb' \in Breaker /\ InWindow(cb'.failures) = w
      /\ cb'.state = "CLOSED" <=> cb.state = "CLOSED" /\ Len(w) < FailureThreshold
  BY <1>1, FailureRecorded
<1>3. InWindow(since') = w /\ since' \in Seq(Nat)
  BY <1>1, WindowAppend
<1>4. Len(w) \in Nat /\ FailureThreshold \in Nat
  <2>1. cb.failures \in Seq(Nat)
    BY <1>1, BreakerAges
  <2>2. InWindow(cb.failures) \in Seq(Nat \cap (0 .. WindowSize - 1))
    BY <2>1, KeepType DEF InWindow, Within
  <2>3. 0 \in Nat /\ InWindow(cb.failures) \in Seq(Nat)
    BY <2>2
  <2>4. w \in Seq(Nat)
    BY <2>3
  <2> HIDE DEF w
  <2> QED
    BY <2>4 DEF PatternsAssumption
<1> HIDE DEF w
<1>5. EvidenceInv'
  BY <1>2, <1>3 DEF EvidenceInv, InWindow
<1>6. ASSUME cb.state = "CLOSED", cb'.state = "OPEN"
      PROVE  Len(InWindow(since')) >= FailureThreshold
  BY <1>2, <1>3, <1>4, <1>6
<1> QED
  BY <1>5, <1>6

LEMMA TickEvidence ==
    ASSUME PatternsAssumption, EvidenceInv, BreakerTick PROVE EvidenceInv'
<1>1. /\ cb \in Breaker /\ cb' = AgedBreaker(cb)
      /\ since \in Seq(Nat) /\ since' = AgedTo(WindowSize, since)
      /\ InWindow(cb.failures) = InWindow(since)
  BY DEF EvidenceInv, BreakerTick
<1>2. /\ cb' \in Breaker /\ cb'.state = cb.state
      /\ cb'.failures = AgedTo(WindowSize, cb.failures)
  BY <1>1, BreakerAged
<1>3. cb.failures \in Seq(Nat) /\ WindowSize \in Nat
  BY <1>1, BreakerAges
<1>4. InWindow(cb'.failures) = InWindow(since')
  <2>1. InWindow(cb'.failures) = InWindow(AgedTo(WindowSize, InWindow(cb.failures)))
    BY <1>2, <1>3, KeepAged DEF InWindow
  <2>2. InWindow(since') = InWindow(AgedTo(WindowSize, InWindow(since)))
    BY <1>1, <1>3, KeepAged DEF InWindow
  <2> QED
    BY <1>1, <2>1, <2>2
<1>5. since' \in Seq(Nat)
  <2>1. 0 \in Nat
    OBVIOUS
  <2>2. since' \in Seq(0 .. WindowSize)
    BY <1>1, <1>3, <2>1, AgedAppend
  <2> QED
    BY <2>2
<1>6. Len(InWindow(since')) <= Len(InWindow(since))
  BY <1>1, <1>3, WithinAged DEF InWindow
<1>7. Len(InWindow(since)) \in Nat /\ Len(InWindow(since')) \in Nat /\ FailureThreshold \in Nat
  <2>1. \A s \in Seq(Nat) : InWindow(s) \in Seq(Nat \cap (0 .. WindowSize - 1))
    BY KeepType DEF InWindow, Within
  <2>2. \A s \in Seq(Nat) : Len(InWindow(s)) \in Nat
    BY <2>1
  <2> QED
    BY <1>1, <1>5, <2>2 DEF PatternsAssumption
<1>8. cb'.state = "CLOSED" => Len(InWindow(since')) < FailureThreshold
  <2>1. cb.state = "CLOSED" => Len(InWindow(since)) < FailureThreshold
    BY DEF EvidenceInv
  <2> QED
    BY <1>2, <1>6, <1>7, <2>1
<1> QED
  BY <1>2, <1>4, <1>5, <1>8 DEF EvidenceInv, InWindow

LEMMA EvidenceStep ==
    ASSUME PatternsAssumption, EvidenceInv, [CallsNext]_callVars
    PROVE  /\ EvidenceInv'
           /\ cb.state = "CLOSED" /\ cb'.state = "OPEN" =>
                 Len(InWindow(since')) >= FailureThreshold
<1>0. cb \in Breaker
  BY DEF EvidenceInv
<1>1. ASSUME NEW c \in Callers, Request(c)
      PROVE  EvidenceInv' /\ ~ (cb.state = "CLOSED" /\ cb'.state = "OPEN")
  <2>1. cb.state = "CLOSED" => cb' = cb
    BY <1>0, <1>1, RequestAllowed DEF Request
  <2> QED
    BY <1>1, <2>1, RequestEvidence
<1>2. ASSUME NEW c \in Callers, Succeed(c)
      PROVE  EvidenceInv' /\ ~ (cb.state = "CLOSED" /\ cb'.state = "OPEN")
  <2>1. cb.state = "CLOSED" => cb' = cb
    BY <1>0, <1>2, SuccessRecorded DEF Succeed
  <2> QED
    BY <1>2, <2>1, SucceedEvidence
<1>3. ASSUME NEW c \in Callers, Fail(c)
      PROVE  /\ EvidenceInv'
             /\ cb.state = "CLOSED" /\ cb'.state = "OPEN" =>
                   Len(InWindow(since')) >= FailureThreshold
  BY <1>3, FailEvidence
<1>4. ASSUME NEW c \in Callers, Lose(c)
      PROVE  EvidenceInv' /\ ~ (cb.state = "CLOSED" /\ cb'.state = "OPEN")
  BY <1>4 DEF Lose, EvidenceInv, InWindow
<1>5. CASE BreakerTick
  <2>1. cb'.state = cb.state
    BY <1>0, <1>5, BreakerAged DEF BreakerTick
  <2>2. EvidenceInv'
    BY <1>5, TickEvidence
  <2> QED
    BY <2>1, <2>2
<1>6. CASE UNCHANGED callVars
  <2>1. cb' = cb /\ since' = since
    BY <1>6 DEF callVars
  <2> QED
    BY <2>1 DEF EvidenceInv, InWindow
<1> QED
  BY <1>1, <1>2, <1>3, <1>4, <1>5, <1>6 DEF CallsNext

(* Half-open with nothing under way, every further request is refused.     *)
LEMMA TrapHolds ==
    ASSUME PatternsAssumption, EvidenceInv, [CallsNext]_callVars, Trapped PROVE Trapped'
<1>0. cb \in Breaker /\ cb.state = "HALF_OPEN" /\ calling = {}
  BY DEF EvidenceInv, Trapped
<1>1. ASSUME NEW c \in Callers, Request(c) PROVE FALSE
  BY <1>0, <1>1 DEF Request, Allows
<1>2. ASSUME NEW c \in Callers, Succeed(c) \/ Fail(c) \/ Lose(c) PROVE FALSE
  BY <1>0, <1>2 DEF Succeed, Fail, Lose
<1>3. CASE BreakerTick
  BY <1>0, <1>3, BreakerAged DEF BreakerTick, Trapped
<1>4. CASE UNCHANGED callVars
  BY <1>0, <1>4 DEF callVars, Trapped
<1> QED
  BY <1>1, <1>2, <1>3, <1>4 DEF CallsNext

(* The circuit breaker (CircuitBreaker of resilience_demo.py) is closed    *)
(* only while too few failures fall into the window, opens only when       *)
(* enough do, of those since it last closed, and once half-open without a  *)
(* call under way it stays so.                                             *)
THEOREM CircuitHasEvidence == Spec => CircuitFollowsEvidence
<1>1. Init => EvidenceInv
  BY PatternsAssumption, EvidenceStart DEF Init
<1>2. EvidenceInv /\ [Next]_vars => EvidenceInv'
  BY PatternsAssumption, StepOfEach, EvidenceStep
<1>3. EvidenceInv => ClosedBelowThreshold
  BY DEF EvidenceInv, ClosedBelowThreshold, InWindow
<1>4. EvidenceInv /\ [Next]_vars =>
        [cb.state = "CLOSED" /\ cb'.state = "OPEN"
           => Len(Within(WindowSize, since')) >= FailureThreshold]_callVars
  BY PatternsAssumption, StepOfEach, EvidenceStep DEF InWindow
<1>5. EvidenceInv /\ [Next]_vars => [Trapped => Trapped']_callVars
  BY PatternsAssumption, StepOfEach, TrapHolds
<1>6. Spec => Init /\ [][Next]_vars
  BY PTL DEF Spec
<1> QED
  BY <1>1, <1>2, <1>3, <1>4, <1>5, <1>6, PTL
     DEF CircuitFollowsEvidence, OpensOnEvidence, TrappedForEver

-----------------------------------------------------------------------------
(* The payment service.  Division by a constant, one step on.              *)
LEMMA DivMod ==
    ASSUME NEW t \in Nat, NEW d \in Nat \ {0}
    PROVE  t \div d \in Nat /\ t % d \in 0 .. d - 1 /\ t = d * (t \div d) + (t % d)
OBVIOUS

LEMMA DivOnly ==
    ASSUME NEW d \in Nat \ {0}, NEW q \in Nat, NEW r \in 0 .. d - 1,
           NEW p \in Nat, NEW s \in 0 .. d - 1, d * q + r = d * p + s
    PROVE  q = p /\ r = s
<1>1. ASSUME NEW x \in Nat, NEW y \in Nat, x < y PROVE d * x + d <= d * y
  <2>1. PICK z \in Nat : y = x + 1 + z
    <3>1. y - (x + 1) \in Nat /\ y = x + 1 + (y - (x + 1))
      BY <1>1
    <3> QED
      BY <3>1
  <2>2. d * (x + 1 + z) = d * x + d + d * z /\ d * z \in Nat /\ d * x \in Nat
    OBVIOUS
  <2> QED
    BY <2>1, <2>2
<1>2. d * q \in Nat /\ d * p \in Nat
  OBVIOUS
<1> DEFINE dq == d * q
           dp == d * p
<1>3. ~ (q < p) /\ ~ (p < q)
  <2>1. (q < p => dq + d <= dp) /\ (p < q => dp + d <= dq)
    BY <1>1
  <2> HIDE DEF dq, dp
  <2>2. dq + r = dp + s /\ dq \in Nat /\ dp \in Nat
    BY <1>2 DEF dq, dp
  <2> QED
    BY <2>1, <2>2
<1>4. q = p
  BY <1>3
<1>5. dq + r = dq + s /\ dq \in Nat
  BY <1>2, <1>4
<1> QED
  BY <1>4, <1>5

LEMMA DivNext ==
    ASSUME NEW t \in Nat, NEW d \in Nat \ {0}
    PROVE  \/ /\ t % d = d - 1 /\ (t + 1) % d = 0
              /\ (t + 1) \div d = t \div d + 1
           \/ /\ t % d < d - 1 /\ (t + 1) % d = (t % d) + 1
              /\ (t + 1) \div d = t \div d
<1> DEFINE q == t \div d
           r == t % d
           p == (t + 1) \div d
           s == (t + 1) % d
<1>0. t + 1 \in Nat
  OBVIOUS
<1>1. /\ q \in Nat /\ r \in 0 .. d - 1 /\ t = d * q + r
      /\ p \in Nat /\ s \in 0 .. d - 1 /\ t + 1 = d * p + s
  <2>1. q \in Nat /\ r \in 0 .. d - 1 /\ t = d * q + r
    BY DivMod
  <2>2. p \in Nat /\ s \in 0 .. d - 1 /\ t + 1 = d * p + s
    BY <1>0, DivMod
  <2> QED
    BY <2>1, <2>2
<1> HIDE DEF q, r, p, s
<1>2. CASE r = d - 1
  <2>1. d * q + r + 1 = d * (q + 1) + 0
    BY <1>1, <1>2
  <2>2. d * (q + 1) + 0 = d * p + s /\ q + 1 \in Nat /\ 0 \in 0 .. d - 1
    BY <1>1, <2>1
  <2>3. q + 1 = p /\ 0 = s
    BY <1>1, <2>2, DivOnly
  <2> QED
    BY <1>2, <2>3 DEF q, r, p, s
<1>3. CASE r < d - 1
  <2>1. d * q + (r + 1) = d * p + s /\ r + 1 \in 0 .. d - 1
    BY <1>1, <1>3
  <2>2. q = p /\ r + 1 = s
    BY <1>1, <2>1, DivOnly
  <2> QED
    BY <1>3, <2>2 DEF q, r, p, s
<1> QED
  BY <1>1, <1>2, <1>3

LEMMA DivLess ==
    ASSUME NEW t \in Nat, NEW d \in Nat \ {0}, d <= t
    PROVE  (t - d) \div d + 1 = t \div d
<1> DEFINE q == t \div d
           r == t % d
           p == (t - d) \div d
           s == (t - d) % d
<1>0. t - d \in Nat
  OBVIOUS
<1>1. /\ q \in Nat /\ r \in 0 .. d - 1 /\ t = d * q + r
      /\ p \in Nat /\ s \in 0 .. d - 1 /\ t - d = d * p + s
  BY <1>0, DivMod
<1> HIDE DEF q, r, p, s
<1>2. d * (p + 1) = d * p + d /\ p + 1 \in Nat
  BY <1>1
<1>3. d * (p + 1) + s = d * q + r
  BY <1>1, <1>2
<1>4. p + 1 = q
  BY <1>1, <1>2, <1>3, DivOnly
<1> QED
  BY <1>4 DEF p, q

LEMMA DivGrows ==
    ASSUME NEW d \in Nat \ {0}, NEW a \in Nat, NEW b \in Nat, a <= b
    PROVE  a \div d <= b \div d
<1> DEFINE P == {n \in Nat : a \div d <= (a + n) \div d}
<1>1. 0 \in P
  BY DivMod
<1>2. ASSUME NEW n \in Nat, n \in P PROVE n + 1 \in P
  <2>1. (a + n) \div d \in Nat /\ a + n \in Nat /\ (a + n) + 1 = a + (n + 1) /\ n + 1 \in Nat
    BY DivMod
  <2>2. ((a + n) + 1) \div d = (a + n) \div d + 1 \/ ((a + n) + 1) \div d = (a + n) \div d
    BY <2>1, DivNext
  <2>3. a \div d <= (a + n) \div d /\ a \div d \in Nat
    BY <1>2, DivMod
  <2> DEFINE x == a \div d
             y == (a + n) \div d
             z == ((a + n) + 1) \div d
  <2> HIDE DEF x, y, z
  <2>4. x <= z
    BY <2>1, <2>2, <2>3 DEF x, y, z
  <2>5. x <= (a + (n + 1)) \div d
    BY <2>1, <2>4 DEF z
  <2> QED
    BY <2>1, <2>5 DEF x
<1> HIDE DEF P
<1>3. b - a \in Nat /\ a + (b - a) = b
  OBVIOUS
<1>4. 0 .. b - a \subseteq P
  <2>1. \A n \in 0 .. b - a : n \in P /\ n < b - a => n + 1 \in P
    BY <1>2, <1>3
  <2> QED
    BY <1>1, <1>3, <2>1, UpTo
<1>5. b - a \in P
  BY <1>3, <1>4
<1> QED
  BY <1>3, <1>5 DEF P

(* The calls an outage has cost so far: as many as the window, cut at the  *)
(* multiples of its size, lets through while the circuit is closed, and    *)
(* afterwards those that tested the service.                               *)
Recent(s, n) == Len(Keep(s, 0 .. n))

AtMost(b, calls, t) ==
    LET windows == t \div WindowSize IN
    /\ b.state = "CLOSED" => calls <= FailureThreshold * windows
                                        + Recent(b.failures, t % WindowSize)
    /\ b.state = "OPEN" =>
          \/ calls = 0
          \/ /\ b.opened <= t
             /\ calls <= FailureThreshold * (windows + 1)
                           + (t - b.opened) \div RecoveryTimeout

Settled(b) ==
    /\ b \in Breaker /\ b.state # "HALF_OPEN"
    /\ b.state = "CLOSED" => Len(InWindow(b.failures)) < FailureThreshold

OutageInv ==
    /\ Settled(breaker)
    /\ outage \in [calls : Nat, time : Nat]
    /\ ~ healthy => AtMost(breaker, outage.calls, outage.time)

LEMMA KeepInner ==
    ASSUME NEW R, NEW S, S \subseteq R, NEW s \in Seq(Nat)
    PROVE  Keep(Keep(s, R), S) = Keep(s, S)
<1>1. R \cap S = S
  OBVIOUS
<1> QED
  BY <1>1, KeepBoth

(* A tick later there are as many that are at most a tick older.           *)
LEMMA RecentAged ==
    ASSUME NEW cap \in Nat, NEW n \in Nat, n + 1 < cap, NEW s \in Seq(Nat)
    PROVE  Recent(AgedTo(cap, s), n + 1) = Recent(s, n)
<1> DEFINE P == {t \in Seq(Nat) : Recent(AgedTo(cap, t), n + 1) = Recent(t, n)}
<1>1. <<>> \in P
  <2>1. <<>> \in Seq(Nat) /\ Keep(<<>>, 0 .. n) = <<>> /\ Keep(<<>>, 0 .. n + 1) = <<>>
    BY KeepEmpty
  <2>2. AgedTo(cap, <<>>) = <<>>
    BY DEF AgedTo
  <2> QED
    BY <2>1, <2>2 DEF Recent
<1>2. ASSUME NEW t \in Seq(Nat), NEW e \in Nat, t \in P
      PROVE  Append(t, e) \in P
  <2> DEFINE x == Least(e + 1, cap)
             a == AgedTo(cap, t)
  <2>1. AgedTo(cap, Append(t, e)) = Append(a, x) /\ a \in Seq(0 .. cap) /\ x \in 0 .. cap
    BY AgedAppend
  <2>2. e \in 0 .. n <=> x \in 0 .. n + 1
    BY DEF Least
  <2>3. Len(Keep(a, 0 .. n + 1)) = Len(Keep(t, 0 .. n))
    BY <1>2 DEF Recent
  <2> HIDE DEF x, a
  <2>4. a \in Seq(Nat) /\ x \in Nat
    BY <2>1
  <2>5. Keep(Append(a, x), 0 .. n + 1) =
           IF x \in 0 .. n + 1 THEN Append(Keep(a, 0 .. n + 1), x) ELSE Keep(a, 0 .. n + 1)
    BY <2>4, KeepAppend
  <2>6. Keep(Append(t, e), 0 .. n) =
           IF e \in 0 .. n THEN Append(Keep(t, 0 .. n), e) ELSE Keep(t, 0 .. n)
    BY KeepAppend
  <2>7. Keep(a, 0 .. n + 1) \in Seq(Nat \cap (0 .. n + 1)) /\ Keep(t, 0 .. n) \in Seq(Nat \cap (0 .. n))
    BY <2>4, KeepType
  <2> DEFINE u == Keep(a, 0 .. n + 1)
             v == Keep(t, 0 .. n)
  <2>8. u \in Seq(Nat) /\ v \in Seq(Nat)
    BY <2>7
  <2> HIDE DEF u, v
  <2>9. Len(Append(u, x)) = Len(u) + 1 /\ Len(Append(v, e)) = Len(v) + 1
    BY <2>4, <2>8
  <2>10. Len(Keep(Append(a, x), 0 .. n + 1)) = Len(Keep(Append(t, e), 0 .. n))
    BY <2>2, <2>3, <2>5, <2>6, <2>9 DEF u, v
  <2>11. Append(t, e) \in Seq(Nat)
    OBVIOUS
  <2> QED
    BY <2>1, <2>10, <2>11 DEF Recent
<1> HIDE DEF P
<1>3. Seq(Nat) \subseteq P
  BY <1>1, <1>2, BySequence
<1> QED
  BY <1>3 DEF P

(* No more of them than fall into the window, all of those at its end.     *)
LEMMA RecentInWindow ==
    ASSUME PatternsAssumption, NEW n \in 0 .. WindowSize - 1, NEW s \in Seq(Nat)
    PROVE  /\ Recent(s, n) = Recent(InWindow(s), n)
           /\ Recent(s, n) \in Nat /\ Recent(s, n) <= Len(InWindow(s))
           /\ Len(InWindow(s)) \in Nat
<1> DEFINE k == InWindow(s)
<1>1. 0 .. n \subseteq 0 .. WindowSize - 1
  BY DEF PatternsAssumption
<1>2. Keep(k, 0 .. n) = Keep(s, 0 .. n)
  BY <1>1, KeepInner DEF InWindow, Within
<1>3. k \in Seq(Nat \cap (0 .. WindowSize - 1))
  BY KeepType DEF InWindow, Within
<1> HIDE DEF k
<1>4. k \in Seq(Nat)
  BY <1>3
<1>5. Keep(k, 0 .. n) \in Seq(Nat \cap (0 .. n)) /\ Len(Keep(k, 0 .. n)) <= Len(k)
  BY <1>4, KeepType
<1>6. Len(Keep(k, 0 .. n)) \in Nat /\ Len(k) \in Nat
  BY <1>4, <1>5
<1> QED
  BY <1>2, <1>5, <1>6 DEF k, Recent

LEMMA RecentFailure ==
    ASSUME PatternsAssumption, NEW n \in 0 .. WindowSize - 1,
           NEW s \in Seq(Nat), NEW r \in Seq(Nat), InWindow(r) = Append(InWindow(s), 0)
    PROVE  Recent(r, n) = Recent(s, n) + 1
<1> DEFINE k == InWindow(s)
<1>1. k \in Seq(Nat \cap (0 .. WindowSize - 1))
  BY KeepType DEF InWindow, Within
<1>2. Recent(r, n) = Recent(InWindow(r), n) /\ Recent(s, n) = Recent(k, n)
  BY RecentInWindow
<1> HIDE DEF k
<1>3. k \in Seq(Nat) /\ 0 \in 0 .. n /\ 0 \in Nat
  BY <1>1 DEF PatternsAssumption
<1>4. Keep(Append(k, 0), 0 .. n) = Append(Keep(k, 0 .. n), 0)
  <2>1. ASSUME NEW e \in Nat, NEW S
        PROVE  Keep(Append(k, e), S) = IF e \in S THEN Append(Keep(k, S), e) ELSE Keep(k, S)
    BY <1>3, KeepAppend
  <2> QED
    BY <1>3, <2>1
<1> DEFINE u == Keep(k, 0 .. n)
<1>5. u \in Seq(Nat \cap (0 .. n))
  BY <1>3, KeepType
<1> HIDE DEF u
<1>6. Len(Append(u, 0)) = Len(u) + 1
  BY <1>5
<1> QED
  BY <1>2, <1>4, <1>6 DEF u, Recent, k

(* A failed call, of a closed breaker and of one that tests the service.   *)
LEMMA FailureCounts ==
    ASSUME PatternsAssumption, NEW b, Settled(b), Allows(b),
           NEW calls \in Nat, NEW t \in Nat, AtMost(b, calls, t)
    PROVE  LET r == RecordFailure(AllowRequest(b)) IN
           Settled(r) /\ AtMost(r, calls + 1, t)
<1> DEFINE a == AllowRequest(b)
           r == RecordFailure(a)
           windows == t \div WindowSize
           n == t % WindowSize
           base == FailureThreshold * windows
           tests == (t - b.opened) \div RecoveryTimeout
<1>1. /\ FailureThreshold \in Nat /\ RecoveryTimeout \in Nat \ {0} /\ WindowSize \in Nat \ {0}
  BY DEF PatternsAssumption
<1>2. b \in Breaker /\ b.state \in {"CLOSED", "OPEN"} /\ b.opened \in 0 .. RecoveryTimeout
  BY DEF Settled, Breaker, CircuitState
<1>3. /\ a \in Breaker /\ a.failures = b.failures /\ a.opened = b.opened
      /\ b.state = "CLOSED" => a = b
      /\ b.state = "OPEN" => a.state = "HALF_OPEN"
  BY <1>2, RequestAllowed
<1>4. windows \in Nat /\ n \in 0 .. WindowSize - 1
  BY <1>1, DivMod
<1>5. base \in Nat /\ FailureThreshold * (windows + 1) = base + FailureThreshold
  BY <1>1, <1>4
<1>6. b.failures \in Seq(Nat)
  BY <1>2, BreakerAges
<1>7. /\ r \in Breaker
      /\ InWindow(r.failures) = Append(InWindow(b.failures), 0)
      /\ r.state = "CLOSED" <=>
            a.state = "CLOSED" /\ Len(Append(InWindow(b.failures), 0)) < FailureThreshold
      /\ a.state \in {"OPEN", "HALF_OPEN"} => r.state = "OPEN"
      /\ a.state # "HALF_OPEN" => r.state # "HALF_OPEN"
      /\ r.state = "OPEN" /\ a.state # "OPEN" => r.opened = 0
  BY <1>3, FailureRecorded
<1>8. r.failures \in Seq(Nat) /\ r.state \in {"CLOSED", "OPEN", "HALF_OPEN"}
  BY <1>7, BreakerAges DEF Breaker, CircuitState
<1>9. Recent(r.failures, n) = Recent(b.failures, n) + 1
  BY <1>4, <1>6, <1>7, <1>8, RecentFailure
<1>10. /\ Recent(b.failures, n) \in Nat /\ Recent(b.failures, n) <= Len(InWindow(b.failures))
       /\ Len(InWindow(b.failures)) \in Nat
  BY <1>4, <1>6, RecentInWindow
<1>11. /\ b.state = "CLOSED" => calls <= base + Recent(b.failures, n)
                                /\ Len(InWindow(b.failures)) < FailureThreshold
       /\ b.state = "OPEN" => \/ calls = 0
                              \/ /\ b.opened <= t
                                 /\ calls <= FailureThreshold * (windows + 1) + tests
  BY DEF AtMost, Settled
<1>12. b.state = "OPEN" => b.opened = RecoveryTimeout
  BY <1>1, <1>2 DEF Allows
<1>13. t \div RecoveryTimeout \in Nat
  BY <1>1, DivMod
<1>14. b.state = "OPEN" /\ b.opened <= t => tests + 1 = t \div RecoveryTimeout
  BY <1>1, <1>12, DivLess
<1> DEFINE late == t \div RecoveryTimeout
<1>15. /\ AtMost(r, calls + 1, t) <=>
             /\ r.state = "CLOSED" => calls + 1 <= base + Recent(r.failures, n)
             /\ r.state = "OPEN" =>
                   \/ calls + 1 = 0
                   \/ /\ r.opened <= t
                      /\ calls + 1 <= FailureThreshold * (windows + 1)
                                        + (t - r.opened) \div RecoveryTimeout
  BY DEF AtMost
<1>16. t - 0 = t
  OBVIOUS
<1>17. tests + 1 = late => tests \in Int
  <2>1. CASE t - b.opened \in Nat
    BY <1>1, <2>1, DivMod
  <2>2. CASE t - b.opened \notin Nat
    BY <1>1, <1>2, <2>2
  <2> QED
    BY <2>1, <2>2
<1> SUFFICES Settled(r) /\ AtMost(r, calls + 1, t)
  OBVIOUS
<1> HIDE DEF a, r, windows, n, base, tests, late
<1>18. CASE b.state = "CLOSED"
  <2>1. a = b /\ a.state = "CLOSED"
    BY <1>3, <1>18
  <2>2. CASE r.state = "CLOSED"
    <3>1. Settled(r)
      BY <1>7, <2>2 DEF Settled
    <3>2. calls + 1 <= base + Recent(r.failures, n)
      BY <1>5, <1>9, <1>10, <1>11, <1>18
    <3> QED
      BY <1>15, <2>2, <3>1, <3>2
  <2>3. CASE r.state = "OPEN"
    <3>1. Settled(r) /\ r.opened = 0
      BY <1>7, <2>1, <2>3 DEF Settled
    <3>2. calls + 1 <= base + FailureThreshold + late
      BY <1>1, <1>5, <1>10, <1>11, <1>13, <1>18 DEF late
    <3> QED
      BY <1>5, <1>15, <1>16, <2>3, <3>1, <3>2 DEF late
  <2> QED
    BY <1>7, <1>8, <2>1, <2>2, <2>3
<1>19. CASE b.state = "OPEN"
  <2>1. r.state = "OPEN" /\ r.opened = 0 /\ Settled(r)
    BY <1>3, <1>7, <1>19 DEF Settled
  <2>2. calls + 1 <= base + FailureThreshold + late
    <3>1. CASE calls = 0
      BY <1>1, <1>5, <1>13, <3>1 DEF late, PatternsAssumption
    <3>2. CASE b.opened <= t /\ calls <= base + FailureThreshold + tests
      BY <1>1, <1>5, <1>13, <1>14, <1>17, <1>19, <3>2 DEF late
    <3> QED
      BY <1>5, <1>11, <1>19, <3>1, <3>2
  <2> QED
    BY <1>5, <1>15, <1>16, <2>1, <2>2 DEF late
<1> QED
  BY <1>2, <1>18, <1>19

(* A tick.  At the end of a window a closed breaker has let through fewer  *)
(* than the threshold in it.                                               *)
LEMMA TimeCounts ==
    ASSUME PatternsAssumption, NEW b, Settled(b),
           NEW calls \in Nat, NEW t \in Nat
    PROVE  /\ Settled(AgedBreaker(b))
           /\ AtMost(b, calls, t) => AtMost(AgedBreaker(b), calls, t + 1)
<1> DEFINE r == AgedBreaker(b)
           windows == t \div WindowSize
           n == t % WindowSize
           after == (t + 1) \div WindowSize
           m == (t + 1) % WindowSize
           base == FailureThreshold * windows
           next == FailureThreshold * after
           tests == (t - b.opened) \div RecoveryTimeout
           more == ((t + 1) - r.opened) \div RecoveryTimeout
<1>1. /\ FailureThreshold \in Nat \ {0} /\ RecoveryTimeout \in Nat \ {0}
      /\ WindowSize \in Nat \ {0}
  BY DEF PatternsAssumption
<1>2. b \in Breaker /\ b.state \in {"CLOSED", "OPEN"} /\ b.opened \in 0 .. RecoveryTimeout
  BY DEF Settled, Breaker, CircuitState
<1>3. /\ r \in Breaker /\ r.state = b.state
      /\ r.failures = AgedTo(WindowSize, b.failures)
      /\ r.opened = Least(b.opened + 1, RecoveryTimeout)
  BY <1>2, BreakerAged
<1>4. b.failures \in Seq(Nat) /\ r.failures \in Seq(Nat)
  BY <1>2, <1>3, BreakerAges
<1>5. Len(InWindow(r.failures)) <= Len(InWindow(b.failures))
  BY <1>1, <1>3, <1>4, WithinAged DEF InWindow
<1>6. windows \in Nat /\ n \in 0 .. WindowSize - 1 /\ after \in Nat /\ m \in 0 .. WindowSize - 1
  <2>1. windows \in Nat /\ n \in 0 .. WindowSize - 1
    BY <1>1, DivMod
  <2>2. t + 1 \in Nat
    OBVIOUS
  <2>3. after \in Nat /\ m \in 0 .. WindowSize - 1
    BY <1>1, <2>2, DivMod
  <2> QED
    BY <2>1, <2>3
<1>7. /\ Recent(b.failures, n) \in Nat
      /\ Recent(b.failures, n) <= Len(InWindow(b.failures))
      /\ Len(InWindow(b.failures)) \in Nat /\ Len(InWindow(r.failures)) \in Nat
      /\ Recent(r.failures, m) \in Nat
  <2>1. \A s \in Seq(Nat), i \in 0 .. WindowSize - 1 :
           /\ Recent(s, i) \in Nat /\ Recent(s, i) <= Len(InWindow(s))
           /\ Len(InWindow(s)) \in Nat
    BY RecentInWindow
  <2> QED
    BY <1>4, <1>6, <2>1
<1>8. Settled(r)
  BY <1>1, <1>2, <1>3, <1>5, <1>7 DEF Settled
<1>9. \/ n = WindowSize - 1 /\ m = 0 /\ after = windows + 1
      \/ n < WindowSize - 1 /\ m = n + 1 /\ after = windows
  BY <1>1, DivNext
<1>10. base \in Nat /\ next \in Nat /\ FailureThreshold * (windows + 1) = base + FailureThreshold
       /\ FailureThreshold * (after + 1) = next + FailureThreshold
  BY <1>1, <1>6
<1>11. next = base \/ next = base + FailureThreshold
  BY <1>9, <1>10
<1>12. n < WindowSize - 1 => Recent(r.failures, n + 1) = Recent(b.failures, n)
  BY <1>1, <1>3, <1>4, <1>6, RecentAged
<1>13. ASSUME b.opened <= t
       PROVE  r.opened <= t + 1 /\ tests \in Nat /\ more \in Nat /\ tests <= more
  <2>1. r.opened <= b.opened + 1 /\ r.opened \in Nat
    BY <1>1, <1>2, <1>3 DEF Least
  <2>2. t - b.opened \in Nat /\ (t + 1) - r.opened \in Nat /\ t - b.opened <= (t + 1) - r.opened
    BY <1>2, <1>13, <2>1
  <2>3. tests <= more
    BY <1>1, <2>2, DivGrows
  <2>4. tests \in Nat
    BY <1>1, <2>2, DivMod
  <2>5. more \in Nat
    BY <1>1, <2>2, DivMod
  <2> QED
    BY <1>2, <1>13, <2>1, <2>3, <2>4, <2>5
<1>14. AtMost(b, calls, t) <=>
          /\ b.state = "CLOSED" => calls <= base + Recent(b.failures, n)
          /\ b.state = "OPEN" =>
                \/ calls = 0
                \/ b.opened <= t /\ calls <= FailureThreshold * (windows + 1) + tests
  BY DEF AtMost
<1>15. AtMost(r, calls, t + 1) <=>
          /\ r.state = "CLOSED" => calls <= next + Recent(r.failures, m)
          /\ r.state = "OPEN" =>
                \/ calls = 0
                \/ r.opened <= t + 1 /\ calls <= FailureThreshold * (after + 1) + more
  BY DEF AtMost
<1>16. b.state = "CLOSED" => Len(InWindow(b.failures)) < FailureThreshold
  BY DEF Settled
<1> SUFFICES ASSUME AtMost(b, calls, t) PROVE AtMost(r, calls, t + 1)
  BY <1>8
<1> HIDE DEF r, windows, n, after, m, base, next, tests, more
<1>17. CASE b.state = "CLOSED"
  <2>1. calls <= base + Recent(b.failures, n) /\ Len(InWindow(b.failures)) < FailureThreshold
    BY <1>14, <1>16, <1>17
  <2>2. CASE n = WindowSize - 1 /\ next = base + FailureThreshold
    BY <1>1, <1>3, <1>7, <1>10, <1>15, <1>17, <2>1, <2>2
  <2>3. CASE n < WindowSize - 1 /\ m = n + 1 /\ after = windows
    <3>1. next = base
      BY <2>3 DEF next, base
    <3>2. Recent(r.failures, m) = Recent(b.failures, n)
      BY <1>12, <2>3
    <3> QED
      BY <1>3, <1>15, <1>17, <2>1, <3>1, <3>2
  <2>4. CASE n = WindowSize - 1 /\ after = windows + 1
    <3>1. next = base + FailureThreshold
      BY <1>10, <2>4 DEF next
    <3> QED
      BY <2>2, <2>4, <3>1
  <2> QED
    BY <1>9, <2>3, <2>4
<1>18. CASE b.state = "OPEN"
  <2>1. CASE calls = 0
    BY <1>3, <1>15, <1>18, <2>1
  <2>2. CASE b.opened <= t /\ calls <= FailureThreshold * (windows + 1) + tests
    <3>1. calls <= next + FailureThreshold + more
      BY <1>1, <1>10, <1>11, <1>13, <2>2
    <3> QED
      BY <1>3, <1>10, <1>13, <1>15, <1>18, <2>2, <3>1
  <2> QED
    BY <1>14, <1>18, <2>1, <2>2
<1> QED
  BY <1>2, <1>17, <1>18

LEMMA OutageStart == ASSUME PatternsAssumption, PaymentsInit PROVE OutageInv
<1>1. NewBreaker \in Breaker /\ NewBreaker.state = "CLOSED" /\ NewBreaker.failures = <<>>
  BY DEF PatternsAssumption, NewBreaker, Breaker, CircuitState
<1>2. InWindow(<<>>) = <<>> /\ Len(<<>>) = 0
  BY KeepEmpty DEF InWindow, Within
<1>3. Settled(NewBreaker)
  BY <1>1, <1>2 DEF Settled, PatternsAssumption
<1>4. breaker = NewBreaker /\ healthy /\ outage = [calls |-> 0, time |-> 0]
  BY DEF PaymentsInit
<1> QED
  BY <1>3, <1>4 DEF OutageInv

LEMMA SuccessSettles ==
    ASSUME PatternsAssumption, NEW b, Settled(b), Allows(b)
    PROVE  Settled(RecordSuccess(AllowRequest(b)))
<1> DEFINE a == AllowRequest(b)
           r == RecordSuccess(a)
<1>1. b \in Breaker /\ b.state \in {"CLOSED", "OPEN"}
  BY DEF Settled, Breaker, CircuitState
<1>2. /\ a \in Breaker
      /\ b.state = "CLOSED" => a = b
      /\ b.state = "OPEN" => a.state = "HALF_OPEN"
  BY <1>1, RequestAllowed
<1>3. /\ r \in Breaker
      /\ a.state = "HALF_OPEN" => r.state = "CLOSED" /\ r.failures = <<>>
      /\ a.state # "HALF_OPEN" => r = a
  BY <1>2, SuccessRecorded
<1>4. InWindow(<<>>) = <<>> /\ Len(<<>>) = 0 /\ FailureThreshold > 0
  BY KeepEmpty DEF InWindow, Within, PatternsAssumption
<1> SUFFICES Settled(r)
  OBVIOUS
<1> HIDE DEF a, r
<1>5. CASE b.state = "CLOSED"
  BY <1>2, <1>3, <1>5 DEF Settled
<1>6. CASE b.state = "OPEN"
  BY <1>2, <1>3, <1>4, <1>6 DEF Settled
<1> QED
  BY <1>1, <1>5, <1>6

LEMMA OutageStep ==
    ASSUME PatternsAssumption, OutageInv, [PaymentsNext]_payVars PROVE OutageInv'
<1>0. /\ Settled(breaker) /\ outage \in [calls : Nat, time : Nat]
      /\ ~ healthy => AtMost(breaker, outage.calls, outage.time)
      /\ outage.calls \in Nat /\ outage.time \in Nat
  BY DEF OutageInv
<1>1. ASSUME NEW o \in Orders, NEW k, NEW attempt, NEW bu,
             Attempt(o, k, attempt, bu), healthy' = healthy
      PROVE  OutageInv'
  <2>1. CASE UNCHANGED <<breaker, outage>>
    BY <1>0, <1>1, <2>1 DEF OutageInv
  <2>2. CASE Charged(o)
    <3>1. healthy /\ outage' = outage /\ breaker' = RecordSuccess(AllowRequest(breaker))
          /\ Allows(breaker)
      BY <2>2 DEF Charged
    <3>2. Settled(breaker')
      BY <1>0, <3>1, SuccessSettles
    <3> QED
      BY <1>0, <1>1, <3>1, <3>2 DEF OutageInv
  <2>3. CASE ServiceDown(o)
    <3>1. /\ ~ healthy /\ Allows(breaker)
          /\ breaker' = RecordFailure(AllowRequest(breaker))
          /\ outage' = [outage EXCEPT !.calls = @ + 1]
      BY <2>3 DEF ServiceDown
    <3>2. Settled(breaker') /\ AtMost(breaker', outage.calls + 1, outage.time)
      BY <1>0, <3>1, FailureCounts
    <3>3. /\ outage' \in [calls : Nat, time : Nat]
          /\ outage'.calls = outage.calls + 1 /\ outage'.time = outage.time
      BY <1>0, <3>1
    <3> QED
      BY <3>2, <3>3 DEF OutageInv
  <2> QED
    BY <1>1, <2>1, <2>2, <2>3 DEF Attempt, Hit, Rejected
<1>2. ASSUME NEW o \in Orders, PlaceOrder(o) \/ \E k \in Calls : Retry(o, k)
      PROVE  OutageInv'
  BY <1>1, <1>2 DEF PlaceOrder, Retry
<1>3. CASE Flip
  <2>1. breaker' = breaker /\ outage' = [calls |-> 0, time |-> 0]
    BY <1>3 DEF Flip
  <2>2. FailureThreshold * (0 \div WindowSize) \in Nat /\ 0 % WindowSize \in 0 .. WindowSize - 1
    BY DivMod DEF PatternsAssumption
  <2>3. breaker.failures \in Seq(Nat)
    BY <1>0, BreakerAges DEF Settled
  <2>4. Recent(breaker.failures, 0 % WindowSize) \in Nat
    BY <2>2, <2>3, RecentInWindow
  <2>5. AtMost(breaker, 0, 0)
    BY <2>2, <2>4 DEF AtMost
  <2> QED
    BY <1>0, <2>1, <2>5 DEF OutageInv
<1>4. CASE PaymentsTick
  <2>1. /\ breaker' = AgedBreaker(breaker) /\ healthy' = healthy
        /\ outage' = IF healthy THEN outage ELSE [outage EXCEPT !.time = @ + 1]
    BY <1>4 DEF PaymentsTick
  <2>2. /\ Settled(breaker')
        /\ ~ healthy => AtMost(breaker', outage.calls, outage.time + 1)
    BY <1>0, <2>1, TimeCounts
  <2>3. /\ outage' \in [calls : Nat, time : Nat]
        /\ ~ healthy => outage'.calls = outage.calls /\ outage'.time = outage.time + 1
    BY <1>0, <2>1
  <2> QED
    BY <2>1, <2>2, <2>3 DEF OutageInv
<1>5. CASE UNCHANGED payVars
  BY <1>0, <1>5 DEF payVars, OutageInv
<1> QED
  BY <1>2, <1>3, <1>4, <1>5 DEF PaymentsNext

LEMMA OutageHolds == ASSUME PatternsAssumption, OutageInv PROVE NoHammering
<1> SUFFICES ASSUME ~ healthy
             PROVE  outage.calls <= FailureThreshold * (outage.time \div WindowSize + 1)
                                      + outage.time \div RecoveryTimeout
  BY DEF NoHammering
<1> DEFINE calls == outage.calls
           t == outage.time
           windows == t \div WindowSize
           n == t % WindowSize
           base == FailureThreshold * windows
           tests == (t - breaker.opened) \div RecoveryTimeout
           late == t \div RecoveryTimeout
<1>1. /\ FailureThreshold \in Nat \ {0} /\ RecoveryTimeout \in Nat \ {0}
      /\ WindowSize \in Nat \ {0} /\ calls \in Nat /\ t \in Nat
  BY DEF PatternsAssumption, OutageInv
<1>2. /\ Settled(breaker) /\ breaker \in Breaker /\ breaker.state \in {"CLOSED", "OPEN"}
      /\ breaker.opened \in 0 .. RecoveryTimeout
  BY DEF OutageInv, Settled, Breaker, CircuitState
<1>3. windows \in Nat /\ n \in 0 .. WindowSize - 1
  BY <1>1, DivMod
<1>4. late \in Nat
  BY <1>1, DivMod
<1>5. base \in Nat /\ FailureThreshold * (windows + 1) = base + FailureThreshold
  BY <1>1, <1>3
<1>6. /\ breaker.state = "CLOSED" => calls <= base + Recent(breaker.failures, n)
      /\ breaker.state = "OPEN" =>
            \/ calls = 0
            \/ breaker.opened <= t /\ calls <= FailureThreshold * (windows + 1) + tests
  BY DEF OutageInv, AtMost
<1>7. breaker.failures \in Seq(Nat)
  BY <1>2, BreakerAges
<1>8. /\ Recent(breaker.failures, n) \in Nat
      /\ Recent(breaker.failures, n) <= Len(InWindow(breaker.failures))
      /\ Len(InWindow(breaker.failures)) \in Nat
  BY <1>3, <1>7, RecentInWindow
<1>9. breaker.state = "CLOSED" => Len(InWindow(breaker.failures)) < FailureThreshold
  BY <1>2 DEF Settled
<1>10. ASSUME breaker.opened <= t PROVE tests \in Nat /\ tests <= late
  <2>1. t - breaker.opened \in Nat /\ t - breaker.opened <= t
    BY <1>1, <1>2, <1>10
  <2>2. tests <= late
    BY <1>1, <2>1, DivGrows
  <2>3. tests \in Nat
    BY <1>1, <2>1, DivMod
  <2> QED
    BY <2>2, <2>3
<1> SUFFICES calls <= FailureThreshold * (windows + 1) + late
  OBVIOUS
<1> HIDE DEF calls, t, windows, n, base, tests, late
<1>11. CASE breaker.state = "CLOSED"
  BY <1>1, <1>4, <1>5, <1>6, <1>8, <1>9, <1>11
<1>12. CASE breaker.state = "OPEN"
  BY <1>1, <1>4, <1>5, <1>6, <1>10, <1>12
<1> QED
  BY <1>2, <1>11, <1>12

(* However many orders are placed and retried, a payment service that is   *)
(* down gets no more calls than the threshold for each window and one test *)
(* for each recovery period (demo_combined of resilience_demo.py).         *)
THEOREM OutageIsSpared == Spec => []NoHammering
<1>1. Init => OutageInv
  BY PatternsAssumption, OutageStart DEF Init
<1>2. OutageInv /\ [Next]_vars => OutageInv'
  BY PatternsAssumption, StepOfEach, OutageStep
<1>3. OutageInv => NoHammering
  BY PatternsAssumption, OutageHolds
<1>4. Spec => Init /\ [][Next]_vars
  BY PTL DEF Spec
<1> QED
  BY <1>1, <1>2, <1>3, <1>4, PTL

-----------------------------------------------------------------------------
(***************************************************************************)
(* Short polling: the server's counts and the pollers'.  An address has    *)
(* been told the statuses up to the one last seen, and a poller has heard  *)
(* them in their order, so that a new one is above all others.             *)
(***************************************************************************)
Heard(h) == {h[i] : i \in DOMAIN h}
Highs(h) == {k \in DOMAIN h : \A i \in 1 .. k - 1 : h[i] < h[k]}

LEMMA HighsAppend ==
    ASSUME NEW h \in Seq(Nat), NEW x \in Nat, \A i \in DOMAIN h : h[i] <= x
    PROVE  /\ Heard(Append(h, x)) = Heard(h) \cup {x}
           /\ Highs(Append(h, x)) =
                 IF x \in Heard(h) THEN Highs(h) ELSE Highs(h) \cup {Len(h) + 1}
           /\ IsFiniteSet(Highs(h)) /\ Len(h) + 1 \notin Highs(h)
<1> DEFINE g == Append(h, x)
           n == Len(h)
<1>1. /\ n \in Nat /\ DOMAIN h = 1 .. n /\ DOMAIN g = 1 .. n + 1
      /\ g[n + 1] = x /\ \A i \in 1 .. n : g[i] = h[i] /\ h[i] \in Nat
  OBVIOUS
<1> HIDE DEF g, n
<1>2. Heard(g) = Heard(h) \cup {x}
  BY <1>1 DEF Heard
<1>3. \A k \in 1 .. n : k \in Highs(g) <=> k \in Highs(h)
  <2>1. ASSUME NEW k \in 1 .. n PROVE \A i \in 1 .. k - 1 : g[i] = h[i] /\ g[k] = h[k]
    BY <1>1
  <2> QED
    BY <1>1, <2>1 DEF Highs
<1>4. n + 1 \in Highs(g) <=> x \notin Heard(h)
  <2>1. n + 1 \in Highs(g) <=> \A i \in 1 .. n : h[i] < x
    <3>1. 1 .. (n + 1) - 1 = 1 .. n
      BY <1>1
    <3> QED
      BY <1>1, <3>1 DEF Highs
  <2>2. x \notin Heard(h) <=> \A i \in 1 .. n : h[i] # x
    BY <1>1 DEF Heard
  <2>3. \A i \in 1 .. n : h[i] <= x /\ h[i] \in Nat
    BY <1>1
  <2>4. (\A i \in 1 .. n : h[i] < x) <=> (\A i \in 1 .. n : h[i] # x)
    BY <2>3
  <2> QED
    BY <2>1, <2>2, <2>4
<1>5. Highs(g) \subseteq 1 .. n + 1 /\ Highs(h) \subseteq 1 .. n
  BY <1>1 DEF Highs
<1>6. IsFiniteSet(Highs(h))
  <2>1. 1 \in Int /\ n \in Int
    BY <1>1
  <2>2. IsFiniteSet(1 .. n)
    BY <2>1, FS_Interval
  <2> QED
    BY <1>5, <2>2, FS_Subset
<1>7. n + 1 \notin Highs(h)
  BY <1>1, <1>5
<1>8. Highs(g) = IF x \in Heard(h) THEN Highs(h) ELSE Highs(h) \cup {n + 1}
  <2> DEFINE new == n + 1
  <2>1. \A k : k \in Highs(g) => k \in 1 .. n \/ k = new
    BY <1>1, <1>5
  <2>2. \A k : k \in Highs(h) => k \in 1 .. n
    BY <1>5
  <2>3. new \in Highs(g) <=> x \notin Heard(h)
    BY <1>4
  <2> HIDE DEF new
  <2>4. CASE x \in Heard(h)
    <3>1. \A k : k \in Highs(g) <=> k \in Highs(h)
      BY <1>3, <2>1, <2>2, <2>3, <2>4
    <3> QED
      BY <2>4, <3>1
  <2>5. CASE x \notin Heard(h)
    <3>1. \A k : k \in Highs(g) <=> k \in Highs(h) \cup {new}
      BY <1>3, <2>1, <2>2, <2>3, <2>5
    <3> QED
      BY <2>5, <3>1 DEF new
  <2> QED
    BY <2>4, <2>5
<1> QED
  BY <1>2, <1>6, <1>7, <1>8 DEF g, n

(* There are as many highs as different statuses, which is what the        *)
(* simulation of metrics.py counts.                                        *)
Sums(h) == IsFiniteSet(Heard(h)) /\ Cardinality(Heard(h)) = SimulatedUseful(h)

LEMMA SumsEmpty == Sums(<<>>) /\ SimulatedUseful(<<>>) = 0
<1> DEFINE none == <<>>
<1>1. DOMAIN none = {}
  OBVIOUS
<1> HIDE DEF none
<1>2. Heard(none) = {} /\ {k \in DOMAIN none : \A i \in 1 .. k - 1 : none[i] < none[k]} = {}
  BY <1>1 DEF Heard
<1>3. SimulatedUseful(none) = 0
  BY <1>2, FS_EmptySet DEF SimulatedUseful
<1> QED
  BY <1>2, <1>3, FS_EmptySet DEF Sums, none

LEMMA SumsAppend ==
    ASSUME NEW h \in Seq(Nat), NEW x \in Nat, \A i \in DOMAIN h : h[i] <= x, Sums(h)
    PROVE  /\ Sums(Append(h, x))
           /\ SimulatedUseful(h) \in Nat
           /\ SimulatedUseful(Append(h, x)) =
                 IF x \in Heard(h) THEN SimulatedUseful(h) ELSE SimulatedUseful(h) + 1
<1> DEFINE g == Append(h, x)
<1>1. /\ Heard(g) = Heard(h) \cup {x}
      /\ Highs(g) = IF x \in Heard(h) THEN Highs(h) ELSE Highs(h) \cup {Len(h) + 1}
      /\ IsFiniteSet(Highs(h)) /\ Len(h) + 1 \notin Highs(h)
  BY HighsAppend
<1>2. SimulatedUseful(h) = Cardinality(Highs(h)) /\ SimulatedUseful(g) = Cardinality(Highs(g))
  BY DEF SimulatedUseful, Highs
<1> HIDE DEF g
<1>3. Cardinality(Highs(h)) \in Nat
  BY <1>1, FS_CardinalityType
<1>4. Cardinality(Highs(h) \cup {Len(h) + 1}) = Cardinality(Highs(h)) + 1
  BY <1>1, FS_AddElement
<1>5. SimulatedUseful(g) =
         IF x \in Heard(h) THEN SimulatedUseful(h) ELSE SimulatedUseful(h) + 1
  BY <1>1, <1>2, <1>4
<1>6. /\ IsFiniteSet(Heard(h) \cup {x})
      /\ Cardinality(Heard(h) \cup {x}) =
            IF x \in Heard(h) THEN Cardinality(Heard(h)) ELSE Cardinality(Heard(h)) + 1
  BY FS_AddElement DEF Sums
<1>7. Sums(g)
  BY <1>1, <1>5, <1>6 DEF Sums
<1> QED
  BY <1>2, <1>3, <1>5, <1>7 DEF g

Statuses == 0 .. LastStatus
PollerState ==
    [at : {"start", "sleeping", "answered", "ended", "raised"}, last : Statuses,
     polls : 0 .. MaxPolls, answer : Statuses \cup {Unseen},
     total : Nat, useful : Nat, wasted : Nat]

PollTypes ==
    /\ orderStatus \in [Pollers -> Statuses \cup {Unseen}]
    /\ lastSeen \in [Addresses -> [Pollers -> Statuses \cup {Unseen}]]
    /\ tracked \in [total : Nat, useful : Nat, wasted : Nat]
    /\ poller \in [Pollers -> PollerState]
    /\ told \in [Addresses -> [Pollers -> SUBSET Statuses]]
    /\ heard \in [Pollers -> Seq(Statuses)]
    /\ peeks \in Nat /\ stops \in Nat

(* What address a has been told of the order of p.                         *)
TellsOf(a, p) ==
    /\ orderStatus[p] = Unseen => told[a][p] = {}
    /\ orderStatus[p] # Unseen => \A s \in told[a][p] : s <= orderStatus[p]
    /\ IF told[a][p] = {} THEN lastSeen[a][p] = Unseen
       ELSE /\ lastSeen[a][p] \in told[a][p]
            /\ \A s \in told[a][p] : s <= lastSeen[a][p]

News == {t \in Addresses \X Pollers \X (0 .. LastStatus) : t[3] \in told[t[1]][t[2]]}

NewsCounted ==
    /\ IsFiniteSet(News)
    /\ tracked.useful = Cardinality(News)
    /\ tracked.total = tracked.useful + tracked.wasted

(* What p has heard, and what it makes of it.                              *)
Tally(h, last, useful) ==
    /\ \A i, j \in DOMAIN h : i < j => h[i] <= h[j]
    /\ Sums(h)
    /\ last = (IF h = <<>> THEN 0 ELSE h[Len(h)])
    /\ useful = SimulatedUseful(h) - (IF h # <<>> /\ h[1] = 0 THEN 1 ELSE 0)

NoneAbove(h, x) == \A i \in DOMAIN h : h[i] <= x

HearsOf(p) ==
    /\ Tally(heard[p], poller[p].last, poller[p].useful)
    /\ poller[p].total = Len(heard[p])

Waits(p) ==
    LET q == poller[p]
        h == heard[p]
    IN  /\ q.at = "start" => orderStatus[p] = Unseen /\ h = <<>> /\ q.polls = 0
        /\ q.at = "sleeping" => q.polls < MaxPolls
        /\ q.at = "ended" => q.last = LastStatus \/ q.polls = MaxPolls
        /\ orderStatus[p] # Unseen => \A i \in DOMAIN h : h[i] <= orderStatus[p]
        /\ q.at = "answered" /\ q.answer # Unseen =>
              /\ \A i \in DOMAIN h : h[i] <= q.answer
              /\ orderStatus[p] # Unseen => q.answer <= orderStatus[p]

Alone(p) ==
    LET q == poller[p] IN
    peeks = 0 /\ stops = 0 =>
        /\ q.at \in {"start", "sleeping", "ended"} => told[AddressOf[p]][p] = Heard(heard[p])
        /\ q.at = "answered" =>
              told[AddressOf[p]][p] = Heard(heard[p]) \cup ({q.answer} \ {Unseen})

PollInv ==
    /\ PollTypes
    /\ \A a \in Addresses, p \in Pollers : TellsOf(a, p)
    /\ NewsCounted
    /\ \A p \in Pollers : HearsOf(p) /\ Waits(p) /\ Alone(p)

LEMMA PollStart == ASSUME PollingAssumption, PollInit PROVE PollInv
<1> DEFINE none == <<>>
           start == [at |-> "start", last |-> 0, polls |-> 0, answer |-> Unseen,
                     total |-> 0, useful |-> 0, wasted |-> 0]
<1>1. \A S : none \in Seq(S) /\ DOMAIN none = {} /\ Len(none) = 0
  OBVIOUS
<1>2. /\ orderStatus = [p \in Pollers |-> Unseen]
      /\ lastSeen = [a \in Addresses |-> [p \in Pollers |-> Unseen]]
      /\ tracked = [total |-> 0, useful |-> 0, wasted |-> 0]
      /\ poller = [p \in Pollers |-> start]
      /\ told = [a \in Addresses |-> [p \in Pollers |-> {}]]
      /\ heard = [p \in Pollers |-> none]
      /\ peeks = 0 /\ stops = 0
  BY DEF PollInit, NothingSeen, NoCounts
<1>3. start \in PollerState /\ start.at = "start" /\ start.last = 0 /\ start.total = 0
      /\ start.useful = 0 /\ start.polls = 0
  BY DEF PollingAssumption, PollerState, Statuses
<1>4. Sums(none) /\ SimulatedUseful(none) = 0
  BY SumsEmpty
<1>5. Heard(none) = {}
  BY <1>1 DEF Heard
<1> HIDE DEF start, none
<1>6. PollTypes
  BY <1>1, <1>2, <1>3 DEF PollTypes
<1>7. \A a \in Addresses, p \in Pollers : TellsOf(a, p)
  BY <1>2 DEF TellsOf
<1>8. NewsCounted
  <2>1. News = {}
    BY <1>2 DEF News
  <2> QED
    BY <1>2, <2>1, FS_EmptySet DEF NewsCounted
<1>9. ASSUME NEW p \in Pollers PROVE HearsOf(p) /\ Waits(p) /\ Alone(p)
  <2>1. poller[p] = start /\ heard[p] = none /\ orderStatus[p] = Unseen
    BY <1>2
  <2>2. HearsOf(p)
    BY <1>1, <1>3, <1>4, <2>1 DEF HearsOf, Tally, none
  <2>3. Waits(p)
    BY <1>3, <2>1 DEF Waits, none
  <2>4. Alone(p)
    <3>1. AddressOf[p] \in Addresses
      BY DEF PollingAssumption
    <3>2. told[AddressOf[p]][p] = {}
      BY <1>2, <3>1
    <3> QED
      BY <1>3, <1>5, <2>1, <3>2 DEF Alone
  <2> QED
    BY <2>2, <2>3, <2>4
<1> QED
  BY <1>6, <1>7, <1>8, <1>9 DEF PollInv

(* One more answer, of either kind.                                        *)
LEMMA CountsOne ==
    ASSUME NEW c \in [total : Nat, useful : Nat, wasted : Nat], NEW new \in BOOLEAN
    PROVE  Counted(c, new) = [total |-> c.total + 1,
                              useful |-> IF new THEN c.useful + 1 ELSE c.useful,
                              wasted |-> IF new THEN c.wasted ELSE c.wasted + 1]
<1> DEFINE t == c.total + 1
           u == IF new THEN c.useful + 1 ELSE c.useful
           w == IF new THEN c.wasted ELSE c.wasted + 1
<1>1. Counted(c, new) =
         [[[c EXCEPT !.total = t] EXCEPT !.useful = u] EXCEPT !.wasted = w]
  BY DEF Counted
<1> HIDE DEF t, u, w
<1>2. [c EXCEPT !.total = t] = [total |-> t, useful |-> c.useful, wasted |-> c.wasted]
  OBVIOUS
<1>3. [[total |-> t, useful |-> c.useful, wasted |-> c.wasted] EXCEPT !.useful = u]
         = [total |-> t, useful |-> u, wasted |-> c.wasted]
  OBVIOUS
<1>4. [[total |-> t, useful |-> u, wasted |-> c.wasted] EXCEPT !.wasted = w]
         = [total |-> t, useful |-> u, wasted |-> w]
  OBVIOUS
<1>5. Counted(c, new) = [total |-> t, useful |-> u, wasted |-> w]
  BY <1>1, <1>2, <1>3, <1>4
<1> QED
  BY <1>5 DEF t, u, w

(* The tracker takes for news what it has not told this address.           *)
LEMMA AnswerTells ==
    ASSUME PollingAssumption, PollInv, NEW a \in Addresses, NEW p \in Pollers,
           GetOrderStatus(a, p), orderStatus' = orderStatus
    PROVE  /\ lastSeen' \in [Addresses -> [Pollers -> Statuses \cup {Unseen}]]
           /\ tracked' \in [total : Nat, useful : Nat, wasted : Nat]
           /\ told' \in [Addresses -> [Pollers -> SUBSET Statuses]]
           /\ \A b \in Addresses, q \in Pollers : TellsOf(b, q)'
           /\ NewsCounted'
           /\ \A b \in Addresses, q \in Pollers \ {p} : told'[b][q] = told[b][q]
           /\ \A b \in Addresses :
                 told'[b][p] = IF b = a THEN told[b][p] \cup ({orderStatus[p]} \ {Unseen})
                               ELSE told[b][p]
<1> DEFINE s == orderStatus[p]
<1>1. /\ PollTypes /\ (\A b \in Addresses, q \in Pollers : TellsOf(b, q)) /\ NewsCounted
      /\ Unseen \notin Nat
  BY DEF PollInv, PollingAssumption
<1>2. CASE s = Unseen
  <2>1. UNCHANGED <<lastSeen, tracked, told>>
    BY <1>2 DEF GetOrderStatus
  <2> QED
    BY <1>1, <1>2, <2>1 DEF PollTypes, TellsOf, NewsCounted, News
<1>3. CASE s # Unseen
  <2>1. /\ tracked' = Counted(tracked, lastSeen[a][p] # s)
        /\ lastSeen' = [lastSeen EXCEPT ![a][p] = s]
        /\ told' = [told EXCEPT ![a][p] = @ \union {s}]
    BY <1>3 DEF GetOrderStatus, Seen
  <2>2. s \in Statuses /\ s \in Nat
    BY <1>1, <1>3 DEF PollTypes, Statuses
  <2> DEFINE mine == told[a][p]
             had == lastSeen[a][p]
  <2>3. /\ mine \in SUBSET Statuses /\ had \in Statuses \cup {Unseen}
        /\ told \in [Addresses -> [Pollers -> SUBSET Statuses]]
        /\ lastSeen \in [Addresses -> [Pollers -> Statuses \cup {Unseen}]]
        /\ tracked \in [total : Nat, useful : Nat, wasted : Nat]
    BY <1>1 DEF PollTypes
  <2>4. had # s <=> s \notin mine
    <3>1. TellsOf(a, p)
      BY <1>1
    <3>2. CASE mine = {}
      BY <1>3, <3>1, <3>2 DEF TellsOf
    <3>3. CASE mine # {}
      <4>1. had \in mine /\ (\A x \in mine : x <= had) /\ (\A x \in mine : x <= s)
        BY <1>3, <3>1, <3>3 DEF TellsOf
      <4>2. had <= s /\ (s \in mine => s <= had) /\ had \in Nat
        BY <2>3, <4>1 DEF Statuses
      <4> QED
        BY <2>2, <4>1, <4>2
    <3> QED
      BY <3>2, <3>3
  <2>5. /\ told' \in [Addresses -> [Pollers -> SUBSET Statuses]]
        /\ told'[a][p] = mine \cup {s}
        /\ \A b \in Addresses, q \in Pollers : (b # a \/ q # p) => told'[b][q] = told[b][q]
    BY <2>1, <2>2, <2>3
  <2>6. /\ lastSeen' \in [Addresses -> [Pollers -> Statuses \cup {Unseen}]]
        /\ lastSeen'[a][p] = s
        /\ \A b \in Addresses, q \in Pollers : (b # a \/ q # p) => lastSeen'[b][q] = lastSeen[b][q]
    BY <2>1, <2>2, <2>3
  <2>7. /\ tracked' \in [total : Nat, useful : Nat, wasted : Nat]
        /\ tracked'.total = tracked.total + 1
        /\ tracked'.useful = IF s \in mine THEN tracked.useful ELSE tracked.useful + 1
        /\ tracked'.wasted = IF s \in mine THEN tracked.wasted + 1 ELSE tracked.wasted
    <3>1. tracked' = Counted(tracked, s \notin mine)
      BY <2>1, <2>4
    <3>2. (s \notin mine) \in BOOLEAN
      OBVIOUS
    <3> HIDE DEF mine
    <3>3. tracked' = [total |-> tracked.total + 1,
                      useful |-> IF s \notin mine THEN tracked.useful + 1 ELSE tracked.useful,
                      wasted |-> IF s \notin mine THEN tracked.wasted ELSE tracked.wasted + 1]
      BY <2>3, <3>1, <3>2, CountsOne
    <3>4. tracked.total \in Nat /\ tracked.useful \in Nat /\ tracked.wasted \in Nat
      BY <2>3
    <3>5. CASE s \in mine
      BY <3>3, <3>4, <3>5
    <3>6. CASE s \notin mine
      BY <3>3, <3>4, <3>6
    <3> QED
      BY <3>5, <3>6
  <2>8. ASSUME NEW b \in Addresses, NEW q \in Pollers PROVE TellsOf(b, q)'
    <3>1. CASE b = a /\ q = p
      <4>1. \A x \in mine : x <= s
        BY <1>1, <1>3 DEF TellsOf
      <4>2. s \in mine \cup {s} /\ \A x \in mine \cup {s} : x <= s
        BY <2>2, <4>1
      <4> QED
        BY <1>3, <2>5, <2>6, <3>1, <4>2 DEF TellsOf
    <3>2. CASE b # a \/ q # p
      <4>1. TellsOf(b, q) /\ told'[b][q] = told[b][q] /\ lastSeen'[b][q] = lastSeen[b][q]
        BY <1>1, <2>5, <2>6, <3>2
      <4> QED
        BY <4>1 DEF TellsOf
    <3> QED
      BY <3>1, <3>2
  <2>9. NewsCounted'
    <3> DEFINE t == <<a, p, s>>
    <3>1. News' = News \cup {t}
      <4>1. \A b \in Addresses, q \in Pollers, x \in 0 .. LastStatus :
               x \in told'[b][q] <=> x \in told[b][q] \/ <<b, q, x>> = t
        BY <2>5
      <4>2. t \in Addresses \X Pollers \X (0 .. LastStatus)
        BY <2>2 DEF Statuses
      <4>3. \A u \in Addresses \X Pollers \X (0 .. LastStatus) :
               u[3] \in told'[u[1]][u[2]] <=> u[3] \in told[u[1]][u[2]] \/ u = t
        BY <4>1
      <4> HIDE DEF t
      <4> QED
        BY <4>2, <4>3 DEF News
    <3>2. t \in News <=> s \in mine
      BY <2>2 DEF News, Statuses
    <3>3. /\ IsFiniteSet(News \cup {t})
          /\ Cardinality(News \cup {t}) =
                IF t \in News THEN Cardinality(News) ELSE Cardinality(News) + 1
      BY <1>1, FS_AddElement DEF NewsCounted
    <3> HIDE DEF t, mine
    <3>4. tracked'.useful = Cardinality(News') /\ IsFiniteSet(News')
      BY <1>1, <2>7, <3>1, <3>2, <3>3 DEF NewsCounted
    <3>5. tracked'.total = tracked'.useful + tracked'.wasted
      BY <1>1, <2>3, <2>7 DEF NewsCounted
    <3> QED
      BY <3>4, <3>5 DEF NewsCounted
  <2>10. {s} \ {Unseen} = {s}
    BY <1>3
  <2> QED
    BY <2>5, <2>6, <2>7, <2>8, <2>9, <2>10
<1> QED
  BY <1>2, <1>3

(* A poller that does not move: its order may get on, or be lost.          *)
LEMMA PollerSame ==
    ASSUME PollInv, NEW p \in Pollers, poller'[p] = poller[p], heard'[p] = heard[p],
           orderStatus'[p] \in Statuses \cup {Unseen}, Unseen \notin Nat,
           orderStatus'[p] # Unseen =>
              orderStatus[p] # Unseen /\ orderStatus[p] <= orderStatus'[p],
           peeks' = 0 /\ stops' = 0 =>
              peeks = 0 /\ stops = 0 /\ told'[AddressOf[p]][p] = told[AddressOf[p]][p]
    PROVE  HearsOf(p)' /\ Waits(p)' /\ Alone(p)'
<1>1. PollTypes /\ HearsOf(p) /\ Waits(p) /\ Alone(p)
  BY DEF PollInv
<1>2. HearsOf(p)'
  BY <1>1 DEF HearsOf
<1>3. Waits(p)'
  <2>1. orderStatus'[p] # Unseen =>
           /\ orderStatus[p] \in Nat /\ orderStatus'[p] \in Nat
           /\ orderStatus[p] <= orderStatus'[p]
    BY <1>1 DEF PollTypes, Statuses
  <2>2. /\ \A i \in DOMAIN heard[p] : heard[p][i] \in Nat
        /\ poller[p].answer # Unseen => poller[p].answer \in Nat
    <3>1. heard[p] \in Seq(Statuses) /\ poller[p] \in PollerState
      BY <1>1 DEF PollTypes
    <3>2. \A i \in DOMAIN heard[p] : heard[p][i] \in Nat
      <4>1. \A i \in DOMAIN heard[p] : heard[p][i] \in Statuses
        BY <3>1
      <4> QED
        BY <4>1 DEF Statuses
    <3>3. poller[p].answer # Unseen => poller[p].answer \in Nat
      BY <3>1 DEF PollerState, Statuses
    <3> QED
      BY <3>2, <3>3
  <2>3. orderStatus'[p] # Unseen => \A i \in DOMAIN heard[p] : heard[p][i] <= orderStatus'[p]
    BY <1>1, <2>1, <2>2 DEF Waits
  <2>4. poller[p].at = "answered" /\ poller[p].answer # Unseen =>
           /\ \A i \in DOMAIN heard[p] : heard[p][i] <= poller[p].answer
           /\ orderStatus'[p] # Unseen => poller[p].answer <= orderStatus'[p]
    BY <1>1, <2>1, <2>2 DEF Waits
  <2>5. poller[p].at = "start" =>
           orderStatus'[p] = Unseen /\ heard[p] = <<>> /\ poller[p].polls = 0
    BY <1>1 DEF Waits
  <2> QED
    BY <1>1, <2>3, <2>4, <2>5 DEF Waits
<1>4. Alone(p)'
  BY <1>1 DEF Alone
<1> QED
  BY <1>2, <1>3, <1>4

LEMMA PlaceKeeps ==
    ASSUME PollingAssumption, PollInv, NEW p \in Pollers, Place(p) PROVE PollInv'
<1>1. /\ poller[p].at = "start"
      /\ orderStatus' = [orderStatus EXCEPT ![p] = 0]
      /\ poller' = [poller EXCEPT ![p].at = "sleeping"]
      /\ UNCHANGED <<lastSeen, tracked, told, heard, peeks, stops>>
  BY DEF Place
<1>2. PollTypes /\ NewsCounted /\ HearsOf(p) /\ Waits(p) /\ Alone(p) /\ Unseen \notin Nat
      /\ AddressOf[p] \in Addresses
  BY DEF PollInv, PollingAssumption
<1>3. /\ poller' \in [Pollers -> PollerState]
      /\ poller'[p] = [poller[p] EXCEPT !.at = "sleeping"]
      /\ \A q \in Pollers \ {p} : poller'[q] = poller[q]
  BY <1>1, <1>2 DEF PollTypes, PollerState
<1>4. /\ orderStatus' \in [Pollers -> Statuses \cup {Unseen}]
      /\ orderStatus'[p] = 0 /\ orderStatus[p] = Unseen /\ heard[p] = <<>>
      /\ \A q \in Pollers \ {p} : orderStatus'[q] = orderStatus[q]
  <2>1. 0 \in Statuses
    BY DEF PollingAssumption, Statuses
  <2> QED
    BY <1>1, <1>2, <2>1 DEF PollTypes, Waits
<1>5. PollTypes'
  BY <1>1, <1>2, <1>3, <1>4 DEF PollTypes
<1>6. ASSUME NEW a \in Addresses, NEW q \in Pollers PROVE TellsOf(a, q)'
  BY <1>1, <1>2, <1>4 DEF PollInv, TellsOf
<1>7. NewsCounted'
  BY <1>1, <1>2 DEF NewsCounted, News
<1>8. ASSUME NEW q \in Pollers PROVE HearsOf(q)' /\ Waits(q)' /\ Alone(q)'
  <2>1. CASE q = p
    <3> DEFINE now == poller'[p]
    <3>1. poller[p] \in PollerState
      BY <1>2 DEF PollTypes
    <3>2. /\ now.at = "sleeping" /\ now.last = poller[p].last /\ now.polls = poller[p].polls
          /\ now.total = poller[p].total /\ now.useful = poller[p].useful
      BY <1>3, <3>1 DEF PollerState
    <3>3. HearsOf(p)'
      BY <1>1, <1>2, <3>2 DEF HearsOf
    <3>4. Waits(p)'
      <4>1. \A i \in DOMAIN heard[p] : FALSE
        <5> DEFINE none == <<>>
        <5>1. DOMAIN none = {}
          OBVIOUS
        <5> QED
          BY <1>4, <5>1
      <4> QED
        BY <1>1, <1>2, <1>4, <3>2, <4>1 DEF Waits, PollingAssumption
    <3>5. Alone(p)'
      BY <1>1, <1>2, <3>2 DEF Alone
    <3> QED
      BY <2>1, <3>3, <3>4, <3>5
  <2>2. CASE q # p
    <3>1. poller'[q] = poller[q] /\ heard'[q] = heard[q] /\ orderStatus'[q] = orderStatus[q]
          /\ orderStatus'[q] \in Statuses \cup {Unseen}
      BY <1>1, <1>3, <1>4, <2>2
    <3>2. orderStatus'[q] # Unseen =>
             orderStatus[q] # Unseen /\ orderStatus[q] <= orderStatus'[q]
      BY <3>1 DEF Statuses
    <3> QED
      BY <1>1, <1>2, <3>1, <3>2, PollerSame
  <2> QED
    BY <2>1, <2>2
<1> QED
  BY <1>5, <1>6, <1>7, <1>8 DEF PollInv

LEMMA AskKeeps ==
    ASSUME PollingAssumption, PollInv, NEW p \in Pollers, Ask(p) PROVE PollInv'
<1> DEFINE s == orderStatus[p]
           a == AddressOf[p]
           was == poller[p]
           now == poller'[p]
<1>1. /\ was.at = "sleeping" /\ GetOrderStatus(a, p)
      /\ poller' = [poller EXCEPT ![p].at = "answered", ![p].polls = @ + 1, ![p].answer = s]
      /\ UNCHANGED <<orderStatus, heard, peeks, stops>>
  BY DEF Ask
<1>2. PollTypes /\ HearsOf(p) /\ Waits(p) /\ Alone(p) /\ Unseen \notin Nat
      /\ a \in Addresses /\ MaxPolls \in Nat
  BY DEF PollInv, PollingAssumption
<1>3. /\ lastSeen' \in [Addresses -> [Pollers -> Statuses \cup {Unseen}]]
      /\ tracked' \in [total : Nat, useful : Nat, wasted : Nat]
      /\ told' \in [Addresses -> [Pollers -> SUBSET Statuses]]
      /\ \A b \in Addresses, q \in Pollers : TellsOf(b, q)'
      /\ NewsCounted'
      /\ \A b \in Addresses, q \in Pollers \ {p} : told'[b][q] = told[b][q]
      /\ told'[a][p] = told[a][p] \cup ({s} \ {Unseen})
  <2>1. GetOrderStatus(a, p) /\ orderStatus' = orderStatus
    BY <1>1
  <2> HIDE DEF a
  <2> QED
    BY <1>2, <2>1, AnswerTells
<1>4. was \in PollerState /\ s \in Statuses \cup {Unseen} /\ was.polls < MaxPolls
  BY <1>1, <1>2 DEF PollTypes, Waits
<1>5. /\ now = [at |-> "answered", last |-> was.last, polls |-> was.polls + 1, answer |-> s,
                total |-> was.total, useful |-> was.useful, wasted |-> was.wasted]
      /\ \A q \in Pollers \ {p} : poller'[q] = poller[q]
      /\ DOMAIN poller' = Pollers
  <2>1. /\ now = [[[was EXCEPT !.at = "answered"] EXCEPT !.polls = @ + 1] EXCEPT !.answer = s]
        /\ \A q \in Pollers \ {p} : poller'[q] = poller[q]
        /\ DOMAIN poller' = Pollers
    BY <1>1, <1>2 DEF PollTypes
  <2> HIDE DEF now, was, s
  <2>2. [was EXCEPT !.at = "answered"] =
           [at |-> "answered", last |-> was.last, polls |-> was.polls, answer |-> was.answer,
            total |-> was.total, useful |-> was.useful, wasted |-> was.wasted]
    BY <1>4 DEF PollerState
  <2> QED
    BY <2>1, <2>2
<1>6. poller' \in [Pollers -> PollerState]
  <2>1. now \in PollerState
    <3> HIDE DEF now, was
    <3>1. was.polls + 1 \in 0 .. MaxPolls
      BY <1>2, <1>4 DEF PollerState
    <3> QED
      BY <1>4, <1>5, <3>1 DEF PollerState
  <2>2. \A q \in Pollers : poller'[q] \in PollerState
    BY <1>2, <1>5, <2>1 DEF PollTypes
  <2>3. poller' = [q \in Pollers |-> poller'[q]]
    BY <1>1, <1>2 DEF PollTypes
  <2> QED
    BY <2>2, <2>3
<1>7. PollTypes'
  BY <1>1, <1>2, <1>3, <1>6 DEF PollTypes
<1>8. /\ now.at = "answered" /\ now.last = was.last /\ now.answer = s
      /\ now.total = was.total /\ now.useful = was.useful
  BY <1>5
<1> HIDE DEF now
<1>9. ASSUME NEW q \in Pollers PROVE HearsOf(q)' /\ Waits(q)' /\ Alone(q)'
  <2>1. CASE q = p
    <3>1. HearsOf(p)'
      BY <1>1, <1>2, <1>8 DEF HearsOf, now
    <3>2. Waits(p)'
      <4>1. s # Unseen => s <= s
        BY <1>4 DEF Statuses
      <4> QED
        BY <1>1, <1>2, <1>8, <4>1 DEF Waits, now
    <3>3. Alone(p)'
      BY <1>1, <1>2, <1>3, <1>8 DEF Alone, now
    <3> QED
      BY <2>1, <3>1, <3>2, <3>3
  <2>2. CASE q # p
    <3>1. /\ poller'[q] = poller[q] /\ heard'[q] = heard[q] /\ orderStatus'[q] = orderStatus[q]
          /\ orderStatus'[q] \in Statuses \cup {Unseen}
          /\ AddressOf[q] \in Addresses
      BY <1>1, <1>2, <1>5, <2>2 DEF PollTypes, PollingAssumption
    <3>2. orderStatus'[q] # Unseen =>
             orderStatus[q] # Unseen /\ orderStatus[q] <= orderStatus'[q]
      BY <3>1 DEF Statuses
    <3>3. told'[AddressOf[q]][q] = told[AddressOf[q]][q]
      BY <1>3, <2>2, <3>1
    <3> QED
      BY <1>1, <1>2, <3>1, <3>2, <3>3, PollerSame
  <2> QED
    BY <2>1, <2>2
<1> QED
  BY <1>3, <1>7, <1>9 DEF PollInv

(* The poller's own counts when it reads an answer.                        *)
LEMMA HearsOne ==
    ASSUME NEW h \in Seq(Nat), NEW x \in Nat, NEW last, NEW useful,
           NoneAbove(h, x), Tally(h, last, useful)
    PROVE  /\ Tally(Append(h, x), x, IF x # last THEN useful + 1 ELSE useful)
           /\ Heard(Append(h, x)) = Heard(h) \cup {x}
<1> DEFINE g == Append(h, x)
<1>0. /\ \A i \in DOMAIN h : h[i] <= x
      /\ \A i, j \in DOMAIN h : i < j => h[i] <= h[j]
      /\ Sums(h) /\ last = (IF h = <<>> THEN 0 ELSE h[Len(h)])
      /\ useful = SimulatedUseful(h) - (IF h # <<>> /\ h[1] = 0 THEN 1 ELSE 0)
  BY DEF NoneAbove, Tally
<1>  SUFFICES /\ \A i, j \in DOMAIN g : i < j => g[i] <= g[j]
              /\ Sums(g) /\ g # <<>> /\ g[Len(g)] = x
              /\ (IF x # last THEN useful + 1 ELSE useful) =
                    SimulatedUseful(g) - (IF g[1] = 0 THEN 1 ELSE 0)
              /\ Heard(g) = Heard(h) \cup {x}
  <2> HIDE DEF g
  <2>1. Tally(g, x, IF x # last THEN useful + 1 ELSE useful) /\ Heard(g) = Heard(h) \cup {x}
    BY DEF Tally
  <2> QED
    BY <2>1 DEF g
<1> DEFINE n == Len(h)
<1>1. /\ n \in Nat /\ DOMAIN h = 1 .. n /\ DOMAIN g = 1 .. n + 1 /\ g # <<>>
      /\ g[n + 1] = x /\ Len(g) = n + 1
      /\ \A i \in 1 .. n : g[i] = h[i] /\ h[i] \in Nat
      /\ (h = <<>> <=> n = 0)
  OBVIOUS
<1>2. /\ Sums(g) /\ SimulatedUseful(h) \in Nat
      /\ SimulatedUseful(g) = IF x \in Heard(h) THEN SimulatedUseful(h) ELSE SimulatedUseful(h) + 1
  BY <1>0, SumsAppend
<1>3. Heard(g) = Heard(h) \cup {x}
  BY <1>0, HighsAppend
<1> HIDE DEF n
<1>4. \A i, j \in DOMAIN g : i < j => g[i] <= g[j]
  <2>1. ASSUME NEW i \in 1 .. n + 1, NEW j \in 1 .. n + 1, i < j PROVE g[i] <= g[j]
    <3>1. i \in 1 .. n
      BY <1>1, <2>1
    <3>2. CASE j = n + 1
      BY <1>0, <1>1, <3>1, <3>2
    <3>3. CASE j # n + 1
      <4>1. j \in 1 .. n
        BY <1>1, <3>3
      <4> QED
        BY <1>0, <1>1, <2>1, <3>1, <4>1
    <3> QED
      BY <3>2, <3>3
  <2> QED
    BY <1>1, <2>1
<1>5. CASE n = 0
  <2>1. h = <<>> /\ g[1] = x /\ last = 0 /\ Heard(h) = {}
    BY <1>0, <1>1, <1>5 DEF Heard
  <2>2. SimulatedUseful(h) = 0
    BY <2>1, SumsEmpty
  <2>3. useful = 0 /\ SimulatedUseful(g) = 1
    BY <1>0, <1>2, <2>1, <2>2
  <2>4. (IF x # last THEN useful + 1 ELSE useful) =
           SimulatedUseful(g) - (IF g[1] = 0 THEN 1 ELSE 0)
    BY <2>1, <2>3
  <2> QED
    BY <1>1, <1>2, <1>3, <1>4, <2>4
<1>6. CASE n # 0
  <2>1. h # <<>> /\ g[1] = h[1] /\ last = h[n] /\ h[n] \in Nat /\ n \in 1 .. n
    BY <1>0, <1>1, <1>6 DEF n
  <2>2. x \in Heard(h) <=> x = last
    <3>1. x = last => x \in Heard(h)
      BY <1>1, <2>1 DEF Heard
    <3>2. ASSUME x \in Heard(h) PROVE x = last
      <4>1. PICK i \in 1 .. n : h[i] = x
        BY <1>1, <3>2 DEF Heard
      <4>2. h[i] <= h[n] /\ h[n] <= x
        BY <1>0, <1>1, <2>1, <4>1
      <4> QED
        BY <2>1, <4>1, <4>2
    <3> QED
      BY <3>1, <3>2
  <2> DEFINE first == IF h[1] = 0 THEN 1 ELSE 0
  <2>3. useful = SimulatedUseful(h) - first /\ first \in {0, 1}
    BY <1>0, <2>1
  <2> HIDE DEF first
  <2>4. (IF x # last THEN useful + 1 ELSE useful) = SimulatedUseful(g) - first
    BY <1>2, <2>2, <2>3
  <2>5. (IF x # last THEN useful + 1 ELSE useful) =
           SimulatedUseful(g) - (IF g[1] = 0 THEN 1 ELSE 0)
    BY <2>1, <2>4 DEF first
  <2> QED
    BY <1>1, <1>2, <1>3, <1>4, <2>5
<1> QED
  BY <1>5, <1>6

HavingRead(q, new, place, x) == [Counted(q, new) EXCEPT !.at = place, !.last = x]

LEMMA PollersRecord ==
    ASSUME NEW q \in PollerState, NEW new \in BOOLEAN, NEW place, NEW x
    PROVE  HavingRead(q, new, place, x) =
                 [at |-> place, last |-> x, polls |-> q.polls, answer |-> q.answer,
                  total |-> q.total + 1,
                  useful |-> IF new THEN q.useful + 1 ELSE q.useful,
                  wasted |-> IF new THEN q.wasted ELSE q.wasted + 1]
<1> DEFINE now == HavingRead(q, new, place, x)
           t == q.total + 1
           u == IF new THEN q.useful + 1 ELSE q.useful
           w == IF new THEN q.wasted ELSE q.wasted + 1
           r1 == [at |-> q.at, last |-> q.last, polls |-> q.polls, answer |-> q.answer,
                  total |-> t, useful |-> q.useful, wasted |-> q.wasted]
           r2 == [at |-> q.at, last |-> q.last, polls |-> q.polls, answer |-> q.answer,
                  total |-> t, useful |-> u, wasted |-> q.wasted]
           r3 == [at |-> q.at, last |-> q.last, polls |-> q.polls, answer |-> q.answer,
                  total |-> t, useful |-> u, wasted |-> w]
           r4 == [at |-> place, last |-> q.last, polls |-> q.polls, answer |-> q.answer,
                  total |-> t, useful |-> u, wasted |-> w]
<1>1. now = [[[[[q EXCEPT !.total = t] EXCEPT !.useful = u] EXCEPT !.wasted = w]
                 EXCEPT !.at = place] EXCEPT !.last = x]
  BY DEF Counted, HavingRead
<1> HIDE DEF t, u, w, now
<1>2. [q EXCEPT !.total = t] = r1
  BY DEF PollerState
<1>3. [r1 EXCEPT !.useful = u] = r2
  OBVIOUS
<1>4. [r2 EXCEPT !.wasted = w] = r3
  OBVIOUS
<1>5. [r3 EXCEPT !.at = place] = r4
  OBVIOUS
<1>6. [r4 EXCEPT !.last = x] =
         [at |-> place, last |-> x, polls |-> q.polls, answer |-> q.answer,
          total |-> t, useful |-> u, wasted |-> w]
  OBVIOUS
<1> HIDE DEF r1, r2, r3, r4
<1>7. now = [at |-> place, last |-> x, polls |-> q.polls, answer |-> q.answer,
             total |-> t, useful |-> u, wasted |-> w]
  BY <1>1, <1>2, <1>3, <1>4, <1>5, <1>6
<1> QED
  BY <1>7 DEF t, u, w, now

LEMMA ReadKeeps ==
    ASSUME PollingAssumption, PollInv, NEW p \in Pollers, ReadAnswer(p) PROVE PollInv'
<1> DEFINE q == poller[p]
           now == poller'[p]
           h == heard[p]
           x == q.answer
           place == IF q.answer = LastStatus \/ q.polls = MaxPolls THEN "ended" ELSE "sleeping"
<1>1. /\ q.at = "answered"
      /\ UNCHANGED <<orderStatus, lastSeen, tracked, told, peeks, stops>>
      /\ IF x = Unseen
         THEN poller' = [poller EXCEPT ![p].at = place] /\ UNCHANGED heard
         ELSE /\ poller' = [poller EXCEPT ![p] =
                               [Counted(q, x # q.last) EXCEPT !.at = place, !.last = x]]
              /\ heard' = [heard EXCEPT ![p] = Append(@, x)]
  BY DEF ReadAnswer
<1>2. PollTypes /\ NewsCounted /\ HearsOf(p) /\ Waits(p) /\ Alone(p) /\ Unseen \notin Nat
      /\ LastStatus \in Nat
  BY DEF PollInv, PollingAssumption
<1>3. q \in PollerState /\ h \in Seq(Statuses) /\ place \in {"ended", "sleeping"}
      /\ x \in Statuses \cup {Unseen} /\ q.polls \in 0 .. MaxPolls /\ MaxPolls \in Nat
  BY <1>2 DEF PollTypes, PollerState, PollingAssumption
<1>4. /\ place = "sleeping" => q.polls < MaxPolls
      /\ place = "ended" => x = LastStatus \/ q.polls = MaxPolls
  BY <1>3
<1> HIDE DEF place
<1>5. ASSUME NEW a \in Addresses, NEW r \in Pollers PROVE TellsOf(a, r)'
  BY <1>1 DEF PollInv, TellsOf
<1>6. NewsCounted'
  BY <1>1, <1>2 DEF NewsCounted, News
<1>7. /\ now \in PollerState /\ heard'[p] \in Seq(Statuses)
      /\ now.at = place /\ now.polls = q.polls
      /\ now.last = LastStatus \/ now.polls = MaxPolls \/ place = "sleeping"
      /\ (HearsOf(p) /\ Alone(p))'
      /\ \A i \in DOMAIN heard'[p] :
            (i \in DOMAIN h /\ heard'[p][i] = h[i]) \/ (x # Unseen /\ heard'[p][i] = x)
  <2>1. CASE x = Unseen
    <3>1. now = [q EXCEPT !.at = place] /\ heard'[p] = h
      BY <1>1, <1>2, <2>1 DEF PollTypes
    <3>2. now = [at |-> place, last |-> q.last, polls |-> q.polls, answer |-> q.answer,
                 total |-> q.total, useful |-> q.useful, wasted |-> q.wasted]
      <4> HIDE DEF q, now
      <4> QED
        BY <1>3, <3>1 DEF PollerState
    <3>3. now \in PollerState
      <4> HIDE DEF q, now
      <4> QED
        BY <1>3, <3>2 DEF PollerState
    <3>4. /\ now.at = place /\ now.polls = q.polls /\ now.last = q.last
          /\ now.total = q.total /\ now.useful = q.useful
      BY <3>2
    <3> HIDE DEF now
    <3>5. HearsOf(p)'
      BY <1>1, <1>2, <3>1, <3>4 DEF HearsOf, now
    <3>6. Alone(p)'
      BY <1>1, <1>2, <1>3, <2>1, <3>1, <3>4 DEF Alone, now
    <3>7. now.last = LastStatus \/ now.polls = MaxPolls \/ place = "sleeping"
      BY <1>2, <1>3, <1>4, <2>1, <3>4
    <3> QED
      BY <1>3, <3>1, <3>3, <3>4, <3>5, <3>6, <3>7
  <2>2. CASE x # Unseen
    <3>1. x \in Statuses /\ x \in Nat /\ h \in Seq(Nat)
      <4>1. Statuses \subseteq Nat
        BY DEF Statuses
      <4> QED
        BY <1>3, <2>2, <4>1, SeqMonotonic
    <3>2. now = [Counted(q, x # q.last) EXCEPT !.at = place, !.last = x]
          /\ heard'[p] = Append(h, x)
      BY <1>1, <1>2, <2>2 DEF PollTypes
    <3>3. now = [at |-> place, last |-> x, polls |-> q.polls, answer |-> q.answer,
                 total |-> q.total + 1,
                 useful |-> IF x # q.last THEN q.useful + 1 ELSE q.useful,
                 wasted |-> IF x # q.last THEN q.wasted ELSE q.wasted + 1]
      <4> DEFINE new == x # q.last
      <4>2. now = HavingRead(q, new, place, x) /\ new \in BOOLEAN
        BY <3>2 DEF HavingRead
      <4>3. q \in PollerState
        BY <1>3
      <4> HIDE DEF new, q, now, x
      <4>4. HavingRead(q, new, place, x) =
               [at |-> place, last |-> x, polls |-> q.polls, answer |-> q.answer,
                total |-> q.total + 1,
                useful |-> IF new THEN q.useful + 1 ELSE q.useful,
                wasted |-> IF new THEN q.wasted ELSE q.wasted + 1]
        BY <4>2, <4>3, PollersRecord
      <4> QED
        BY <4>2, <4>4 DEF new
    <3> DEFINE u == IF x # q.last THEN q.useful + 1 ELSE q.useful
               w == IF x # q.last THEN q.wasted ELSE q.wasted + 1
    <3>4. u \in Nat /\ w \in Nat /\ q.total + 1 \in Nat
      <4>1. q.useful \in Nat /\ q.wasted \in Nat /\ q.total \in Nat
        BY <1>3 DEF PollerState
      <4> QED
        BY <4>1
    <3>5. now = [at |-> place, last |-> x, polls |-> q.polls, answer |-> q.answer,
                 total |-> q.total + 1, useful |-> u, wasted |-> w]
      BY <3>3
    <3> HIDE DEF now, u, w
    <3>6. now \in PollerState
      BY <1>3, <3>1, <3>4, <3>5 DEF PollerState
    <3>7. /\ now.at = place /\ now.polls = q.polls /\ now.last = x /\ now.total = q.total + 1
          /\ now.useful = u
      BY <3>5
    <3> DEFINE g == Append(h, x)
    <3>8. Tally(h, q.last, q.useful) /\ q.total = Len(h) /\ NoneAbove(h, x)
      BY <1>1, <1>2, <2>2 DEF Waits, HearsOf, NoneAbove
    <3>9. /\ g \in Seq(Statuses) /\ Len(g) = Len(h) + 1
          /\ \A i \in DOMAIN g : (i \in DOMAIN h /\ g[i] = h[i]) \/ g[i] = x
      BY <1>3, <3>1
    <3>10. h \in Seq(Nat) /\ x \in Nat
      BY <3>1
    <3> HIDE DEF h, x, q
    <3>11. Tally(g, x, u) /\ Heard(g) = Heard(h) \cup {x}
      <4> DEFINE l == q.last
                 us == q.useful
      <4>1. Tally(h, l, us)
        BY <3>8
      <4> HIDE DEF l, us
      <4>2. Tally(Append(h, x), x, IF x # l THEN us + 1 ELSE us)
        BY <3>8, <3>10, <4>1, HearsOne
      <4>3. Heard(Append(h, x)) = Heard(h) \cup {x}
        BY <3>8, <3>10, <4>1, HearsOne
      <4> QED
        BY <4>2, <4>3 DEF l, us, u
    <3> HIDE DEF g
    <3>12. HearsOf(p)'
      BY <3>2, <3>7, <3>8, <3>9, <3>11 DEF HearsOf, now, u, g
    <3>13. Alone(p)'
      <4>1. peeks = 0 /\ stops = 0 => told[AddressOf[p]][p] = Heard(h) \cup ({x} \ {Unseen})
        BY <1>1, <1>2 DEF Alone, q, h, x
      <4> QED
        BY <1>1, <1>3, <2>2, <3>2, <3>7, <3>11, <4>1 DEF Alone, now, g
    <3> QED
      BY <1>3, <1>4, <2>2, <3>2, <3>6, <3>7, <3>9, <3>12, <3>13 DEF g
  <2> QED
    BY <2>1, <2>2
<1>8. DOMAIN poller' = Pollers /\ DOMAIN heard' = Pollers
      /\ \A r \in Pollers \ {p} : poller'[r] = poller[r] /\ heard'[r] = heard[r]
  BY <1>1, <1>2 DEF PollTypes
<1>9. poller' \in [Pollers -> PollerState] /\ heard' \in [Pollers -> Seq(Statuses)]
  <2>1. \A r \in Pollers : poller'[r] \in PollerState /\ heard'[r] \in Seq(Statuses)
    BY <1>2, <1>7, <1>8 DEF PollTypes
  <2>2. poller' = [r \in Pollers |-> poller'[r]] /\ heard' = [r \in Pollers |-> heard'[r]]
    BY <1>1, <1>2 DEF PollTypes
  <2> QED
    BY <2>1, <2>2
<1>10. PollTypes'
  BY <1>1, <1>2, <1>9 DEF PollTypes
<1> HIDE DEF now
<1>11. ASSUME NEW r \in Pollers PROVE HearsOf(r)' /\ Waits(r)' /\ Alone(r)'
  <2>1. CASE r = p
    <3>1. orderStatus[p] # Unseen => \A i \in DOMAIN heard'[p] : heard'[p][i] <= orderStatus[p]
      <4>1. orderStatus[p] # Unseen => \A i \in DOMAIN h : h[i] <= orderStatus[p]
        BY <1>2 DEF Waits
      <4>2. orderStatus[p] # Unseen /\ x # Unseen => x <= orderStatus[p]
        BY <1>1, <1>2 DEF Waits
      <4> HIDE DEF h, x, q
      <4> QED
        BY <1>7, <4>1, <4>2
    <3>2. Waits(p)'
      BY <1>1, <1>3, <1>4, <1>7, <3>1 DEF Waits, now
    <3> QED
      BY <1>7, <2>1, <3>2
  <2>2. CASE r # p
    <3>1. poller'[r] = poller[r] /\ heard'[r] = heard[r] /\ orderStatus'[r] = orderStatus[r]
          /\ orderStatus'[r] \in Statuses \cup {Unseen}
      BY <1>1, <1>2, <1>8, <2>2 DEF PollTypes
    <3>2. orderStatus'[r] # Unseen =>
             orderStatus[r] # Unseen /\ orderStatus[r] <= orderStatus'[r]
      BY <3>1 DEF Statuses
    <3> QED
      BY <1>1, <1>2, <3>1, <3>2, PollerSame
  <2> QED
    BY <2>1, <2>2
<1> QED
  BY <1>5, <1>6, <1>10, <1>11 DEF PollInv

LEMMA RaiseKeeps ==
    ASSUME PollingAssumption, PollInv, NEW p \in Pollers, Raise(p) PROVE PollInv'
<1>1. /\ poller[p].at \in {"sleeping", "answered"}
      /\ poller' = [poller EXCEPT ![p].at = "raised"]
      /\ UNCHANGED <<orderStatus, lastSeen, tracked, told, heard, peeks, stops>>
  BY DEF Raise
<1>2. PollTypes /\ NewsCounted /\ HearsOf(p) /\ Waits(p) /\ Alone(p) /\ Unseen \notin Nat
  BY DEF PollInv, PollingAssumption
<1>3. /\ poller' \in [Pollers -> PollerState]
      /\ poller'[p] = [poller[p] EXCEPT !.at = "raised"]
      /\ \A q \in Pollers \ {p} : poller'[q] = poller[q]
  <2>1. \A q \in PollerState : [q EXCEPT !.at = "raised"] \in PollerState
    BY DEF PollerState
  <2>2. poller \in [Pollers -> PollerState]
    BY <1>2 DEF PollTypes
  <2> QED
    BY <1>1, <2>1, <2>2
<1>4. PollTypes'
  BY <1>1, <1>2, <1>3 DEF PollTypes
<1>5. ASSUME NEW a \in Addresses, NEW q \in Pollers PROVE TellsOf(a, q)'
  BY <1>1, <1>2 DEF PollInv, TellsOf
<1>6. NewsCounted'
  BY <1>1, <1>2 DEF NewsCounted, News
<1>7. ASSUME NEW q \in Pollers PROVE HearsOf(q)' /\ Waits(q)' /\ Alone(q)'
  <2>1. CASE q = p
    <3> DEFINE now == poller'[p]
    <3>1. poller[p] \in PollerState
      BY <1>2 DEF PollTypes
    <3>2. /\ now.at = "raised" /\ now.last = poller[p].last
          /\ now.total = poller[p].total /\ now.useful = poller[p].useful
      BY <1>3, <3>1 DEF PollerState
    <3>3. HearsOf(p)'
      BY <1>1, <1>2, <3>2 DEF HearsOf
    <3>4. Waits(p)'
      BY <1>1, <1>2, <3>2 DEF Waits
    <3>5. Alone(p)'
      BY <1>1, <1>2, <3>2 DEF Alone
    <3> QED
      BY <2>1, <3>3, <3>4, <3>5
  <2>2. CASE q # p
    <3>1. poller'[q] = poller[q] /\ heard'[q] = heard[q] /\ orderStatus'[q] = orderStatus[q]
          /\ orderStatus'[q] \in Statuses \cup {Unseen}
      BY <1>1, <1>2, <1>3, <2>2 DEF PollTypes
    <3>2. orderStatus'[q] # Unseen =>
             orderStatus[q] # Unseen /\ orderStatus[q] <= orderStatus'[q]
      BY <3>1 DEF Statuses
    <3> QED
      BY <1>1, <1>2, <3>1, <3>2, PollerSame
  <2> QED
    BY <2>1, <2>2
<1> QED
  BY <1>4, <1>5, <1>6, <1>7 DEF PollInv

(* What has been told and heard stays below a status that only grows.      *)
LEMMA AdvanceKeeps ==
    ASSUME PollingAssumption, PollInv, NEW p \in Pollers, AdvanceStatus(p) PROVE PollInv'
<1>1. /\ orderStatus[p] # Unseen /\ orderStatus[p] < LastStatus
      /\ orderStatus' = [orderStatus EXCEPT ![p] = @ + 1]
      /\ UNCHANGED <<lastSeen, tracked, poller, told, heard, peeks, stops>>
  BY DEF AdvanceStatus
<1>2. PollTypes /\ NewsCounted /\ Unseen \notin Nat /\ LastStatus \in Nat
  BY DEF PollInv, PollingAssumption
<1>3. orderStatus[p] \in Nat /\ orderStatus[p] + 1 \in Statuses
  BY <1>1, <1>2 DEF PollTypes, Statuses
<1>4. /\ orderStatus' \in [Pollers -> Statuses \cup {Unseen}]
      /\ orderStatus'[p] = orderStatus[p] + 1
      /\ \A q \in Pollers \ {p} : orderStatus'[q] = orderStatus[q]
  BY <1>1, <1>2, <1>3 DEF PollTypes
<1>5. PollTypes'
  BY <1>1, <1>2, <1>4 DEF PollTypes
<1>6. ASSUME NEW a \in Addresses, NEW q \in Pollers PROVE TellsOf(a, q)'
  <2>1. TellsOf(a, q) /\ told[a][q] \in SUBSET Statuses
    BY <1>2 DEF PollInv, PollTypes
  <2>2. CASE q = p
    <3>1. orderStatus'[p] # Unseen
      BY <1>2, <1>3, <1>4
    <3>2. \A s \in told[a][p] : s <= orderStatus'[p]
      BY <1>1, <1>3, <1>4, <2>1, <2>2 DEF TellsOf, Statuses
    <3> QED
      BY <1>1, <2>1, <2>2, <3>1, <3>2 DEF TellsOf
  <2>3. CASE q # p
    BY <1>1, <1>4, <2>1, <2>3 DEF TellsOf
  <2> QED
    BY <2>2, <2>3
<1>7. NewsCounted'
  BY <1>1, <1>2 DEF NewsCounted, News
<1>8. ASSUME NEW q \in Pollers PROVE HearsOf(q)' /\ Waits(q)' /\ Alone(q)'
  <2>1. poller'[q] = poller[q] /\ heard'[q] = heard[q]
        /\ orderStatus'[q] \in Statuses \cup {Unseen}
    BY <1>1, <1>4
  <2>2. orderStatus'[q] # Unseen =>
           orderStatus[q] # Unseen /\ orderStatus[q] <= orderStatus'[q]
    <3>1. CASE q = p
      BY <1>1, <1>3, <1>4, <3>1
    <3>2. CASE q # p
      BY <1>4, <2>1, <3>2 DEF Statuses
    <3> QED
      BY <3>1, <3>2
  <2> QED
    BY <1>1, <1>2, <2>1, <2>2, PollerSame
<1> QED
  BY <1>5, <1>6, <1>7, <1>8 DEF PollInv

LEMMA PeekKeeps ==
    ASSUME PollingAssumption, PollInv, NEW a \in Addresses, NEW p \in Pollers, Peek(a, p)
    PROVE  PollInv'
<1>1. /\ GetOrderStatus(a, p) /\ peeks' = peeks + 1
      /\ UNCHANGED <<orderStatus, poller, heard, stops>>
  BY DEF Peek
<1>2. PollTypes /\ Unseen \notin Nat /\ peeks' \in Nat /\ peeks' # 0
  <2>1. PollTypes /\ Unseen \notin Nat /\ peeks \in Nat
    BY DEF PollInv, PollTypes, PollingAssumption
  <2> QED
    BY <1>1, <2>1
<1>3. /\ lastSeen' \in [Addresses -> [Pollers -> Statuses \cup {Unseen}]]
      /\ tracked' \in [total : Nat, useful : Nat, wasted : Nat]
      /\ told' \in [Addresses -> [Pollers -> SUBSET Statuses]]
      /\ \A b \in Addresses, q \in Pollers : TellsOf(b, q)'
      /\ NewsCounted'
  <2>1. GetOrderStatus(a, p) /\ orderStatus' = orderStatus
    BY <1>1
  <2> QED
    BY <2>1, AnswerTells
<1>4. PollTypes'
  BY <1>1, <1>2, <1>3 DEF PollTypes
<1>5. ASSUME NEW q \in Pollers PROVE HearsOf(q)' /\ Waits(q)' /\ Alone(q)'
  <2>1. poller'[q] = poller[q] /\ heard'[q] = heard[q] /\ orderStatus'[q] = orderStatus[q]
        /\ orderStatus'[q] \in Statuses \cup {Unseen}
    BY <1>1, <1>2 DEF PollTypes
  <2>2. orderStatus'[q] # Unseen =>
           orderStatus[q] # Unseen /\ orderStatus[q] <= orderStatus'[q]
    BY <2>1 DEF Statuses
  <2> QED
    BY <1>2, <2>1, <2>2, PollerSame
<1> QED
  BY <1>3, <1>4, <1>5 DEF PollInv

LEMMA StopServerKeeps ==
    ASSUME PollingAssumption, PollInv, StopServer PROVE PollInv'
<1>1. /\ stops' = stops + 1
      /\ orderStatus' = [p \in Pollers |-> Unseen]
      /\ lastSeen' = [a \in Addresses |-> [p \in Pollers |-> Unseen]]
      /\ tracked' = [total |-> 0, useful |-> 0, wasted |-> 0]
      /\ told' = [a \in Addresses |-> [p \in Pollers |-> {}]]
      /\ UNCHANGED <<poller, heard, peeks>>
  BY DEF StopServer, NothingSeen, NoCounts
<1>2. PollTypes /\ Unseen \notin Nat /\ stops' \in Nat /\ stops' # 0
  <2>1. PollTypes /\ Unseen \notin Nat /\ stops \in Nat
    BY DEF PollInv, PollTypes, PollingAssumption
  <2> QED
    BY <1>1, <2>1
<1>3. PollTypes'
  BY <1>1, <1>2 DEF PollTypes
<1>4. ASSUME NEW a \in Addresses, NEW q \in Pollers PROVE TellsOf(a, q)'
  BY <1>1 DEF TellsOf
<1>5. NewsCounted'
  <2>1. News' = {}
    BY <1>1 DEF News
  <2> QED
    BY <1>1, <2>1, FS_EmptySet DEF NewsCounted
<1>6. ASSUME NEW q \in Pollers PROVE HearsOf(q)' /\ Waits(q)' /\ Alone(q)'
  <2>1. poller'[q] = poller[q] /\ heard'[q] = heard[q] /\ orderStatus'[q] = Unseen
    BY <1>1
  <2> QED
    BY <1>2, <2>1, PollerSame
<1> QED
  BY <1>3, <1>4, <1>5, <1>6 DEF PollInv

LEMMA PollingStep ==
    ASSUME PollingAssumption, PollInv, [PollNext]_pollVars PROVE PollInv'
<1>1. ASSUME NEW p \in Pollers, NEW a \in Addresses, Peek(a, p) PROVE PollInv'
  BY <1>1, PeekKeeps
<1>2. ASSUME NEW p \in Pollers,
             Place(p) \/ AdvanceStatus(p) \/ Ask(p) \/ ReadAnswer(p) \/ Raise(p)
      PROVE  PollInv'
  BY <1>2, PlaceKeeps, AdvanceKeeps, AskKeeps, ReadKeeps, RaiseKeeps
<1>3. CASE UNCHANGED pollVars
  BY <1>3 DEF pollVars, PollInv, PollTypes, TellsOf, NewsCounted, News, HearsOf, Waits, Alone
<1> QED
  BY <1>1, <1>2, <1>3, StopServerKeeps DEF PollNext

LEMMA PollHolds ==
    ASSUME PollingAssumption, PollInv PROVE PollsAccounted
<1>1. UsefulIsNews
  BY DEF PollInv, NewsCounted, News, UsefulIsNews
<1>2. ASSUME NEW p \in Pollers PROVE OwnCount(p)
  <2>1. PollTypes /\ HearsOf(p) /\ Waits(p) /\ Alone(p)
    BY DEF PollInv
  <2>2. /\ poller[p].total = Len(heard[p])
        /\ poller[p].useful = SimulatedUseful(heard[p])
              - (IF heard[p] # <<>> /\ heard[p][1] = 0 THEN 1 ELSE 0)
        /\ Cardinality(Heard(heard[p])) = SimulatedUseful(heard[p])
    BY <2>1 DEF HearsOf, Tally, Sums
  <2>3. peeks = 0 /\ stops = 0 /\ poller[p].at \in {"sleeping", "ended"}
           => Cardinality(told[AddressOf[p]][p]) = SimulatedUseful(heard[p])
    BY <2>1, <2>2 DEF Alone
  <2> QED
    BY <2>2, <2>3 DEF OwnCount
<1>3. ASSUME NEW p \in Pollers PROVE EndsKnowing(p)
  BY DEF PollInv, HearsOf, Tally, Waits, EndsKnowing
<1> QED
  BY <1>1, <1>2, <1>3 DEF PollsAccounted

(* Whatever the pollers, their addresses and the number of polls: the      *)
(* server's count of useful polls is the number of different answers it    *)
(* has given, what a poller counts for itself differs from it by the first *)
(* answer only, and it hears its order's statuses in their order.          *)
THEOREM PollsAddUp == Spec => []PollsAccounted
<1>1. Init => PollInv
  BY PollingAssumption, PollStart DEF Init
<1>2. PollInv /\ [Next]_vars => PollInv'
  BY PollingAssumption, StepOfEach, PollingStep
<1>3. PollInv => PollsAccounted
  BY PollingAssumption, PollHolds
<1>4. Spec => Init /\ [][Next]_vars
  BY PTL DEF Spec
<1> QED
  BY <1>1, <1>2, <1>3, <1>4, PTL

-----------------------------------------------------------------------------
(***************************************************************************)
(* Push notifications: what the log holds for an order and an endpoint.    *)
(***************************************************************************)
PushKinds == (0 .. FinalStatus) \cup {Custom}
PushMarks == {"sent", "error", "simulated"}
PushRecord == [order : OrderIds, endpoint : AllEndpoints, kind : PushKinds, size : Int,
               status : PushMarks]
NoteRecord == [order : OrderIds, to : SUBSET AllEndpoints, plain : BOOLEAN]

OfKind(o, e, K) == {p \in PushRecord : p.order = o /\ p.endpoint = e /\ p.kind \in K}
SentTo(o, e, K) == Keep(pushLog, OfKind(o, e, K))
NotesTo(o, e) == Keep(noted, {n \in NoteRecord : n.order = o /\ e \in n.to})
KindSets == {PushKinds, 0 .. FinalStatus, {Custom}}

(* A list of endpoints without repetition.                                 *)
EachOnce(list) == \A i, j \in DOMAIN list : list[i] = list[j] => i = j

StatusType == status \in Seq(0 .. FinalStatus) /\ Len(status) <= MaxOrders

PushTypes ==
    /\ StatusType
    /\ subs \in [Customers -> Seq(AllEndpoints)]
    /\ pushLog \in Seq(PushRecord)
    /\ script \in [at : {"subscribe", "order", "advance", "log"}, order : OrderIds \cup {None}]
    /\ joined \in [OrderIds -> [AllEndpoints -> (0 .. FinalStatus) \cup {None}]]
    /\ noted \in Seq(NoteRecord)

(* Who is subscribed has joined, at a status the order had.                *)
SubsOf(o) ==
    /\ o \notin DOMAIN status => subs[o] = <<>>
    /\ EachOnce(subs[o])
    /\ \A e \in AllEndpoints : e \in ToSet(subs[o]) <=> joined[o][e] # None
    /\ DemoEndpoint \notin ToSet(subs[o])

SentOf(o, e) ==
    LET s == SentTo(o, e, 0 .. FinalStatus) IN
    /\ joined[o][e] = None => \A K \in KindSets : SentTo(o, e, K) = <<>>
    /\ joined[o][e] # None =>
          /\ Len(s) = status[o] - joined[o][e]
          /\ \A i \in DOMAIN s : s[i].kind = joined[o][e] + i
    /\ Len(SentTo(o, e, {Custom})) = Len(NotesTo(o, e))

ScriptInv ==
    /\ script.at \in {"advance", "log"} => script.order \in DOMAIN status
    /\ script.at = "log" => status[script.order] = FinalStatus
    /\ \A i \in DOMAIN pushLog : pushLog[i].endpoint # DemoEndpoint

PushInv ==
    /\ PushTypes
    /\ \A o \in OrderIds : SubsOf(o)
    /\ \A o \in OrderIds, e \in AllEndpoints : SentOf(o, e)
    /\ ScriptInv
    /\ PayloadsFit

(* The arithmetic of _build_push_payload.                                  *)
LEMMA SizesFit ==
    ASSUME PushAssumption
    PROVE  /\ StatusSize \in Int /\ StatusSize <= Limit
           /\ \A note \in Notes :
                 /\ PayloadSize(note.rest, note.body, note.width) \in Int
                 /\ note.width = 1 /\ note.rest + Margin <= Limit
                       => PayloadSize(note.rest, note.body, note.width) <= Limit
<1>1. /\ Limit \in Nat /\ Limit >= 2 /\ Margin \in Nat /\ Margin >= 3
      /\ Notes \subseteq [rest : Nat, body : Nat, width : Nat]
  BY DEF PushAssumption
<1>2. StatusSize = 2
  BY <1>1 DEF StatusSize, PayloadSize
<1>3. ASSUME NEW note \in Notes PROVE PayloadSize(note.rest, note.body, note.width) \in Int
  <2> DEFINE r == note.rest
             n == note.body
             w == note.width
  <2>1. r \in Nat /\ n \in Nat /\ w \in Nat
    BY <1>1
  <2> HIDE DEF r, n, w
  <2>2. \A x \in Int : x * w \in Int
    BY <2>1
  <2>3. \A k \in Int : PrefixLen(n, k) \in Int
    BY <2>1 DEF PrefixLen
  <2> DEFINE size == n * w
  <2>4. size \in Int
    BY <2>1, <2>2
  <2> HIDE DEF size
  <2>5. PrefixLen(n, n - (r + size - Limit + Margin)) \in Int
    BY <1>1, <2>1, <2>3, <2>4
  <2> DEFINE cut == PrefixLen(n, n - (r + size - Limit + Margin)) * w
  <2>6. cut \in Int
    BY <2>2, <2>5
  <2>7. PayloadSize(r, n, w) = IF r + size <= Limit THEN r + size ELSE r + cut + 3
    BY DEF PayloadSize, size
  <2> HIDE DEF cut
  <2>8. PayloadSize(r, n, w) \in Int
    BY <2>1, <2>4, <2>6, <2>7
  <2> QED
    BY <2>8 DEF r, n, w
<1>4. ASSUME NEW note \in Notes, note.width = 1, note.rest + Margin <= Limit
      PROVE  PayloadSize(note.rest, note.body, note.width) <= Limit
  <2> DEFINE r == note.rest
             n == note.body
  <2>1. r \in Nat /\ n \in Nat /\ r + Margin <= Limit
    BY <1>1, <1>4
  <2> HIDE DEF r, n
  <2>2. PayloadSize(r, n, 1) <= Limit
    <3>1. CASE r + n <= Limit
      BY <1>1, <2>1, <3>1 DEF PayloadSize
    <3>2. CASE ~ (r + n <= Limit)
      <4> DEFINE k == n - (r + n - Limit + Margin)
      <4>1. k = Limit - r - Margin /\ k >= 0 /\ k < n /\ k \in Int
        BY <1>1, <2>1, <3>2
      <4> HIDE DEF k
      <4>2. PrefixLen(n, k) = k
        BY <4>1 DEF PrefixLen
      <4>3. PayloadSize(r, n, 1) = r + PrefixLen(n, k) + 3
        <5>1. PrefixLen(n, k) \in Int
          BY <4>1, <4>2
        <5> QED
          BY <1>1, <2>1, <3>2, <5>1 DEF PayloadSize, k
      <4> QED
        BY <1>1, <2>1, <4>1, <4>2, <4>3
    <3> QED
      BY <3>1, <3>2
  <2> QED
    BY <1>4, <2>2 DEF r, n
<1> QED
  BY <1>1, <1>2, <1>3, <1>4

(* One push to each endpoint of a list: an endpoint on it gets one.        *)
Batch(list, o, kind, size, outcome) ==
    [i \in DOMAIN list |-> [order |-> o, endpoint |-> list[i], kind |-> kind,
                            size |-> size, status |-> outcome[i]]]

LEMMA BatchOnce ==
    ASSUME NEW list \in Seq(AllEndpoints), EachOnce(list), NEW o \in OrderIds,
           NEW kind \in PushKinds, NEW size \in Int,
           NEW outcome \in [DOMAIN list -> PushMarks],
           NEW batch, batch = Batch(list, o, kind, size, outcome)
    PROVE  /\ batch \in Seq(PushRecord)
           /\ \A i \in DOMAIN batch : batch[i].endpoint \in ToSet(list) /\ batch[i].size = size
           /\ \A q, e, K :
                 IF q = o /\ e \in ToSet(list) /\ kind \in K
                 THEN \E p \in PushRecord : p.kind = kind /\ Keep(batch, OfKind(q, e, K)) = <<p>>
                 ELSE Keep(batch, OfKind(q, e, K)) = <<>>
<1>1. /\ DOMAIN batch = DOMAIN list
      /\ \A i \in DOMAIN list :
            /\ batch[i] \in PushRecord /\ list[i] \in AllEndpoints
            /\ batch[i].order = o /\ batch[i].endpoint = list[i]
            /\ batch[i].kind = kind /\ batch[i].size = size
  <2>1. batch = [i \in DOMAIN list |-> [order |-> o, endpoint |-> list[i], kind |-> kind,
                                        size |-> size, status |-> outcome[i]]]
    BY DEF Batch
  <2>2. ASSUME NEW i \in DOMAIN list
        PROVE  /\ batch[i] = [order |-> o, endpoint |-> list[i], kind |-> kind,
                              size |-> size, status |-> outcome[i]]
               /\ list[i] \in AllEndpoints
               /\ outcome[i] \in PushMarks
    BY <2>1
  <2>3. ASSUME NEW i \in DOMAIN list PROVE batch[i] \in PushRecord
    <3>1. ASSUME NEW e \in AllEndpoints, NEW m \in PushMarks
          PROVE  [order |-> o, endpoint |-> e, kind |-> kind, size |-> size, status |-> m]
                    \in PushRecord
      BY DEF PushRecord
    <3>2. list[i] \in AllEndpoints /\ outcome[i] \in PushMarks
      BY <2>2
    <3> DEFINE e == list[i]
               m == outcome[i]
    <3>3. /\ e \in AllEndpoints /\ m \in PushMarks
          /\ batch[i] = [order |-> o, endpoint |-> e, kind |-> kind, size |-> size, status |-> m]
      BY <2>2, <3>2
    <3> HIDE DEF e, m
    <3> QED
      BY <3>1, <3>3
  <2> QED
    BY <2>1, <2>2, <2>3
<1>2. batch \in Seq(PushRecord)
  <2>1. DOMAIN list = 1 .. Len(list) /\ Len(list) \in Nat
    OBVIOUS
  <2>2. batch = [i \in 1 .. Len(list) |-> batch[i]]
    BY <2>1 DEF Batch
  <2> QED
    BY <1>1, <2>1, <2>2
<1>3. \A i \in DOMAIN batch : batch[i].endpoint \in ToSet(list) /\ batch[i].size = size
  BY <1>1 DEF ToSet
<1>4. ASSUME NEW q, NEW e, NEW K, q = o, e \in ToSet(list), kind \in K
      PROVE  \E p \in PushRecord : p.kind = kind /\ Keep(batch, OfKind(q, e, K)) = <<p>>
  <2>1. PICK i \in DOMAIN list : list[i] = e
    BY <1>4 DEF ToSet
  <2> DEFINE S == OfKind(q, e, K)
  <2>2. \A k \in DOMAIN batch : batch[k] \in S <=> k = i
    BY <1>1, <1>4, <2>1 DEF OfKind, EachOnce
  <2> HIDE DEF S
  <2>3. Keep(batch, S) = <<batch[i]>>
    BY <1>1, <1>2, <2>2, KeepOne
  <2> QED
    BY <1>1, <2>3 DEF S
<1>5. ASSUME NEW q, NEW e, NEW K, ~ (q = o /\ e \in ToSet(list) /\ kind \in K)
      PROVE  Keep(batch, OfKind(q, e, K)) = <<>>
  <2> DEFINE S == OfKind(q, e, K)
  <2>1. \A k \in DOMAIN batch : batch[k] \notin S
    BY <1>1, <1>3, <1>5 DEF OfKind
  <2> HIDE DEF S
  <2>2. Keep(batch, S) = <<>>
    BY <1>2, <2>1, KeepNone
  <2> QED
    BY <2>2 DEF S
<1> QED
  BY <1>2, <1>3, <1>4, <1>5

(* So each of them gets one more entry in the log, and nobody else.        *)
LEMMA SendOnce ==
    ASSUME PushTypes, NEW list \in Seq(AllEndpoints), EachOnce(list),
           NEW o \in OrderIds, NEW kind \in PushKinds, NEW size \in Int,
           SendPushTo(list, o, kind, size)
    PROVE  /\ pushLog' \in Seq(PushRecord)
           /\ \A i \in DOMAIN pushLog' :
                 \/ i \in DOMAIN pushLog /\ pushLog'[i] = pushLog[i]
                 \/ pushLog'[i].endpoint \in ToSet(list) /\ pushLog'[i].size = size
           /\ \A q, e, K :
                 IF q = o /\ e \in ToSet(list) /\ kind \in K
                 THEN \E p \in PushRecord :
                         p.kind = kind /\ SentTo(q, e, K)' = Append(SentTo(q, e, K), p)
                 ELSE SentTo(q, e, K)' = SentTo(q, e, K)
<1>1. PICK outcome \in [DOMAIN list -> Outcomes] :
         pushLog' = pushLog \o Batch(list, o, kind, size, outcome)
  BY DEF SendPushTo, Batch
<1>2. outcome \in [DOMAIN list -> PushMarks]
  BY DEF Outcomes, PushMarks
<1> DEFINE batch == Batch(list, o, kind, size, outcome)
<1>3. /\ batch \in Seq(PushRecord)
      /\ \A i \in DOMAIN batch : batch[i].endpoint \in ToSet(list) /\ batch[i].size = size
      /\ \A q, e, K :
            IF q = o /\ e \in ToSet(list) /\ kind \in K
            THEN \E p \in PushRecord : p.kind = kind /\ Keep(batch, OfKind(q, e, K)) = <<p>>
            ELSE Keep(batch, OfKind(q, e, K)) = <<>>
  <2>1. batch = Batch(list, o, kind, size, outcome)
    OBVIOUS
  <2> HIDE DEF batch
  <2> QED
    BY <1>2, <2>1, BatchOnce
<1>4. pushLog' = pushLog \o batch
  BY <1>1
<1>5. pushLog \in Seq(PushRecord)
  BY DEF PushTypes
<1> HIDE DEF batch
<1>6. pushLog' \in Seq(PushRecord)
  BY <1>3, <1>4, <1>5
<1>7. ASSUME NEW i \in DOMAIN pushLog'
      PROVE  \/ i \in DOMAIN pushLog /\ pushLog'[i] = pushLog[i]
             \/ pushLog'[i].endpoint \in ToSet(list) /\ pushLog'[i].size = size
  <2>1. i \in 1 .. Len(pushLog) + Len(batch)
    BY <1>3, <1>4, <1>5
  <2>2. CASE i \in 1 .. Len(pushLog)
    BY <1>3, <1>4, <1>5, <2>2
  <2>3. CASE i \notin 1 .. Len(pushLog)
    <3>1. i - Len(pushLog) \in DOMAIN batch /\ pushLog'[i] = batch[i - Len(pushLog)]
      BY <1>3, <1>4, <1>5, <2>1, <2>3
    <3> QED
      BY <1>3, <3>1
  <2> QED
    BY <2>2, <2>3
<1>8. ASSUME NEW q, NEW e, NEW K
      PROVE  IF q = o /\ e \in ToSet(list) /\ kind \in K
             THEN \E p \in PushRecord :
                     p.kind = kind /\ SentTo(q, e, K)' = Append(SentTo(q, e, K), p)
             ELSE SentTo(q, e, K)' = SentTo(q, e, K)
  <2> DEFINE S == OfKind(q, e, K)
             k == Keep(pushLog, S)
  <2>1. SentTo(q, e, K)' = Keep(pushLog', S) /\ SentTo(q, e, K) = k
    BY DEF SentTo, OfKind, PushRecord
  <2>2. IF q = o /\ e \in ToSet(list) /\ kind \in K
        THEN \E p \in PushRecord : p.kind = kind /\ Keep(batch, S) = <<p>>
        ELSE Keep(batch, S) = <<>>
    BY <1>3
  <2> HIDE DEF S
  <2>3. Keep(pushLog', S) = k \o Keep(batch, S)
    BY <1>3, <1>4, <1>5, KeepConcat
  <2>4. k \in Seq(PushRecord)
    <3>1. k \in Seq(PushRecord \cap S)
      BY <1>5, KeepType
    <3> QED
      BY <3>1
  <2> HIDE DEF k
  <2>5. \A p \in PushRecord : k \o <<p>> = Append(k, p)
    BY <2>4
  <2>6. k \o <<>> = k
    BY <2>4
  <2> QED
    BY <2>1, <2>2, <2>3, <2>5, <2>6
<1> QED
  BY <1>6, <1>7, <1>8

LEMMA SentType ==
    ASSUME PushTypes, NEW o, NEW e, NEW K
    PROVE  SentTo(o, e, K) \in Seq(PushRecord)
<1> DEFINE S == OfKind(o, e, K)
<1>1. pushLog \in Seq(PushRecord)
  BY DEF PushTypes
<1> HIDE DEF S
<1>2. Keep(pushLog, S) \in Seq(PushRecord \cap S)
  BY <1>1, KeepType
<1>3. Keep(pushLog, S) \in Seq(PushRecord)
  BY <1>2
<1> QED
  BY <1>3 DEF S, SentTo

(* What is sent to an order's endpoints leaves the others' logs alone, and *)
(* no size of a payload that fits spoils the sizes.                        *)
LEMMA PushStart == ASSUME PushAssumption, PushInit PROVE PushInv
<1> DEFINE none == <<>>
<1>1. \A S : none \in Seq(S) /\ DOMAIN none = {} /\ Len(none) = 0
  OBVIOUS
<1>2. /\ status = none /\ pushLog = none /\ noted = none
      /\ subs = [c \in Customers |-> none]
      /\ script = [at |-> "subscribe", order |-> None]
      /\ joined = [o \in OrderIds |-> [e \in AllEndpoints |-> None]]
  BY DEF PushInit
<1>3. \A S : Keep(none, S) = none
  BY KeepEmpty
<1>4. ToSet(none) = {}
  BY <1>1 DEF ToSet
<1> HIDE DEF none
<1>5. PushTypes
  BY <1>1, <1>2 DEF PushTypes, StatusType, PushAssumption
<1>6. ASSUME NEW o \in OrderIds PROVE SubsOf(o)
  <2>1. subs[o] = none
    BY <1>2 DEF Customers
  <2> QED
    BY <1>1, <1>2, <1>4, <2>1 DEF SubsOf, EachOnce, none
<1>7. ASSUME NEW o \in OrderIds, NEW e \in AllEndpoints PROVE SentOf(o, e)
  <2>1. /\ \A K : SentTo(o, e, K) = none
        /\ NotesTo(o, e) = none
    BY <1>2, <1>3 DEF SentTo, NotesTo
  <2> QED
    BY <1>2, <2>1 DEF SentOf, none
<1>8. ScriptInv /\ PayloadsFit
  BY <1>1, <1>2 DEF ScriptInv, PayloadsFit
<1> QED
  BY <1>5, <1>6, <1>7, <1>8 DEF PushInv

(* place_order finds nobody to push to.                                    *)
LEMMA PlacesOrderKeeps ==
    ASSUME PushAssumption, PushInv, PlacesOrder, UNCHANGED <<subs, joined, noted>>
    PROVE  /\ StatusType' /\ pushLog' \in Seq(PushRecord)
           /\ \A o \in OrderIds : SubsOf(o)'
           /\ \A o \in OrderIds, e \in AllEndpoints : SentOf(o, e)'
           /\ (\A i \in DOMAIN pushLog : pushLog[i].endpoint # DemoEndpoint)'
           /\ PayloadsFit'
           /\ Len(status) + 1 \in OrderIds /\ Len(status) + 1 \in DOMAIN status'
           /\ \A o \in DOMAIN status : o \in DOMAIN status' /\ status'[o] = status[o]
<1> DEFINE new == Len(status) + 1
           list == subs[new]
<1>1. /\ new \in OrderIds /\ status' = Append(status, 0)
      /\ SendPushTo(list, new, 0, StatusSize)
  BY DEF PlacesOrder
<1>2. /\ PushTypes /\ (\A o \in OrderIds : SubsOf(o)) /\ ScriptInv /\ PayloadsFit
      /\ (\A o \in OrderIds, e \in AllEndpoints : SentOf(o, e))
      /\ 0 \in 0 .. FinalStatus
  BY DEF PushInv, PushAssumption
<1>3. /\ StatusType' /\ DOMAIN status' = DOMAIN status \cup {new}
      /\ new \notin DOMAIN status
      /\ \A o \in DOMAIN status : o \in DOMAIN status' /\ status'[o] = status[o]
  <2>1. status \in Seq(0 .. FinalStatus) /\ DOMAIN status = 1 .. Len(status) /\ Len(status) \in Nat
    BY <1>2 DEF PushTypes, StatusType
  <2>2. new = Len(status) + 1 /\ new <= MaxOrders
    BY <1>1 DEF OrderIds
  <2> HIDE DEF new
  <2> QED
    BY <1>1, <1>2, <2>1, <2>2 DEF StatusType
<1>4. list = <<>> /\ list \in Seq(AllEndpoints) /\ ToSet(list) = {} /\ EachOnce(list)
  <2>1. list = <<>>
    <3>1. SubsOf(new) /\ new \notin DOMAIN status
      BY <1>1, <1>2, <1>3
    <3> HIDE DEF new
    <3> QED
      BY <3>1 DEF SubsOf
  <2> HIDE DEF list
  <2>2. DOMAIN list = {} /\ list \in Seq(AllEndpoints)
    BY <2>1
  <2> QED
    BY <2>1, <2>2 DEF ToSet, EachOnce
<1>5. StatusSize \in Int /\ 0 \in PushKinds
  BY <1>2, SizesFit DEF PushKinds
<1> HIDE DEF new, list
<1>6. /\ pushLog' \in Seq(PushRecord)
      /\ \A i \in DOMAIN pushLog' : i \in DOMAIN pushLog /\ pushLog'[i] = pushLog[i]
      /\ \A o, e, K : SentTo(o, e, K)' = SentTo(o, e, K)
  <2>1. ASSUME NEW l \in Seq(AllEndpoints), ToSet(l) = {}, EachOnce(l), NEW k \in PushKinds,
               NEW size \in Int, SendPushTo(l, new, k, size)
        PROVE  /\ pushLog' \in Seq(PushRecord)
               /\ \A i \in DOMAIN pushLog' : i \in DOMAIN pushLog /\ pushLog'[i] = pushLog[i]
               /\ \A o, e, K : SentTo(o, e, K)' = SentTo(o, e, K)
    BY <1>1, <1>2, <2>1, SendOnce
  <2> QED
    BY <1>1, <1>4, <1>5, <2>1
<1>7. ASSUME NEW o \in OrderIds PROVE SubsOf(o)'
  <2>1. SubsOf(o) /\ subs' = subs /\ joined' = joined
    BY <1>2
  <2> QED
    BY <1>3, <2>1 DEF SubsOf
<1>8. ASSUME NEW o \in OrderIds, NEW e \in AllEndpoints PROVE SentOf(o, e)'
  <2>1. SentOf(o, e) /\ SubsOf(o) /\ joined' = joined
    BY <1>2
  <2>2. NotesTo(o, e)' = NotesTo(o, e)
    BY DEF NotesTo, NoteRecord
  <2>3. joined[o][e] # None => status'[o] = status[o]
    <3>1. joined[o][e] # None => subs[o] # <<>>
      BY <2>1 DEF SubsOf, ToSet
    <3> QED
      BY <1>3, <2>1, <3>1 DEF SubsOf
  <2> QED
    BY <1>6, <2>1, <2>2, <2>3 DEF SentOf, KindSets
<1>9. /\ (\A i \in DOMAIN pushLog : pushLog[i].endpoint # DemoEndpoint)'
      /\ PayloadsFit'
  BY <1>2, <1>6 DEF ScriptInv, PayloadsFit
<1> QED
  BY <1>1, <1>3, <1>6, <1>7, <1>8, <1>9 DEF new

(* advance_order pushes the new status, and it is the next for everybody.  *)
LEMMA AdvancesKeeps ==
    ASSUME PushAssumption, PushInv, NEW o \in DOMAIN status, Advances(o),
           UNCHANGED <<subs, joined, noted>>
    PROVE  /\ StatusType' /\ pushLog' \in Seq(PushRecord)
           /\ \A q \in OrderIds : SubsOf(q)'
           /\ \A q \in OrderIds, e \in AllEndpoints : SentOf(q, e)'
           /\ (\A i \in DOMAIN pushLog : pushLog[i].endpoint # DemoEndpoint)'
           /\ PayloadsFit'
           /\ DOMAIN status' = DOMAIN status /\ status[o] # FinalStatus
           /\ \A q \in DOMAIN status : q # o => status'[q] = status[q]
<1> DEFINE list == subs[o]
           next == status[o] + 1
<1>1. /\ status[o] < FinalStatus /\ status' = [status EXCEPT ![o] = @ + 1]
      /\ SendPushTo(list, o, next, StatusSize)
  BY DEF Advances
<1>2. /\ PushTypes /\ (\A q \in OrderIds : SubsOf(q)) /\ ScriptInv /\ PayloadsFit
      /\ (\A q \in OrderIds, e \in AllEndpoints : SentOf(q, e))
      /\ Custom \notin Nat /\ FinalStatus \in Nat /\ None \notin Nat
  BY DEF PushInv, PushAssumption
<1>3. /\ status \in Seq(0 .. FinalStatus) /\ status[o] \in 0 .. FinalStatus
      /\ o \in OrderIds /\ Len(status) \in Nat /\ DOMAIN status = 1 .. Len(status)
      /\ next \in 0 .. FinalStatus
      /\ next \in PushKinds /\ next # Custom /\ next \in Int
  <2>1. status \in Seq(0 .. FinalStatus)
    BY <1>2 DEF PushTypes, StatusType
  <2>2. status[o] \in 0 .. FinalStatus
    BY <2>1
  <2>3. Len(status) <= MaxOrders /\ Len(status) \in Nat /\ DOMAIN status = 1 .. Len(status)
    BY <1>2, <2>1 DEF PushTypes, StatusType
  <2>4. o \in OrderIds
    BY <2>3 DEF OrderIds, PushAssumption
  <2> QED
    BY <1>1, <1>2, <2>1, <2>2, <2>3, <2>4 DEF PushKinds
<1>4. /\ StatusType' /\ DOMAIN status' = DOMAIN status
      /\ status'[o] = next /\ \A q \in DOMAIN status : q # o => status'[q] = status[q]
  <2> HIDE DEF next
  <2>1. status' = [status EXCEPT ![o] = next]
    BY <1>1 DEF next
  <2>2. /\ status' \in Seq(0 .. FinalStatus) /\ Len(status') = Len(status)
        /\ DOMAIN status' = DOMAIN status
    BY <1>3, <2>1
  <2> QED
    BY <1>2, <1>3, <2>1, <2>2 DEF PushTypes, StatusType
<1>5. StatusSize \in Int /\ StatusSize <= Limit
  BY SizesFit
<1> HIDE DEF list, next
<1>6. /\ list \in Seq(AllEndpoints) /\ EachOnce(list) /\ DemoEndpoint \notin ToSet(list)
      /\ \A e \in AllEndpoints : e \in ToSet(list) <=> joined[o][e] # None
  BY <1>2, <1>3 DEF SubsOf, PushTypes, Customers, list
<1>7. /\ pushLog' \in Seq(PushRecord)
      /\ \A i \in DOMAIN pushLog' :
            \/ i \in DOMAIN pushLog /\ pushLog'[i] = pushLog[i]
            \/ pushLog'[i].endpoint \in ToSet(list) /\ pushLog'[i].size = StatusSize
      /\ \A q, e, K :
            IF q = o /\ e \in ToSet(list) /\ next \in K
            THEN \E p \in PushRecord :
                    p.kind = next /\ SentTo(q, e, K)' = Append(SentTo(q, e, K), p)
            ELSE SentTo(q, e, K)' = SentTo(q, e, K)
  <2>1. SendPushTo(list, o, next, StatusSize)
    BY <1>1
  <2> QED
    BY <1>2, <1>3, <1>5, <1>6, <2>1, SendOnce
<1>8. ASSUME NEW q \in OrderIds PROVE SubsOf(q)'
  <2>1. SubsOf(q) /\ subs' = subs /\ joined' = joined
    BY <1>2
  <2> QED
    BY <1>4, <2>1 DEF SubsOf
<1>9. ASSUME NEW q \in OrderIds, NEW e \in AllEndpoints PROVE SentOf(q, e)'
  <2>1. SentOf(q, e) /\ SubsOf(q) /\ joined' = joined
    BY <1>2
  <2>2. NotesTo(q, e)' = NotesTo(q, e)
    BY DEF NotesTo, NoteRecord
  <2>3. CASE q = o /\ e \in ToSet(list)
    <3> DEFINE j == joined[q][e]
               K == 0 .. FinalStatus
               s == SentTo(q, e, K)
    <3>1. j # None /\ j \in 0 .. FinalStatus
      BY <1>2, <1>3, <1>6, <2>3 DEF PushTypes
    <3>2. PICK p \in PushRecord : p.kind = next /\ s' = Append(s, p)
      <4>1. next \in K
        BY <1>3
      <4> HIDE DEF K
      <4>2. \E p \in PushRecord :
               p.kind = next /\ SentTo(q, e, K)' = Append(SentTo(q, e, K), p)
        BY <1>7, <2>3, <4>1
      <4> QED
        BY <4>2
    <3>3. s \in Seq(PushRecord)
      BY <1>2, SentType
    <3>4. Len(s) = status[q] - j /\ \A i \in DOMAIN s : s[i].kind = j + i
      BY <2>1, <3>1 DEF SentOf
    <3>5. SentTo(q, e, {Custom})' = SentTo(q, e, {Custom})
      <4>1. next \notin {Custom}
        BY <1>3
      <4> QED
        BY <1>7, <4>1
    <3> DEFINE t == Append(s, p)
    <3> HIDE DEF s
    <3>6. Len(t) = Len(s) + 1 /\ Len(s) \in Nat /\ DOMAIN t = 1 .. Len(s) + 1
          /\ DOMAIN s = 1 .. Len(s)
          /\ t[Len(s) + 1] = p /\ \A i \in 1 .. Len(s) : t[i] = s[i]
      BY <3>2, <3>3
    <3> HIDE DEF t, j
    <3>7. Len(t) = status'[q] - j
      BY <1>3, <1>4, <2>3, <3>1, <3>4, <3>6 DEF next
    <3>8. ASSUME NEW i \in DOMAIN t PROVE t[i].kind = j + i
      <4>1. CASE i \in 1 .. Len(s)
        BY <3>4, <3>6, <4>1
      <4>2. CASE i = Len(s) + 1
        <5>1. t[i].kind = next /\ next = status[q] + 1
          BY <2>3, <3>2, <3>6, <4>2 DEF next
        <5> QED
          BY <1>3, <2>3, <3>1, <3>4, <3>6, <4>2, <5>1
      <4> QED
        BY <3>6, <4>1, <4>2
    <3> QED
      BY <2>1, <2>2, <3>1, <3>2, <3>5, <3>7, <3>8 DEF SentOf, s, t, j
  <2>4. CASE ~ (q = o /\ e \in ToSet(list))
    <3>1. \A K : SentTo(q, e, K)' = SentTo(q, e, K)
      BY <1>7, <2>4
    <3>2. joined[q][e] # None => status'[q] = status[q]
      <4>1. CASE q = o
        BY <1>6, <2>4, <4>1
      <4>2. CASE q # o
        <5>1. joined[q][e] # None => subs[q] # <<>>
          BY <2>1 DEF SubsOf, ToSet
        <5> QED
          BY <1>4, <2>1, <4>2, <5>1 DEF SubsOf
      <4> QED
        BY <4>1, <4>2
    <3> QED
      BY <2>1, <2>2, <3>1, <3>2 DEF SentOf
  <2> QED
    BY <2>3, <2>4
<1>10. /\ (\A i \in DOMAIN pushLog : pushLog[i].endpoint # DemoEndpoint)'
       /\ PayloadsFit'
  <2>1. \A i \in DOMAIN pushLog' : pushLog'[i].endpoint # DemoEndpoint
    BY <1>2, <1>6, <1>7 DEF ScriptInv
  <2>2. PayloadsFit'
    BY <1>2, <1>5, <1>7 DEF PayloadsFit
  <2> QED
    BY <2>1, <2>2
<1>11. status[o] # FinalStatus
  BY <1>1, <1>3, <1>2
<1> QED
  BY <1>4, <1>7, <1>8, <1>9, <1>10, <1>11

(* send_custom_notification goes to those subscribed now.                  *)
LEMMA NotifyKeeps ==
    ASSUME PushAssumption, PushInv, NEW o \in OrderIds, NEW note \in Notes, Notify(o, note)
    PROVE  PushInv'
<1> DEFINE list == subs[o]
           size == PayloadSize(note.rest, note.body, note.width)
           entry == [order |-> o, to |-> ToSet(list),
                     plain |-> note.width = 1 /\ note.rest + Margin <= Limit]
<1>1. /\ o \in DOMAIN status
      /\ SendPushTo(list, o, Custom, size)
      /\ noted' = Append(noted, entry)
      /\ UNCHANGED <<mode, status, subs, script, joined>>
  BY DEF Notify
<1>2. /\ PushTypes /\ (\A q \in OrderIds : SubsOf(q)) /\ ScriptInv /\ PayloadsFit
      /\ (\A q \in OrderIds, e \in AllEndpoints : SentOf(q, e))
      /\ Custom \notin Nat /\ FinalStatus \in Nat
  BY DEF PushInv, PushAssumption
<1>3. size \in Int /\ (entry.plain => size <= Limit)
  BY SizesFit
<1>4. /\ list \in Seq(AllEndpoints) /\ EachOnce(list) /\ DemoEndpoint \notin ToSet(list)
      /\ \A e \in AllEndpoints : e \in ToSet(list) <=> joined[o][e] # None
      /\ ToSet(list) \in SUBSET AllEndpoints
  <2>1. SubsOf(o)
    BY <1>2
  <2>2. list \in Seq(AllEndpoints)
    BY <1>2 DEF PushTypes, Customers
  <2>3. \A i \in DOMAIN list : list[i] \in AllEndpoints
    BY <2>2
  <2> QED
    BY <2>1, <2>2, <2>3 DEF SubsOf, ToSet
<1>5. /\ entry \in NoteRecord /\ entry.order = o /\ entry.to = ToSet(list)
      /\ noted \in Seq(NoteRecord) /\ noted' \in Seq(NoteRecord)
  <2> DEFINE to == ToSet(list)
             plain == note.width = 1 /\ note.rest + Margin <= Limit
  <2>1. to \in SUBSET AllEndpoints /\ plain \in BOOLEAN
        /\ entry = [order |-> o, to |-> to, plain |-> plain]
    BY <1>4
  <2> HIDE DEF to, plain
  <2>2. entry \in NoteRecord /\ entry.order = o /\ entry.to = to
    BY <2>1 DEF NoteRecord
  <2> HIDE DEF entry
  <2>3. noted \in Seq(NoteRecord) /\ noted' \in Seq(NoteRecord)
    BY <1>1, <1>2, <2>2 DEF PushTypes
  <2> QED
    BY <2>2, <2>3 DEF to
<1> HIDE DEF list, size, entry
<1>6. Custom \in PushKinds /\ Custom \notin 0 .. FinalStatus /\ Custom \in {Custom}
  BY <1>2 DEF PushKinds
<1>7. /\ pushLog' \in Seq(PushRecord)
      /\ \A i \in DOMAIN pushLog' :
            \/ i \in DOMAIN pushLog /\ pushLog'[i] = pushLog[i]
            \/ pushLog'[i].endpoint \in ToSet(list) /\ pushLog'[i].size = size
      /\ \A q, e, K :
            IF q = o /\ e \in ToSet(list) /\ Custom \in K
            THEN \E p \in PushRecord :
                    p.kind = Custom /\ SentTo(q, e, K)' = Append(SentTo(q, e, K), p)
            ELSE SentTo(q, e, K)' = SentTo(q, e, K)
  <2>1. ASSUME NEW k \in PushKinds, SendPushTo(list, o, k, size)
        PROVE  /\ pushLog' \in Seq(PushRecord)
               /\ \A i \in DOMAIN pushLog' :
                     \/ i \in DOMAIN pushLog /\ pushLog'[i] = pushLog[i]
                     \/ pushLog'[i].endpoint \in ToSet(list) /\ pushLog'[i].size = size
               /\ \A q, e, K :
                     IF q = o /\ e \in ToSet(list) /\ k \in K
                     THEN \E p \in PushRecord :
                             p.kind = k /\ SentTo(q, e, K)' = Append(SentTo(q, e, K), p)
                     ELSE SentTo(q, e, K)' = SentTo(q, e, K)
    BY <1>2, <1>3, <1>4, <2>1, SendOnce
  <2> QED
    BY <1>1, <1>6, <2>1
<1>8. ASSUME NEW q \in OrderIds PROVE SubsOf(q)'
  <2>1. SubsOf(q) /\ subs' = subs /\ joined' = joined /\ status' = status
    BY <1>1, <1>2
  <2> QED
    BY <2>1 DEF SubsOf
<1>9. ASSUME NEW q \in OrderIds, NEW e \in AllEndpoints PROVE SentOf(q, e)'
  <2>1. SentOf(q, e) /\ joined' = joined /\ status' = status
    BY <1>1, <1>2
  <2> DEFINE S == {n \in NoteRecord : n.order = q /\ e \in n.to}
             notes == Keep(noted, S)
  <2>2. NotesTo(q, e) = notes /\ NotesTo(q, e)' = Keep(noted', S)
    BY DEF NotesTo, NoteRecord
  <2>3. entry \in S <=> q = o /\ e \in ToSet(list)
    BY <1>5
  <2> HIDE DEF S
  <2>4. Keep(noted', S) = IF entry \in S THEN Append(notes, entry) ELSE notes
    BY <1>1, <1>5, KeepAppend
  <2>5. notes \in Seq(NoteRecord)
    <3>1. notes \in Seq(NoteRecord \cap S)
      BY <1>5, KeepType
    <3> HIDE DEF notes
    <3> QED
      BY <3>1
  <2> HIDE DEF notes
  <2>6. Len(Append(notes, entry)) = Len(notes) + 1
    BY <1>5, <2>5
  <2> DEFINE sent == SentTo(q, e, {Custom})
  <2>7. sent \in Seq(PushRecord) /\ Len(sent) = Len(notes)
    BY <1>2, <2>1, <2>2, SentType DEF SentOf
  <2>8. CASE q = o /\ e \in ToSet(list)
    <3>1. PICK p \in PushRecord : SentTo(q, e, {Custom})' = Append(SentTo(q, e, {Custom}), p)
      BY <1>6, <1>7, <2>8
    <3>2. Len(SentTo(q, e, {Custom})') = Len(sent) + 1
      <4>1. sent' = Append(sent, p)
        BY <3>1
      <4> HIDE DEF sent
      <4>2. Len(sent') = Len(sent) + 1
        BY <2>7, <4>1
      <4> QED
        BY <4>2 DEF sent
    <3>3. Len(SentTo(q, e, {Custom})') = Len(NotesTo(q, e)')
      BY <2>2, <2>3, <2>4, <2>6, <2>7, <2>8, <3>2
    <3>4. SentTo(q, e, 0 .. FinalStatus)' = SentTo(q, e, 0 .. FinalStatus)
      BY <1>6, <1>7
    <3>5. joined[q][e] # None
      BY <1>4, <2>8
    <3> QED
      BY <2>1, <3>3, <3>4, <3>5 DEF SentOf
  <2>9. CASE ~ (q = o /\ e \in ToSet(list))
    <3>1. \A K : SentTo(q, e, K)' = SentTo(q, e, K)
      BY <1>7, <2>9
    <3>2. NotesTo(q, e)' = NotesTo(q, e)
      BY <2>2, <2>3, <2>4, <2>9
    <3> QED
      BY <2>1, <3>1, <3>2 DEF SentOf
  <2> QED
    BY <2>8, <2>9
<1>10. ScriptInv'
  BY <1>1, <1>2, <1>4, <1>7 DEF ScriptInv
<1>11. PayloadsFit'
  <2>1. ASSUME \A n \in DOMAIN noted' : noted'[n].plain
        PROVE  entry.plain /\ \A n \in DOMAIN noted : noted[n].plain
    <3>1. /\ DOMAIN noted' = 1 .. Len(noted) + 1 /\ DOMAIN noted = 1 .. Len(noted)
          /\ Len(noted) \in Nat
          /\ noted'[Len(noted) + 1] = entry /\ \A n \in 1 .. Len(noted) : noted'[n] = noted[n]
      BY <1>1, <1>5
    <3>2. /\ Len(noted) + 1 \in 1 .. Len(noted) + 1
          /\ \A n \in 1 .. Len(noted) : n \in 1 .. Len(noted) + 1
      BY <3>1
    <3> QED
      BY <2>1, <3>1, <3>2
  <2>2. ASSUME \A n \in DOMAIN noted' : noted'[n].plain, NEW i \in DOMAIN pushLog'
        PROVE  pushLog'[i].size <= Limit
    BY <1>2, <1>3, <1>7, <2>1, <2>2 DEF PayloadsFit
  <2> QED
    BY <2>2 DEF PayloadsFit
<1>12. PushTypes'
  BY <1>1, <1>2, <1>5, <1>7 DEF PushTypes, StatusType
<1> QED
  BY <1>8, <1>9, <1>10, <1>11, <1>12 DEF PushInv

(* Who subscribes has a claim to the statuses from now on.                 *)
LEMMA SubscribeKeeps ==
    ASSUME PushAssumption, PushInv, NEW c \in Customers, NEW e \in AllEndpoints,
           SubscribeAs(c, e), UNCHANGED <<status, pushLog, noted>>,
           c \in OrderIds => c \in DOMAIN status /\ e # DemoEndpoint
    PROVE  /\ subs' \in [Customers -> Seq(AllEndpoints)]
           /\ joined' \in [OrderIds -> [AllEndpoints -> (0 .. FinalStatus) \cup {None}]]
           /\ \A q \in OrderIds : SubsOf(q)'
           /\ \A q \in OrderIds, f \in AllEndpoints : SentOf(q, f)'
<1> DEFINE list == subs[c]
           now == IF e \in ToSet(list) THEN list ELSE Append(list, e)
<1>1. /\ subs' = [subs EXCEPT ![c] = now]
      /\ joined' = IF c \in DOMAIN status /\ joined[c][e] = None
                   THEN [joined EXCEPT ![c][e] = status[c]] ELSE joined
  BY DEF SubscribeAs, Subscribed
<1>2. /\ PushTypes /\ (\A q \in OrderIds : SubsOf(q))
      /\ (\A q \in OrderIds, f \in AllEndpoints : SentOf(q, f))
      /\ None \notin Nat /\ DemoCustomer \notin Nat
  BY DEF PushInv, PushAssumption
<1>3. list \in Seq(AllEndpoints) /\ now \in Seq(AllEndpoints)
  BY <1>2 DEF PushTypes
<1>4. ToSet(now) = ToSet(list) \cup {e} /\ (EachOnce(list) => EachOnce(now))
  <2>1. CASE e \in ToSet(list)
    BY <2>1
  <2>2. CASE e \notin ToSet(list)
    <3> HIDE DEF list
    <3>1. /\ now = Append(list, e) /\ Len(list) \in Nat /\ DOMAIN list = 1 .. Len(list)
          /\ DOMAIN now = 1 .. Len(list) + 1 /\ now[Len(list) + 1] = e
          /\ \A i \in 1 .. Len(list) : now[i] = list[i] /\ list[i] # e
      BY <1>3, <2>2 DEF ToSet
    <3> HIDE DEF now
    <3>2. ToSet(now) = ToSet(list) \cup {e}
      BY <3>1 DEF ToSet
    <3>3. EachOnce(list) => EachOnce(now)
      BY <3>1 DEF EachOnce
    <3> QED
      BY <3>2, <3>3
  <2> QED
    BY <2>1, <2>2
<1> HIDE DEF now
<1>5. subs' \in [Customers -> Seq(AllEndpoints)] /\ subs'[c] = now
      /\ \A d \in Customers : d # c => subs'[d] = subs[d]
  BY <1>1, <1>2, <1>3 DEF PushTypes
<1> HIDE DEF list
<1>6. CASE c \notin OrderIds
  <2>1. c \notin DOMAIN status
    <3>1. c = DemoCustomer
      BY <1>6 DEF Customers
    <3>2. DOMAIN status = 1 .. Len(status)
      BY <1>2 DEF PushTypes, StatusType
    <3> QED
      BY <1>2, <3>1, <3>2
  <2>2. joined' = joined /\ \A q \in OrderIds : q \in Customers /\ subs'[q] = subs[q]
    BY <1>1, <1>5, <1>6, <2>1 DEF Customers
  <2>3. \A q \in OrderIds : SubsOf(q)'
    BY <1>2, <2>2 DEF SubsOf
  <2>4. ASSUME NEW q \in OrderIds, NEW f \in AllEndpoints PROVE SentOf(q, f)'
    <3>1. /\ SentOf(q, f) /\ NotesTo(q, f)' = NotesTo(q, f)
          /\ \A K : SentTo(q, f, K)' = SentTo(q, f, K)
      BY <1>2 DEF NotesTo, NoteRecord, SentTo, OfKind, PushRecord
    <3> QED
      BY <2>2, <3>1 DEF SentOf
  <2> QED
    BY <1>2, <1>5, <2>2, <2>3, <2>4 DEF PushTypes
<1>7. CASE c \in OrderIds
  <2>1. c \in DOMAIN status /\ e # DemoEndpoint /\ status[c] \in 0 .. FinalStatus
        /\ status[c] # None
    <3>1. c \in DOMAIN status /\ e # DemoEndpoint
      BY <1>7
    <3>2. status[c] \in 0 .. FinalStatus
      BY <1>2, <3>1 DEF PushTypes, StatusType
    <3> QED
      BY <1>2, <3>1, <3>2
  <2>2. joined \in [OrderIds -> [AllEndpoints -> (0 .. FinalStatus) \cup {None}]]
    BY <1>2 DEF PushTypes
  <2>3. /\ joined' \in [OrderIds -> [AllEndpoints -> (0 .. FinalStatus) \cup {None}]]
        /\ joined'[c][e] = IF joined[c][e] = None THEN status[c] ELSE joined[c][e]
        /\ \A q \in OrderIds, f \in AllEndpoints : q # c \/ f # e => joined'[q][f] = joined[q][f]
    <3>1. CASE joined[c][e] = None
      <4>1. joined' = [joined EXCEPT ![c][e] = status[c]]
        BY <1>1, <2>1, <3>1
      <4> QED
        BY <1>7, <2>1, <2>2, <3>1, <4>1
    <3>2. CASE joined[c][e] # None
      BY <1>1, <1>7, <2>2, <3>2
    <3> QED
      BY <3>1, <3>2
  <2>4. ASSUME NEW q \in OrderIds PROVE SubsOf(q)'
    <3>1. SubsOf(q) /\ q \in Customers
      BY <1>2 DEF Customers
    <3>2. CASE q = c
      <4>1. /\ subs'[c] = now /\ EachOnce(now) /\ c \in DOMAIN status'
            /\ DemoEndpoint \notin ToSet(now)
        BY <1>4, <1>5, <2>1, <3>1, <3>2 DEF SubsOf, list
      <4>2. ASSUME NEW f \in AllEndpoints PROVE f \in ToSet(now) <=> joined'[c][f] # None
        <5>1. f \in ToSet(list) <=> joined[c][f] # None
          BY <3>1, <3>2 DEF SubsOf, list
        <5>2. CASE f = e
          BY <1>4, <2>1, <2>3, <5>2
        <5>3. CASE f # e
          BY <1>4, <1>7, <2>3, <5>1, <5>3
        <5> QED
          BY <5>2, <5>3
      <4> QED
        BY <3>2, <4>1, <4>2 DEF SubsOf
    <3>3. CASE q # c
      <4>1. subs'[q] = subs[q] /\ \A f \in AllEndpoints : joined'[q][f] = joined[q][f]
        BY <1>5, <2>3, <3>1, <3>3
      <4> QED
        BY <3>1, <4>1 DEF SubsOf
    <3> QED
      BY <3>2, <3>3
  <2>5. ASSUME NEW q \in OrderIds, NEW f \in AllEndpoints PROVE SentOf(q, f)'
    <3>1. /\ SentOf(q, f) /\ NotesTo(q, f)' = NotesTo(q, f)
          /\ \A K : SentTo(q, f, K)' = SentTo(q, f, K)
      BY <1>2 DEF NotesTo, NoteRecord, SentTo, OfKind, PushRecord
    <3>2. CASE joined'[q][f] = joined[q][f]
      BY <3>1, <3>2 DEF SentOf
    <3>3. CASE joined'[q][f] # joined[q][f]
      <4>1. q = c /\ f = e /\ joined[q][f] = None /\ joined'[q][f] = status[q]
        BY <2>3, <3>3
      <4> DEFINE none == <<>>
      <4>2. SentTo(q, f, 0 .. FinalStatus) = none
        BY <3>1, <4>1 DEF SentOf, KindSets
      <4>3. Len(none) = 0 /\ DOMAIN none = {} /\ status[q] - status[q] = 0
        BY <2>1, <4>1
      <4> HIDE DEF none
      <4> QED
        BY <2>1, <3>1, <4>1, <4>2, <4>3 DEF SentOf
    <3> QED
      BY <3>2, <3>3
  <2> QED
    BY <1>5, <2>3, <2>4, <2>5
<1> QED
  BY <1>6, <1>7

LEMMA PushStepKeeps ==
    ASSUME PushAssumption, PushInv, PushNext PROVE PushInv'
<1>1. /\ PushTypes /\ (\A q \in OrderIds : SubsOf(q)) /\ ScriptInv /\ PayloadsFit
      /\ (\A q \in OrderIds, f \in AllEndpoints : SentOf(q, f))
      /\ FinalStatus \in Nat /\ DemoCustomer \notin Nat /\ DemoEndpoint \notin Endpoints
  BY DEF PushInv, PushAssumption
<1>2. /\ script \in [at : {"subscribe", "order", "advance", "log"}, order : OrderIds \cup {None}]
      /\ status \in Seq(0 .. FinalStatus)
  BY <1>1 DEF PushTypes, StatusType
<1>3. CASE PlaceNewOrder
  <2>1. PlacesOrder /\ UNCHANGED <<subs, script, joined, noted>>
    BY <1>3 DEF PlaceNewOrder
  <2>2. /\ StatusType' /\ pushLog' \in Seq(PushRecord)
        /\ \A o \in OrderIds : SubsOf(o)'
        /\ \A o \in OrderIds, e \in AllEndpoints : SentOf(o, e)'
        /\ (\A i \in DOMAIN pushLog : pushLog[i].endpoint # DemoEndpoint)'
        /\ PayloadsFit'
        /\ \A o \in DOMAIN status : o \in DOMAIN status' /\ status'[o] = status[o]
    BY <2>1, PlacesOrderKeeps
  <2>3. ScriptInv'
    BY <1>1, <2>1, <2>2 DEF ScriptInv
  <2>4. PushTypes'
    BY <1>1, <2>1, <2>2 DEF PushTypes
  <2> QED
    BY <2>2, <2>3, <2>4 DEF PushInv
<1>4. ASSUME NEW o \in OrderIds, AdvanceOrder(o) PROVE PushInv'
  <2>1. o \in DOMAIN status /\ Advances(o) /\ UNCHANGED <<subs, script, joined, noted>>
    BY <1>4 DEF AdvanceOrder
  <2>2. /\ StatusType' /\ pushLog' \in Seq(PushRecord)
        /\ \A q \in OrderIds : SubsOf(q)'
        /\ \A q \in OrderIds, e \in AllEndpoints : SentOf(q, e)'
        /\ (\A i \in DOMAIN pushLog : pushLog[i].endpoint # DemoEndpoint)'
        /\ PayloadsFit'
        /\ DOMAIN status' = DOMAIN status /\ status[o] # FinalStatus
        /\ \A q \in DOMAIN status : q # o => status'[q] = status[q]
    BY <2>1, AdvancesKeeps
  <2>3. ScriptInv'
    <3>1. script.at = "log" => script.order \in DOMAIN status /\ script.order # o
      BY <1>1, <2>2 DEF ScriptInv
    <3> QED
      BY <1>1, <2>1, <2>2, <3>1 DEF ScriptInv
  <2>4. PushTypes'
    BY <1>1, <2>1, <2>2 DEF PushTypes
  <2> QED
    BY <2>2, <2>3, <2>4 DEF PushInv
<1>5. ASSUME NEW o \in OrderIds, NEW e \in Endpoints, Subscribe(o, e) PROVE PushInv'
  <2>1. o \in DOMAIN status /\ SubscribeAs(o, e) /\ UNCHANGED <<status, pushLog, script, noted>>
    BY <1>5 DEF Subscribe
  <2>2. o \in Customers /\ e \in AllEndpoints /\ e # DemoEndpoint
    BY <1>1 DEF Customers, AllEndpoints
  <2>3. /\ subs' \in [Customers -> Seq(AllEndpoints)]
        /\ joined' \in [OrderIds -> [AllEndpoints -> (0 .. FinalStatus) \cup {None}]]
        /\ \A q \in OrderIds : SubsOf(q)'
        /\ \A q \in OrderIds, f \in AllEndpoints : SentOf(q, f)'
    BY <2>1, <2>2, SubscribeKeeps
  <2>4. ScriptInv' /\ PayloadsFit'
    BY <1>1, <2>1 DEF ScriptInv, PayloadsFit
  <2>5. PushTypes'
    BY <1>1, <2>1, <2>3 DEF PushTypes, StatusType
  <2> QED
    BY <2>3, <2>4, <2>5 DEF PushInv
<1>6. ASSUME NEW o \in OrderIds, NEW note \in Notes, Notify(o, note) PROVE PushInv'
  BY <1>6, NotifyKeeps
<1>7. CASE ScriptSubscribes
  <2>1. /\ script.at = "subscribe" /\ SubscribeAs(DemoCustomer, DemoEndpoint)
        /\ script' = [script EXCEPT !.at = "order"]
        /\ UNCHANGED <<status, pushLog, noted>>
    BY <1>7 DEF ScriptSubscribes
  <2>2. DemoCustomer \in Customers /\ DemoEndpoint \in AllEndpoints /\ DemoCustomer \notin OrderIds
    BY <1>1 DEF Customers, AllEndpoints, OrderIds
  <2>3. /\ subs' \in [Customers -> Seq(AllEndpoints)]
        /\ joined' \in [OrderIds -> [AllEndpoints -> (0 .. FinalStatus) \cup {None}]]
        /\ \A q \in OrderIds : SubsOf(q)'
        /\ \A q \in OrderIds, f \in AllEndpoints : SentOf(q, f)'
    BY <2>1, <2>2, SubscribeKeeps
  <2>4. /\ script'.at = "order"
        /\ script' \in [at : {"subscribe", "order", "advance", "log"}, order : OrderIds \cup {None}]
    BY <1>2, <2>1
  <2>5. ScriptInv' /\ PayloadsFit'
    BY <1>1, <2>1, <2>4 DEF ScriptInv, PayloadsFit
  <2>6. PushTypes'
    BY <1>1, <2>1, <2>3, <2>4 DEF PushTypes, StatusType
  <2> QED
    BY <2>3, <2>5, <2>6 DEF PushInv
<1>8. CASE ScriptOrders
  <2>1. /\ PlacesOrder /\ script' = [at |-> "advance", order |-> Len(status) + 1]
        /\ UNCHANGED <<subs, joined, noted>>
    BY <1>8 DEF ScriptOrders
  <2>2. /\ StatusType' /\ pushLog' \in Seq(PushRecord)
        /\ \A o \in OrderIds : SubsOf(o)'
        /\ \A o \in OrderIds, e \in AllEndpoints : SentOf(o, e)'
        /\ (\A i \in DOMAIN pushLog : pushLog[i].endpoint # DemoEndpoint)'
        /\ PayloadsFit'
        /\ Len(status) + 1 \in OrderIds /\ Len(status) + 1 \in DOMAIN status'
    BY <2>1, PlacesOrderKeeps
  <2>3. ScriptInv'
    BY <2>1, <2>2 DEF ScriptInv
  <2>4. script' \in [at : {"subscribe", "order", "advance", "log"}, order : OrderIds \cup {None}]
    BY <2>1, <2>2
  <2>5. PushTypes'
    BY <1>1, <2>1, <2>2, <2>4 DEF PushTypes
  <2> QED
    BY <2>2, <2>3, <2>5 DEF PushInv
<1>9. CASE ScriptAdvances
  <2> DEFINE o == script.order
  <2>1. /\ script.at = "advance" /\ UNCHANGED <<subs, joined, noted>>
        /\ IF status[o] < FinalStatus
           THEN Advances(o) /\ UNCHANGED script
           ELSE script' = [script EXCEPT !.at = "log"] /\ UNCHANGED <<status, pushLog>>
    BY <1>9 DEF ScriptAdvances
  <2>2. o \in DOMAIN status
    BY <1>1, <2>1 DEF ScriptInv
  <2>3. status[o] \in 0 .. FinalStatus
    BY <1>2, <2>2
  <2>4. CASE status[o] < FinalStatus
    <3>1. Advances(o) /\ UNCHANGED script
      BY <2>1, <2>4
    <3> HIDE DEF o
    <3>2. /\ StatusType' /\ pushLog' \in Seq(PushRecord)
          /\ \A q \in OrderIds : SubsOf(q)'
          /\ \A q \in OrderIds, e \in AllEndpoints : SentOf(q, e)'
          /\ (\A i \in DOMAIN pushLog : pushLog[i].endpoint # DemoEndpoint)'
          /\ PayloadsFit'
          /\ DOMAIN status' = DOMAIN status
      BY <2>1, <2>2, <3>1, AdvancesKeeps
    <3>3. ScriptInv'
      BY <1>1, <2>1, <3>1, <3>2 DEF ScriptInv
    <3>4. PushTypes'
      BY <1>1, <2>1, <3>1, <3>2 DEF PushTypes
    <3> QED
      BY <3>2, <3>3, <3>4 DEF PushInv
  <2>5. CASE ~ (status[o] < FinalStatus)
    <3>1. script' = [script EXCEPT !.at = "log"] /\ UNCHANGED <<status, pushLog>>
      BY <2>1, <2>5
    <3>2. /\ script'.at = "log" /\ script'.order = o
          /\ script' \in [at : {"subscribe", "order", "advance", "log"}, order : OrderIds \cup {None}]
      BY <1>2, <3>1
    <3>3. status[o] = FinalStatus
      BY <1>1, <2>3, <2>5
    <3>4. ScriptInv'
      BY <1>1, <2>2, <3>1, <3>2, <3>3 DEF ScriptInv
    <3>5. PushTypes' /\ PayloadsFit'
      BY <1>1, <2>1, <3>1, <3>2 DEF PushTypes, StatusType, PayloadsFit
    <3>6. ASSUME NEW q \in OrderIds PROVE SubsOf(q)'
      BY <1>1, <2>1, <3>1 DEF SubsOf
    <3>7. ASSUME NEW q \in OrderIds, NEW e \in AllEndpoints PROVE SentOf(q, e)'
      <4>1. /\ SentOf(q, e) /\ NotesTo(q, e)' = NotesTo(q, e)
            /\ \A K : SentTo(q, e, K)' = SentTo(q, e, K)
        BY <1>1, <2>1, <3>1 DEF NotesTo, NoteRecord, SentTo, OfKind, PushRecord
      <4> QED
        BY <2>1, <3>1, <4>1 DEF SentOf
    <3> QED
      BY <3>4, <3>5, <3>6, <3>7 DEF PushInv
  <2> QED
    BY <2>4, <2>5
<1> QED
  BY <1>3, <1>4, <1>5, <1>6, <1>7, <1>8, <1>9 DEF PushNext

LEMMA PushingStep ==
    ASSUME PushAssumption, PushInv, [PushNext]_pushVars PROVE PushInv'
<1>1. CASE UNCHANGED pushVars
  <2>1. UNCHANGED <<status, subs, pushLog, script, joined, noted>>
    BY <1>1 DEF pushVars
  <2>2. /\ PushTypes /\ (\A q \in OrderIds : SubsOf(q)) /\ ScriptInv /\ PayloadsFit
        /\ (\A q \in OrderIds, f \in AllEndpoints : SentOf(q, f))
    BY DEF PushInv
  <2>3. PushTypes' /\ ScriptInv' /\ PayloadsFit'
    BY <2>1, <2>2 DEF PushTypes, StatusType, ScriptInv, PayloadsFit
  <2>4. ASSUME NEW q \in OrderIds PROVE SubsOf(q)'
    BY <2>1, <2>2 DEF SubsOf
  <2>5. ASSUME NEW q \in OrderIds, NEW e \in AllEndpoints PROVE SentOf(q, e)'
    <3>1. /\ SentOf(q, e) /\ NotesTo(q, e)' = NotesTo(q, e)
          /\ \A K : SentTo(q, e, K)' = SentTo(q, e, K)
      BY <2>1, <2>2 DEF NotesTo, NoteRecord, SentTo, OfKind, PushRecord
    <3> QED
      BY <2>1, <3>1 DEF SentOf
  <2> QED
    BY <2>3, <2>4, <2>5 DEF PushInv
<1> QED
  BY <1>1, PushStepKeeps

(* The property filters the log in two rounds, the invariant in one.       *)
LEMMA PushHolds ==
    ASSUME PushAssumption, PushInv PROVE PushFollowsOrder
<1>1. /\ PushTypes /\ ScriptInv /\ PayloadsFit
      /\ (\A q \in OrderIds, f \in AllEndpoints : SentOf(q, f))
      /\ Custom \notin Nat
      /\ pushLog \in Seq(PushRecord) /\ noted \in Seq(NoteRecord)
  BY DEF PushInv, PushAssumption, PushTypes
<1>2. DOMAIN status \subseteq OrderIds
  <2>1. DOMAIN status = 1 .. Len(status) /\ Len(status) \in Nat /\ Len(status) <= MaxOrders
    BY <1>1 DEF PushTypes, StatusType
  <2> QED
    BY <2>1 DEF OrderIds, PushAssumption
<1>3. \A k \in DOMAIN pushLog : /\ pushLog[k] \in PushRecord /\ pushLog[k] \in ToSet(pushLog)
                                /\ pushLog[k].kind \in PushKinds
                                /\ (pushLog[k].kind # Custom <=> pushLog[k].kind \in 0 .. FinalStatus)
  <2>1. ASSUME NEW k \in DOMAIN pushLog PROVE pushLog[k] \in PushRecord /\ pushLog[k] \in ToSet(pushLog)
    BY <1>1 DEF ToSet
  <2>2. ASSUME NEW p \in PushRecord
        PROVE  p.kind \in PushKinds /\ (p.kind # Custom <=> p.kind \in 0 .. FinalStatus)
    BY <1>1 DEF PushRecord, PushKinds
  <2> QED
    BY <2>1, <2>2
<1>4. ASSUME NEW o, NEW e PROVE Pushes(o, e) = SentTo(o, e, PushKinds)
  <2> DEFINE R == {p \in ToSet(pushLog) : p.order = o /\ p.endpoint = e}
             S == OfKind(o, e, PushKinds)
  <2>1. \A k \in DOMAIN pushLog : pushLog[k] \in R <=> pushLog[k] \in S
    BY <1>3 DEF OfKind
  <2> HIDE DEF R, S
  <2>2. Keep(pushLog, R) = Keep(pushLog, S)
    BY <1>1, <2>1, KeepAgree
  <2> QED
    BY <2>2 DEF R, S, Pushes, SentTo
<1>5. ASSUME NEW o, NEW e, NEW Q, NEW K,
             \A k \in DOMAIN pushLog : pushLog[k] \in Q <=> pushLog[k].kind \in K
      PROVE  Keep(Pushes(o, e), Q) = SentTo(o, e, K)
  <2> DEFINE R == OfKind(o, e, PushKinds)
             S == OfKind(o, e, K)
             both == R \cap Q
  <2>1. Pushes(o, e) = Keep(pushLog, R)
    BY <1>4 DEF SentTo
  <2>2. \A k \in DOMAIN pushLog : pushLog[k] \in both <=> pushLog[k] \in S
    BY <1>3, <1>5 DEF OfKind
  <2>3. SentTo(o, e, K) = Keep(pushLog, S)
    BY DEF SentTo
  <2> HIDE DEF R, S
  <2>4. Keep(Keep(pushLog, R), Q) = Keep(pushLog, both)
    BY <1>1, KeepBoth
  <2> HIDE DEF both
  <2>5. Keep(pushLog, both) = Keep(pushLog, S)
    BY <1>1, <2>2, KeepAgree
  <2> QED
    BY <2>1, <2>3, <2>4, <2>5
<1>6. EachStatusOnce
  <2> SUFFICES ASSUME NEW o \in DOMAIN status, NEW e \in AllEndpoints
               PROVE  IF joined[o][e] = None THEN Pushes(o, e) = <<>>
                      ELSE /\ Len(StatusPushes(o, e)) = status[o] - joined[o][e]
                           /\ \A i \in DOMAIN StatusPushes(o, e) :
                                 StatusPushes(o, e)[i].kind = joined[o][e] + i
    BY DEF EachStatusOnce
  <2>1. SentOf(o, e)
    BY <1>1, <1>2
  <2>2. Pushes(o, e) = SentTo(o, e, PushKinds)
    BY <1>4
  <2>3. StatusPushes(o, e) = SentTo(o, e, 0 .. FinalStatus)
    <3> DEFINE Q == {p \in ToSet(pushLog) : p.kind # Custom}
               K == 0 .. FinalStatus
    <3>1. \A k \in DOMAIN pushLog : pushLog[k] \in Q <=> pushLog[k].kind \in K
      BY <1>3
    <3> HIDE DEF Q, K
    <3>2. Keep(Pushes(o, e), Q) = SentTo(o, e, K)
      BY <1>5, <3>1
    <3> QED
      BY <3>2 DEF Q, K, StatusPushes
  <2> QED
    BY <2>1, <2>2, <2>3 DEF SentOf, KindSets
<1>7. NotesReachAll
  <2> SUFFICES ASSUME NEW o \in DOMAIN status, NEW e \in AllEndpoints
               PROVE  Len(Keep(Pushes(o, e), {p \in ToSet(pushLog) : p.kind = Custom}))
                        = Len(Keep(noted, {n \in ToSet(noted) : n.order = o /\ e \in n.to}))
    BY DEF NotesReachAll
  <2>1. Len(SentTo(o, e, {Custom})) = Len(NotesTo(o, e))
    BY <1>1, <1>2 DEF SentOf
  <2> DEFINE Q == {p \in ToSet(pushLog) : p.kind = Custom}
             K == {Custom}
             R == {n \in ToSet(noted) : n.order = o /\ e \in n.to}
             S == {n \in NoteRecord : n.order = o /\ e \in n.to}
  <2>2. \A k \in DOMAIN pushLog : pushLog[k] \in Q <=> pushLog[k].kind \in K
    BY <1>3
  <2>3. \A k \in DOMAIN noted : noted[k] \in R <=> noted[k] \in S
    BY <1>1 DEF ToSet
  <2>4. NotesTo(o, e) = Keep(noted, S)
    BY DEF NotesTo
  <2> HIDE DEF Q, K, R, S
  <2>5. Keep(Pushes(o, e), Q) = SentTo(o, e, K)
    BY <1>5, <2>2
  <2>6. Keep(noted, R) = Keep(noted, S)
    BY <1>1, <2>3, KeepAgree
  <2>7. Len(Keep(Pushes(o, e), Q)) = Len(Keep(noted, R))
    BY <2>1, <2>4, <2>5, <2>6 DEF K
  <2> QED
    BY <2>7 DEF Q, R
<1>8. ScriptHearsNothing
  BY <1>1 DEF ScriptInv, ScriptHearsNothing
<1> QED
  BY <1>1, <1>6, <1>7, <1>8 DEF PushFollowsOrder

(* Whatever the orders, endpoints and notifications, and whatever becomes  *)
(* of each push: an endpoint is sent every status from its subscription on *)
(* once and in order and every notification, nobody else is sent anything, *)
(* the script hears nothing, and a plain payload fits.                     *)
THEOREM PushesFollow == Spec => []PushFollowsOrder
<1>1. Init => PushInv
  BY PushAssumption, PushStart DEF Init
<1>2. PushInv /\ [Next]_vars => PushInv'
  BY PushAssumption, StepOfEach, PushingStep
<1>3. PushInv => PushFollowsOrder
  BY PushAssumption, PushHolds
<1>4. Spec => Init /\ [][Next]_vars
  BY PTL DEF Spec
<1> QED
  BY <1>1, <1>2, <1>3, <1>4, PTL

-----------------------------------------------------------------------------
(***************************************************************************)
(* The retry chain.  The recursions of the demonstration have a solution:  *)
(* the attempts of one service go up, the services of the chain go back.   *)
(***************************************************************************)
Hops == [Traffic -> Traffic]

AttemptsSolve(w, next, s, asked) ==
    /\ w \in [1 .. RetriesPerHop -> Traffic]
    /\ w[1] = next[asked]
    /\ \A k \in 2 .. RetriesPerHop :
          w[k] = IF WithinBudget(w[k - 1][s])
                 THEN next[CountRetry(w[k - 1], s)] ELSE w[k - 1]

LEMMA CountsTraffic ==
    ASSUME NEW t \in Traffic, NEW s \in ChainServices
    PROVE  CountRetry(t, s) \in Traffic /\ Asked(t, s) \in Traffic
BY DEF CountRetry, Asked, Traffic

LEMMA AttemptsSolved ==
    ASSUME ChainAssumption, NEW next \in Hops, NEW s \in ChainServices, NEW asked \in Traffic
    PROVE  \E w : AttemptsSolve(w, next, s, asked)
                    /\ Attempts(next, s, asked) = w[RetriesPerHop]
<1> DEFINE R == RetriesPerHop
           retry == [t \in Traffic |->
                       IF WithinBudget(t[s]) THEN next[CountRetry(t, s)] ELSE t]
           F(k) == [n \in 1 .. R |->
                      IF n = 1 THEN next[asked]
                      ELSE IF WithinBudget(k[n - 1][s]) THEN next[CountRetry(k[n - 1], s)]
                      ELSE k[n - 1]]
           w == CHOOSE k : k = F(k)
<1>1. R \in Nat /\ R >= 1 /\ R - 1 \in Nat
  BY DEF ChainAssumption
<1>2. retry \in [Traffic -> Traffic] /\ next[asked] \in Traffic
  BY CountsTraffic DEF Hops
<1>3. PICK g \in [0 .. R - 1 -> Traffic] :
          g[0] = next[asked] /\ \A n \in 1 .. R - 1 : g[n] = retry[g[n - 1]]
  <2> DEFINE X == Traffic
             a == next[asked]
             m == R - 1
             D == [n \in 1 .. m |-> retry]
  <2>1. a \in X /\ m \in Nat /\ D \in [1 .. m -> [X -> X]] /\ \A n \in 1 .. m : D[n] = retry
    BY <1>1, <1>2
  <2> HIDE DEF a, m, D, X, retry
  <2>2. \E g \in [0 .. m -> X] : g[0] = a /\ \A n \in 1 .. m : g[n] = D[n][g[n - 1]]
    BY <2>1, Iterates
  <2>3. \E g \in [0 .. m -> X] : g[0] = a /\ \A n \in 1 .. m : g[n] = retry[g[n - 1]]
    BY <2>1, <2>2
  <2> QED
    BY <2>3 DEF X, a, m
<1> DEFINE r == [n \in 1 .. R |-> g[n - 1]]
<1>4. r = F(r)
  <2> SUFFICES ASSUME NEW n \in 1 .. R
               PROVE  r[n] = F(r)[n]
    OBVIOUS
  <2>1. CASE n = 1
    BY <1>1, <1>3, <2>1
  <2>2. CASE n # 1
    <3>1. n - 1 \in 1 .. R - 1 /\ n - 1 \in 1 .. R /\ n - 2 \in 0 .. R - 1 /\ (n - 1) - 1 = n - 2
      BY <1>1, <2>2
    <3>2. r[n] = g[n - 1] /\ r[n - 1] = g[n - 2] /\ g[n - 2] \in Traffic
      BY <1>3, <3>1
    <3>3. g[n - 1] = retry[g[n - 2]]
      BY <1>3, <3>1
    <3>4. F(r)[n] = IF WithinBudget(r[n - 1][s]) THEN next[CountRetry(r[n - 1], s)] ELSE r[n - 1]
      <4> HIDE DEF r
      <4> QED
        BY <2>2
    <3> QED
      BY <3>2, <3>3, <3>4
  <2> QED
    BY <2>1, <2>2
<1>5. w = F(w)
  BY <1>4
<1>6. Attempts(next, s, asked) = w[R]
  BY DEF Attempts
<1> HIDE DEF w, r
<1>7. DOMAIN w = 1 .. R /\ w[1] = next[asked]
      /\ \A n \in 2 .. R : w[n] = retry[w[n - 1]] \/ w[n - 1] \notin Traffic
  BY <1>1, <1>5
<1>8. \A n \in 2 .. R : w[n] = IF WithinBudget(w[n - 1][s])
                               THEN next[CountRetry(w[n - 1], s)] ELSE w[n - 1]
  BY <1>1, <1>5
<1>9. \A n \in 1 .. R : w[n] \in Traffic
  <2> DEFINE P == {n \in 0 .. R - 1 : w[n + 1] \in Traffic}
  <2>1. 0 \in P
    BY <1>1, <1>2, <1>7
  <2>2. ASSUME NEW n \in 0 .. R - 1, n \in P /\ n < R - 1
        PROVE  n + 1 \in P
    <3>1. n + 2 \in 2 .. R /\ (n + 2) - 1 = n + 1 /\ (n + 1) + 1 = n + 2 /\ n + 1 \in 0 .. R - 1
      BY <1>1, <2>2
    <3>2. w[n + 2] = retry[w[n + 1]] /\ w[n + 1] \in Traffic
      BY <1>7, <2>2, <3>1
    <3>3. w[n + 2] \in Traffic
      <4> HIDE DEF retry
      <4> QED
        BY <1>2, <3>2
    <3> QED
      BY <3>1, <3>3
  <2>3. 0 .. R - 1 \subseteq P
    <3> HIDE DEF P
    <3> QED
      BY <1>1, <2>1, <2>2, UpTo
  <2>4. \A n \in 1 .. R : n - 1 \in 0 .. R - 1 /\ (n - 1) + 1 = n
    BY <1>1
  <2> QED
    BY <2>3, <2>4
<1>10. w \in [1 .. R -> Traffic]
  <2>1. \A n \in 1 .. R : F(w)[n] = w[n]
    <3> HIDE DEF F
    <3> QED
      BY <1>5
  <2>2. \A n \in 1 .. R : F(w)[n] \in Traffic
    BY <1>9, <2>1
  <2>3. F(w) \in [1 .. R -> Traffic]
    BY <2>2
  <2> QED
    BY <1>5, <2>3
<1>11. AttemptsSolve(w, next, s, asked)
  BY <1>7, <1>8, <1>10 DEF AttemptsSolve
<1> QED
  BY <1>6, <1>11

LEMMA AttemptsType ==
    ASSUME ChainAssumption, NEW next \in Hops, NEW s \in ChainServices, NEW asked \in Traffic
    PROVE  Attempts(next, s, asked) \in Traffic
<1>1. PICK w : AttemptsSolve(w, next, s, asked) /\ Attempts(next, s, asked) = w[RetriesPerHop]
  BY AttemptsSolved
<1>2. RetriesPerHop \in 1 .. RetriesPerHop
  BY DEF ChainAssumption
<1> QED
  BY <1>1, <1>2 DEF AttemptsSolve

LEMMA BudgetedSolves ==
    ASSUME ChainAssumption
    PROVE  /\ Budgeted \in [ChainServices -> Hops]
           /\ \A t \in Traffic : Budgeted[ChainDepth][t] = Asked(t, ChainDepth)
           /\ \A s \in ChainServices \ {ChainDepth}, t \in Traffic :
                 Budgeted[s][t] = Attempts(Budgeted[s + 1], s, Asked(t, s))
<1> DEFINE N == ChainDepth
           F(b) == [s \in ChainServices |->
                      [t \in Traffic |->
                         IF s = N THEN Asked(t, s) ELSE Attempts(b[s + 1], s, Asked(t, s))]]
           One(h, s) == [t \in Traffic |-> Attempts(h, s, Asked(t, s))]
           last == [t \in Traffic |-> Asked(t, N)]
<1>1. N \in Nat /\ N >= 1 /\ N - 1 \in Nat /\ ChainServices = 1 .. N
  BY DEF ChainAssumption, ChainServices
<1>2. last \in Hops
  <2>1. N \in ChainServices
    BY <1>1
  <2>2. \A t \in Traffic : Asked(t, N) \in Traffic
    BY <2>1, CountsTraffic
  <2> QED
    BY <2>2 DEF Hops
<1>3. ASSUME NEW h \in Hops, NEW s \in ChainServices PROVE One(h, s) \in Hops
  <2>1. \A t \in Traffic : Attempts(h, s, Asked(t, s)) \in Traffic
    BY CountsTraffic, AttemptsType
  <2> QED
    BY <2>1 DEF Hops
<1>4. PICK g \in [0 .. N - 1 -> Hops] :
          g[0] = last /\ \A n \in 1 .. N - 1 : g[n] = One(g[n - 1], N - n)
  <2> DEFINE m == N - 1
             D == [n \in 1 .. m |-> [h \in Hops |-> One(h, N - n)]]
  <2>1. \A n \in 1 .. m : N - n \in ChainServices
    BY <1>1
  <2>2. m \in Nat /\ D \in [1 .. m -> [Hops -> Hops]]
        /\ \A n \in 1 .. m : \A h \in Hops : D[n][h] = One(h, N - n)
    <3> HIDE DEF One
    <3>1. \A n \in 1 .. m : [h \in Hops |-> One(h, N - n)] \in [Hops -> Hops]
      BY <1>3, <2>1
    <3> QED
      BY <1>1, <3>1
  <2> HIDE DEF D, m, last, One
  <2>3. \E g \in [0 .. m -> Hops] : g[0] = last /\ \A n \in 1 .. m : g[n] = D[n][g[n - 1]]
    <3>1. m \in Nat
      BY <2>2
    <3>2. D \in [1 .. m -> [Hops -> Hops]]
      BY <2>2
    <3>3. last \in Hops
      BY <1>2
    <3>4. ASSUME NEW X, NEW a \in X, NEW k \in Nat, NEW E \in [1 .. k -> [X -> X]]
          PROVE  \E g \in [0 .. k -> X] : g[0] = a /\ \A n \in 1 .. k : g[n] = E[n][g[n - 1]]
      BY Iterates
    <3> QED
      BY <3>1, <3>2, <3>3, <3>4
  <2>4. PICK g \in [0 .. m -> Hops] : g[0] = last /\ \A n \in 1 .. m : g[n] = D[n][g[n - 1]]
    BY <2>3
  <2>5. \A n \in 1 .. m : g[n - 1] \in Hops
    BY <2>2
  <2>6. \A n \in 1 .. m : g[n] = One(g[n - 1], N - n)
    BY <2>2, <2>4, <2>5
  <2> QED
    BY <2>4, <2>6 DEF m
<1> DEFINE r == [s \in ChainServices |-> g[N - s]]
<1>5. r = F(r)
  <2> SUFFICES ASSUME NEW s \in ChainServices
               PROVE  r[s] = F(r)[s]
    OBVIOUS
  <2>1. CASE s = N
    <3>1. r[s] = last
      BY <1>1, <1>4, <2>1
    <3> QED
      BY <2>1, <3>1
  <2>2. CASE s # N
    <3>1. s + 1 \in ChainServices /\ N - s \in 1 .. N - 1 /\ (N - s) - 1 = N - (s + 1)
          /\ N - (N - s) = s
      BY <1>1, <2>2
    <3>2. r[s] = g[N - s] /\ r[s + 1] = g[N - (s + 1)]
      BY <3>1
    <3>3. g[N - s] = One(g[N - (s + 1)], s)
      <4> HIDE DEF One
      <4> QED
        BY <1>4, <3>1
    <3>4. r[s] = One(r[s + 1], s)
      <4> HIDE DEF One
      <4> QED
        BY <3>2, <3>3
    <3>5. F(r)[s] = One(r[s + 1], s)
      <4> HIDE DEF r
      <4> QED
        BY <2>2
    <3> QED
      BY <3>4, <3>5
  <2> QED
    BY <2>1, <2>2
<1>6. Budgeted = CHOOSE b : b = F(b)
  BY DEF Budgeted
<1>7. Budgeted = F(Budgeted)
  BY <1>5, <1>6
<1> HIDE DEF r
<1>8. DOMAIN Budgeted = ChainServices /\ Budgeted[N] = last
      /\ \A s \in ChainServices \ {N} : Budgeted[s] = One(Budgeted[s + 1], s)
  <2>1. N \in ChainServices
    BY <1>1
  <2> QED
    BY <1>7, <2>1
<1>9. \A s \in ChainServices : Budgeted[s] \in Hops
  <2> DEFINE P == {n \in 0 .. N - 1 : Budgeted[N - n] \in Hops}
  <2>1. 0 \in P
    BY <1>1, <1>2, <1>8
  <2>2. ASSUME NEW n \in 0 .. N - 1, n \in P /\ n < N - 1
        PROVE  n + 1 \in P
    <3>1. N - (n + 1) \in ChainServices \ {N} /\ (N - (n + 1)) + 1 = N - n /\ n + 1 \in 0 .. N - 1
      BY <1>1, <2>2
    <3>2. Budgeted[N - (n + 1)] = One(Budgeted[N - n], N - (n + 1))
      <4> HIDE DEF One
      <4> QED
        BY <1>8, <3>1
    <3>3. Budgeted[N - (n + 1)] \in Hops
      <4> HIDE DEF One
      <4> QED
        BY <1>3, <2>2, <3>1, <3>2
    <3> QED
      BY <3>1, <3>3
  <2>3. 0 .. N - 1 \subseteq P
    <3> HIDE DEF P
    <3> QED
      BY <1>1, <2>1, <2>2, UpTo
  <2>4. \A s \in ChainServices : N - s \in 0 .. N - 1 /\ N - (N - s) = s
    BY <1>1
  <2> QED
    BY <2>3, <2>4
<1>10. Budgeted \in [ChainServices -> Hops]
  <2>1. \A s \in ChainServices : F(Budgeted)[s] = Budgeted[s]
    <3> HIDE DEF F
    <3> QED
      BY <1>7
  <2>2. \A s \in ChainServices : F(Budgeted)[s] \in Hops
    BY <1>9, <2>1
  <2>3. F(Budgeted) \in [ChainServices -> Hops]
    <3> DEFINE G(s) == [t \in Traffic |->
                         IF s = N THEN Asked(t, s) ELSE Attempts(Budgeted[s + 1], s, Asked(t, s))]
    <3>1. \A s \in ChainServices : F(Budgeted)[s] = G(s)
      OBVIOUS
    <3>2. F(Budgeted) = [s \in ChainServices |-> G(s)]
      OBVIOUS
    <3> HIDE DEF G, F
    <3> QED
      BY <2>2, <3>1, <3>2
  <2> QED
    BY <1>7, <2>3
<1>11. \A t \in Traffic : Budgeted[N][t] = Asked(t, N)
  BY <1>8
<1>12. \A s \in ChainServices \ {N}, t \in Traffic :
          Budgeted[s][t] = Attempts(Budgeted[s + 1], s, Asked(t, s))
  BY <1>8
<1> QED
  BY <1>10, <1>11, <1>12

(* What a service has retried is within its share, but for one retry of a  *)
(* budget that was not used up; no request has more than its retries; and  *)
(* the next service was asked once for each request and each retry.        *)
Sparing(c) ==
    \/ c.retries <= MinRetries
    \/ (c.retries - 1) * 100 < BudgetPercent * (c.requests + c.retries)

Hop(t, s) ==
    /\ Sparing(t[s])
    /\ t[s].retries <= (RetriesPerHop - 1) * t[s].requests
    /\ s < ChainDepth => t[s + 1].requests = t[s].requests + t[s].retries

Call(h, s) ==
    \A t \in Traffic : (\A q \in s .. ChainDepth : Hop(t, q)) =>
        /\ h[t][s].requests = t[s].requests + 1
        /\ \A q \in 1 .. s - 1 : h[t][q] = t[q]
        /\ \A q \in s .. ChainDepth : Hop(h[t], q)

(* Both sides of a budget grow: another request leaves it as it was, a     *)
(* retry within it keeps to it.                                            *)
LEMMA ChargedGrows ==
    ASSUME PatternsAssumption, NEW x \in Nat, NEW y \in Nat
    PROVE  /\ Sparing([requests |-> x, retries |-> y])
                 => Sparing([requests |-> x + 1, retries |-> y])
           /\ WithinBudget([requests |-> x, retries |-> y])
                 => Sparing([requests |-> x, retries |-> y + 1])
<1> DEFINE p == BudgetPercent
           n == x + y
<1>1. p \in Nat /\ MinRetries \in Nat /\ n \in Nat
  BY DEF PatternsAssumption
<1>2. p * (n + 1) = p * n + p /\ p * n \in Nat
  <2> HIDE DEF n, p
  <2> QED
    BY <1>1
<1>3. x + 1 + y = n + 1 /\ x + (y + 1) = n + 1 /\ x + y = n /\ (y + 1) - 1 = y
  OBVIOUS
<1>4. Sparing([requests |-> x, retries |-> y]) <=> y <= MinRetries \/ (y - 1) * 100 < p * n
  BY DEF Sparing
<1>5. Sparing([requests |-> x + 1, retries |-> y])
        <=> y <= MinRetries \/ (y - 1) * 100 < p * (n + 1)
  <2>1. Sparing([requests |-> x + 1, retries |-> y])
          <=> y <= MinRetries \/ (y - 1) * 100 < p * (x + 1 + y)
    BY DEF Sparing
  <2> QED
    BY <1>3, <2>1
<1>6. Sparing([requests |-> x, retries |-> y + 1])
        <=> y + 1 <= MinRetries \/ y * 100 < p * (n + 1)
  <2>1. Sparing([requests |-> x, retries |-> y + 1])
          <=> y + 1 <= MinRetries \/ ((y + 1) - 1) * 100 < p * (x + (y + 1))
    BY DEF Sparing
  <2> QED
    BY <1>3, <2>1
<1>7. WithinBudget([requests |-> x, retries |-> y]) <=> y < MinRetries \/ y * 100 < p * n
  BY DEF WithinBudget
<1> DEFINE a == p * n
           b == p * (n + 1)
<1>8. a \in Nat /\ b = a + p
  BY <1>2
<1>9. y <= MinRetries \/ (y - 1) * 100 < a => y <= MinRetries \/ (y - 1) * 100 < b
  <2> HIDE DEF a, b, p
  <2> QED
    BY <1>1, <1>8
<1>10. y < MinRetries \/ y * 100 < a => y + 1 <= MinRetries \/ y * 100 < b
  <2> HIDE DEF a, b, p
  <2> QED
    BY <1>1, <1>8
<1> QED
  BY <1>4, <1>5, <1>6, <1>7, <1>9, <1>10

LEMMA RecordsOfTraffic ==
    ASSUME NEW t \in Traffic, NEW s \in ChainServices
    PROVE  /\ t[s].requests \in Nat /\ t[s].retries \in Nat
           /\ t[s] = [requests |-> t[s].requests, retries |-> t[s].retries]
           /\ Asked(t, s)[s] = [requests |-> t[s].requests + 1, retries |-> t[s].retries]
           /\ CountRetry(t, s)[s] = [requests |-> t[s].requests, retries |-> t[s].retries + 1]
           /\ \A q \in ChainServices \ {s} : Asked(t, s)[q] = t[q] /\ CountRetry(t, s)[q] = t[q]
<1>1. t[s] \in [requests : Nat, retries : Nat]
  BY DEF Traffic
<1>2. t[s].requests \in Nat /\ t[s].retries \in Nat
      /\ t[s] = [requests |-> t[s].requests, retries |-> t[s].retries]
  BY <1>1
<1>3. Asked(t, s)[s] = [t[s] EXCEPT !.requests = @ + 1]
      /\ CountRetry(t, s)[s] = [t[s] EXCEPT !.retries = @ + 1]
  BY DEF Asked, CountRetry, Traffic
<1>4. \A q \in ChainServices \ {s} : Asked(t, s)[q] = t[q] /\ CountRetry(t, s)[q] = t[q]
  BY DEF Asked, CountRetry, Traffic
<1> QED
  BY <1>1, <1>2, <1>3, <1>4

LEMMA RetryRecorded ==
    ASSUME NEW t \in Traffic, NEW s \in ChainServices
    PROVE  /\ t[s].retries \in Nat
           /\ t[s] = [requests |-> t[s].requests, retries |-> t[s].retries]
           /\ CountRetry(t, s)[s] = [requests |-> t[s].requests, retries |-> t[s].retries + 1]
           /\ \A q \in ChainServices \ {s} : CountRetry(t, s)[q] = t[q]
BY RecordsOfTraffic

LEMMA RequestRecorded ==
    ASSUME NEW t \in Traffic, NEW s \in ChainServices
    PROVE  /\ Asked(t, s)[s] = [requests |-> t[s].requests + 1, retries |-> t[s].retries]
           /\ \A q \in ChainServices \ {s} : Asked(t, s)[q] = t[q]
BY RecordsOfTraffic

(* The services behind s do not see what s counts.                         *)
LEMMA HopsBehind ==
    ASSUME ChainAssumption, NEW t \in Traffic, NEW u, NEW s \in ChainServices,
           \A q \in ChainServices \ {s} : u[q] = t[q],
           NEW q \in s + 1 .. ChainDepth
    PROVE  Hop(u, q) <=> Hop(t, q)
<1>1. q \in ChainServices \ {s} /\ (q < ChainDepth => q + 1 \in ChainServices \ {s})
  BY DEF ChainAssumption, ChainServices
<1>2. u[q] = t[q] /\ (q < ChainDepth => u[q + 1] = t[q + 1])
  BY <1>1
<1> QED
  BY <1>2 DEF Hop

LEMMA LastCall ==
    ASSUME PatternsAssumption, ChainAssumption
    PROVE  Call(Budgeted[ChainDepth], ChainDepth)
<1> DEFINE N == ChainDepth
           m == RetriesPerHop - 1
<1>1. N \in ChainServices /\ N \in Nat /\ m \in Nat /\ N .. N = {N}
  BY DEF ChainAssumption, ChainServices
<1> SUFFICES ASSUME NEW t \in Traffic, Hop(t, N)
             PROVE  /\ Asked(t, N)[N].requests = t[N].requests + 1
                    /\ \A q \in 1 .. N - 1 : Asked(t, N)[q] = t[q]
                    /\ Hop(Asked(t, N), N)
  BY <1>1, BudgetedSolves DEF Call
<1> DEFINE a == Asked(t, N)
           x == t[N].requests
           y == t[N].retries
<1>2. x \in Nat /\ y \in Nat /\ t[N] = [requests |-> x, retries |-> y]
      /\ a[N] = [requests |-> x + 1, retries |-> y]
      /\ \A q \in ChainServices \ {N} : a[q] = t[q]
  BY <1>1, RecordsOfTraffic
<1>3. \A q \in 1 .. N - 1 : q \in ChainServices \ {N}
  BY <1>1 DEF ChainServices
<1>4. Sparing(a[N])
  BY <1>2, ChargedGrows DEF Hop
<1>5. y <= m * x /\ m * (x + 1) = m * x + m /\ m * x \in Nat
  <2>1. y <= m * x
    BY DEF Hop
  <2> HIDE DEF m, x, y
  <2> QED
    BY <1>1, <1>2, <2>1
<1>6. y <= m * (x + 1)
  <2> DEFINE b == m * x
  <2> HIDE DEF b, m, x, y
  <2> QED
    BY <1>1, <1>2, <1>5 DEF b
<1>7. a[N].requests = x + 1 /\ a[N].retries = y
  BY <1>2
<1>8. Hop(a, N)
  BY <1>1, <1>4, <1>6, <1>7 DEF Hop
<1> QED
  BY <1>2, <1>3, <1>7, <1>8

(* One attempt of service s on the traffic t it was asked with, after k of *)
(* them: s has the one request more, at most one retry for each attempt    *)
(* but the first, and the services behind it keep to their budgets.        *)
Attempted(t, s, u, k) ==
    /\ u \in Traffic
    /\ u[s].requests = t[s].requests + 1
    /\ u[s].retries <= (RetriesPerHop - 1) * t[s].requests + (k - 1)
    /\ Sparing(u[s])
    /\ u[s + 1].requests = u[s].requests + u[s].retries
    /\ \A q \in 1 .. s - 1 : u[q] = t[q]
    /\ \A q \in s + 1 .. ChainDepth : Hop(u, q)

LEMMA Attempting ==
    ASSUME PatternsAssumption, ChainAssumption, NEW s \in ChainServices, s < ChainDepth,
           NEW next \in Hops, Call(next, s + 1), NEW t \in Traffic,
           \A q \in s .. ChainDepth : Hop(t, q)
    PROVE  /\ Attempted(t, s, next[Asked(t, s)], 1)
           /\ \A u : \A k \in 1 .. RetriesPerHop - 1 : Attempted(t, s, u, k) =>
                 Attempted(t, s, IF WithinBudget(u[s]) THEN next[CountRetry(u, s)] ELSE u, k + 1)
<1> DEFINE N == ChainDepth
           m == RetriesPerHop - 1
           x == t[s].requests
           y == t[s].retries
           bound == m * x
<1>1. /\ N \in Nat /\ m \in Nat /\ s \in Nat /\ s >= 1 /\ s + 1 <= N
      /\ s + 1 \in ChainServices /\ s + 1 \in ChainServices \ {s}
  BY DEF ChainAssumption, ChainServices
<1>2. \A q \in 1 .. s - 1 : q \in ChainServices \ {s} /\ q \in 1 .. (s + 1) - 1
  BY <1>1 DEF ChainServices
<1>3. s \in 1 .. (s + 1) - 1 /\ s \in s .. N /\ \A q \in s + 1 .. N : q \in s .. N
  BY <1>1
<1>4. x \in Nat /\ y \in Nat /\ bound \in Nat /\ t[s] = [requests |-> x, retries |-> y]
  <2>1. x \in Nat /\ y \in Nat /\ t[s] = [requests |-> x, retries |-> y]
    BY RecordsOfTraffic
  <2>2. bound \in Nat
    <3> HIDE DEF m, x
    <3> QED
      BY <1>1, <2>1
  <2> QED
    BY <2>1, <2>2
<1>5. Sparing(t[s]) /\ y <= bound /\ t[s + 1].requests = x + y
  BY <1>1, <1>3 DEF Hop
<1>6. ASSUME NEW v \in Traffic, \A q \in s + 1 .. N : Hop(v, q)
      PROVE  /\ next[v] \in Traffic
             /\ next[v][s] = v[s]
             /\ next[v][s + 1].requests = v[s + 1].requests + 1
             /\ \A q \in 1 .. s - 1 : next[v][q] = v[q]
             /\ \A q \in s + 1 .. N : Hop(next[v], q)
  <2>1. next[v] \in Traffic
    BY DEF Hops
  <2>2. /\ next[v][s + 1].requests = v[s + 1].requests + 1
        /\ \A q \in 1 .. (s + 1) - 1 : next[v][q] = v[q]
        /\ \A q \in s + 1 .. N : Hop(next[v], q)
    BY <1>6 DEF Call
  <2> QED
    BY <1>2, <1>3, <2>1, <2>2
<1>7. Attempted(t, s, next[Asked(t, s)], 1)
  <2> DEFINE a == Asked(t, s)
  <2>1. a \in Traffic /\ a[s] = [requests |-> x + 1, retries |-> y]
        /\ \A q \in ChainServices \ {s} : a[q] = t[q]
    <3>1. a \in Traffic
      BY CountsTraffic
    <3>2. a[s] = [requests |-> x + 1, retries |-> y]
      BY RequestRecorded
    <3>3. \A q \in ChainServices \ {s} : a[q] = t[q]
      BY RequestRecorded
    <3> QED
      BY <3>1, <3>2, <3>3
  <2> HIDE DEF a
  <2>2. \A q \in s + 1 .. N : Hop(a, q)
    <3> SUFFICES ASSUME NEW q \in s + 1 .. N
                 PROVE  Hop(a, q)
      OBVIOUS
    <3>1. t \in Traffic /\ Hop(t, q)
      BY <1>3, <2>1
    <3>2. \A p \in ChainServices \ {s} : a[p] = t[p]
      BY <2>1
    <3>3. Hop(a, q) <=> Hop(t, q)
      BY <3>1, <3>2, HopsBehind
    <3> QED
      BY <3>1, <3>3
  <2>3. /\ next[a] \in Traffic
        /\ next[a][s] = a[s]
        /\ next[a][s + 1].requests = a[s + 1].requests + 1
        /\ \A q \in 1 .. s - 1 : next[a][q] = a[q]
        /\ \A q \in s + 1 .. N : Hop(next[a], q)
    BY <1>6, <2>1, <2>2
  <2>4. next[a][s].requests = x + 1 /\ next[a][s].retries = y /\ Sparing(next[a][s])
    <3>1. Sparing([requests |-> x, retries |-> y])
      BY <1>4, <1>5
    <3>2. Sparing([requests |-> x + 1, retries |-> y])
      <4>1. x \in Nat /\ y \in Nat
        BY <1>4
      <4> HIDE DEF x, y
      <4> QED
        BY <3>1, <4>1, ChargedGrows
    <3> QED
      BY <2>1, <2>3, <3>2
  <2>5. y <= bound + (1 - 1) /\ (x + y) + 1 = (x + 1) + y
    <3> HIDE DEF bound, x, y
    <3> QED
      BY <1>4, <1>5
  <2>6. next[a][s + 1].requests = (x + y) + 1
    BY <1>1, <1>5, <2>1, <2>3
  <2>7. \A q \in 1 .. s - 1 : next[a][q] = t[q]
    BY <1>2, <2>1, <2>3
  <2>8. next[a][s + 1].requests = next[a][s].requests + next[a][s].retries
    BY <2>4, <2>5, <2>6
  <2>9. next[a][s].retries <= m * t[s].requests + (1 - 1)
    BY <2>4, <2>5
  <2> QED
    BY <2>3, <2>4, <2>7, <2>8, <2>9 DEF Attempted, a
<1>8. ASSUME NEW k \in 1 .. RetriesPerHop - 1, NEW u, Attempted(t, s, u, k),
             WithinBudget(u[s])
      PROVE  Attempted(t, s, next[CountRetry(u, s)], k + 1)
  <2> DEFINE a == CountRetry(u, s)
             z == u[s].retries
  <2>1. u \in Traffic /\ u[s].requests = x + 1 /\ z <= bound + (k - 1)
        /\ u[s + 1].requests = u[s].requests + z
        /\ (\A q \in 1 .. s - 1 : u[q] = t[q]) /\ \A q \in s + 1 .. N : Hop(u, q)
    BY <1>8 DEF Attempted
  <2>2. a \in Traffic /\ z \in Nat /\ u[s] = [requests |-> x + 1, retries |-> z]
        /\ a[s] = [requests |-> x + 1, retries |-> z + 1]
        /\ \A q \in ChainServices \ {s} : a[q] = u[q]
    <3>1. u \in Traffic /\ u[s].requests = x + 1
      BY <2>1
    <3>2. a \in Traffic
      BY <3>1, CountsTraffic
    <3>3. /\ z \in Nat
          /\ u[s] = [requests |-> u[s].requests, retries |-> z]
          /\ a[s] = [requests |-> u[s].requests, retries |-> z + 1]
          /\ \A q \in ChainServices \ {s} : a[q] = u[q]
      BY <3>1, RetryRecorded
    <3> HIDE DEF a, x
    <3> QED
      BY <3>1, <3>2, <3>3
  <2> HIDE DEF a
  <2>3. \A q \in s + 1 .. N : Hop(a, q)
    <3> SUFFICES ASSUME NEW q \in s + 1 .. N
                 PROVE  Hop(a, q)
      OBVIOUS
    <3>1. u \in Traffic /\ Hop(u, q)
      BY <1>3, <2>1
    <3>2. \A p \in ChainServices \ {s} : a[p] = u[p]
      BY <2>2
    <3>3. Hop(a, q) <=> Hop(u, q)
      BY <3>1, <3>2, HopsBehind
    <3> QED
      BY <3>1, <3>3
  <2>4. /\ next[a] \in Traffic
        /\ next[a][s] = a[s]
        /\ next[a][s + 1].requests = a[s + 1].requests + 1
        /\ \A q \in 1 .. s - 1 : next[a][q] = a[q]
        /\ \A q \in s + 1 .. N : Hop(next[a], q)
    BY <1>6, <2>2, <2>3
  <2>5. Sparing([requests |-> x + 1, retries |-> z + 1])
    <3>1. WithinBudget([requests |-> x + 1, retries |-> z])
      BY <1>8, <2>2
    <3>2. x + 1 \in Nat /\ z \in Nat
      BY <1>4, <2>2
    <3>3. ASSUME NEW v \in Nat, WithinBudget([requests |-> v, retries |-> z])
          PROVE  Sparing([requests |-> v, retries |-> z + 1])
      BY <3>2, <3>3, ChargedGrows
    <3> QED
      BY <3>1, <3>2, <3>3
  <2>6. next[a][s].requests = x + 1 /\ next[a][s].retries = z + 1 /\ Sparing(next[a][s])
    BY <2>2, <2>4, <2>5
  <2>7. z + 1 <= bound + ((k + 1) - 1) /\ ((x + 1) + z) + 1 = (x + 1) + (z + 1)
    <3> HIDE DEF bound, x, z
    <3> QED
      BY <1>1, <1>4, <2>1, <2>2
  <2>8. next[a][s + 1].requests = ((x + 1) + z) + 1
    BY <1>1, <2>1, <2>2, <2>4
  <2>9. \A q \in 1 .. s - 1 : next[a][q] = t[q]
    BY <1>2, <2>1, <2>2, <2>4
  <2>10. next[a][s + 1].requests = next[a][s].requests + next[a][s].retries
    BY <2>6, <2>7, <2>8
  <2>11. next[a][s].retries <= m * t[s].requests + ((k + 1) - 1)
    BY <2>6, <2>7
  <2> QED
    BY <2>4, <2>6, <2>9, <2>10, <2>11 DEF Attempted, a
<1>9. ASSUME NEW k \in 1 .. RetriesPerHop - 1, NEW u, Attempted(t, s, u, k)
      PROVE  Attempted(t, s, u, k + 1)
  <2> DEFINE z == u[s].retries
  <2>1. u \in Traffic /\ z <= bound + (k - 1)
    BY <1>9 DEF Attempted
  <2>2. z \in Nat
    BY <2>1, RecordsOfTraffic
  <2>3. z <= bound + ((k + 1) - 1)
    <3> HIDE DEF bound, z
    <3> QED
      BY <1>1, <1>4, <2>1, <2>2
  <2> QED
    BY <1>9, <2>3 DEF Attempted
<1> QED
  BY <1>7, <1>8, <1>9

LEMMA CallsBack ==
    ASSUME PatternsAssumption, ChainAssumption, NEW s \in ChainServices, s < ChainDepth,
           Call(Budgeted[s + 1], s + 1)
    PROVE  Call(Budgeted[s], s)
<1> DEFINE N == ChainDepth
           R == RetriesPerHop
           next == Budgeted[s + 1]
<1>1. N \in Nat /\ R \in Nat /\ R >= 1 /\ R - 1 \in Nat /\ s \in ChainServices \ {N}
      /\ s + 1 \in ChainServices /\ s \in s .. N
  BY DEF ChainAssumption, ChainServices
<1>2. next \in Hops /\ \A t \in Traffic : Budgeted[s][t] = Attempts(next, s, Asked(t, s))
  BY <1>1, BudgetedSolves
<1> SUFFICES ASSUME NEW t \in Traffic, \A q \in s .. N : Hop(t, q)
             PROVE  /\ Budgeted[s][t][s].requests = t[s].requests + 1
                    /\ \A q \in 1 .. s - 1 : Budgeted[s][t][q] = t[q]
                    /\ \A q \in s .. N : Hop(Budgeted[s][t], q)
  BY DEF Call
<1> HIDE DEF next
<1>3. Call(next, s + 1)
  BY DEF next
<1>4. /\ Attempted(t, s, next[Asked(t, s)], 1)
      /\ \A u : \A k \in 1 .. R - 1 : Attempted(t, s, u, k) =>
            Attempted(t, s, IF WithinBudget(u[s]) THEN next[CountRetry(u, s)] ELSE u, k + 1)
  BY <1>2, <1>3, Attempting
<1>5. Asked(t, s) \in Traffic
  BY CountsTraffic
<1>6. PICK w : AttemptsSolve(w, next, s, Asked(t, s))
               /\ Attempts(next, s, Asked(t, s)) = w[R]
  BY <1>2, <1>5, AttemptsSolved
<1> DEFINE P == {n \in 0 .. R - 1 : Attempted(t, s, w[n + 1], n + 1)}
<1>7. 0 \in P
  BY <1>1, <1>4, <1>6 DEF AttemptsSolve
<1>8. ASSUME NEW n \in 0 .. R - 1, n \in P /\ n < R - 1
      PROVE  n + 1 \in P
  <2>1. n + 1 \in 0 .. R - 1 /\ n + 1 \in 1 .. R - 1 /\ n + 2 \in 2 .. R
        /\ (n + 2) - 1 = n + 1 /\ (n + 1) + 1 = n + 2
    BY <1>1, <1>8
  <2>2. w[n + 2] = IF WithinBudget(w[n + 1][s])
                   THEN next[CountRetry(w[n + 1], s)] ELSE w[n + 1]
    BY <1>6, <2>1 DEF AttemptsSolve
  <2>3. Attempted(t, s, w[n + 1], n + 1)
    BY <1>8
  <2>4. Attempted(t, s, w[n + 2], (n + 1) + 1)
    BY <1>4, <2>1, <2>2, <2>3
  <2> QED
    BY <2>1, <2>4
<1>9. 0 .. R - 1 \subseteq P
  <2> HIDE DEF P
  <2> QED
    BY <1>1, <1>7, <1>8, UpTo
<1> DEFINE u == w[R]
<1>10. Attempted(t, s, u, R)
  <2>1. R - 1 \in P /\ (R - 1) + 1 = R
    BY <1>1, <1>9
  <2> QED
    BY <2>1
<1>11. Budgeted[s][t] = u
  BY <1>2, <1>6
<1> HIDE DEF u
<1> DEFINE m == R - 1
           x == t[s].requests
<1>12. x \in Nat /\ m * (x + 1) = m * x + m
  <2>1. x \in Nat
    BY RecordsOfTraffic
  <2> HIDE DEF m, x
  <2>2. m \in Nat
    BY <1>1 DEF m
  <2> QED
    BY <2>1, <2>2
<1>13. u[s].requests = x + 1 /\ u[s].retries <= m * u[s].requests
  <2>1. u[s].requests = x + 1 /\ u[s].retries <= m * x + m
    BY <1>10 DEF Attempted
  <2> QED
    BY <1>12, <2>1
<1>14. Hop(u, s)
  BY <1>10, <1>13 DEF Attempted, Hop
<1>15. \A q \in s .. N : Hop(u, q)
  <2>1. \A q \in s .. N : q = s \/ q \in s + 1 .. N
    BY <1>1 DEF ChainServices
  <2> QED
    BY <1>10, <1>14, <2>1 DEF Attempted
<1> QED
  BY <1>10, <1>11, <1>13, <1>15 DEF Attempted

(* A call of any service of the chain keeps every budget behind it.        *)
LEMMA EveryCall ==
    ASSUME PatternsAssumption, ChainAssumption
    PROVE  \A s \in ChainServices : Call(Budgeted[s], s)
<1> DEFINE N == ChainDepth
           P == {n \in 0 .. N - 1 : Call(Budgeted[N - n], N - n)}
<1>1. N \in Nat /\ N >= 1 /\ N - 1 \in Nat /\ N - 0 = N
  BY DEF ChainAssumption
<1>2. 0 \in P
  BY <1>1, LastCall
<1>3. ASSUME NEW n \in 0 .. N - 1, n \in P /\ n < N - 1
      PROVE  n + 1 \in P
  <2> DEFINE s == N - (n + 1)
  <2>1. s \in ChainServices /\ s < N /\ s + 1 = N - n /\ n + 1 \in 0 .. N - 1
    BY <1>1, <1>3 DEF ChainServices
  <2>2. Call(Budgeted[s + 1], s + 1)
    BY <1>3, <2>1
  <2> HIDE DEF s
  <2>3. Call(Budgeted[s], s)
    BY <2>1, <2>2, CallsBack
  <2> QED
    BY <2>1, <2>3 DEF s
<1>4. 0 .. N - 1 \subseteq P
  <2> HIDE DEF P
  <2> QED
    BY <1>1, <1>2, <1>3, UpTo
<1>5. \A s \in ChainServices : N - s \in 0 .. N - 1 /\ N - (N - s) = s
  BY <1>1 DEF ChainServices
<1> QED
  BY <1>4, <1>5

LEMMA UnbudgetedSolves ==
    ASSUME ChainAssumption
    PROVE  /\ Unbudgeted[1] = 1
           /\ \A s \in ChainServices \ {1} :
                 Unbudgeted[s] = RetriesPerHop * Unbudgeted[s - 1]
<1> DEFINE N == ChainDepth
           R == RetriesPerHop
           F(u) == [s \in ChainServices |-> IF s = 1 THEN 1 ELSE R * u[s - 1]]
<1>1. N \in Nat /\ N >= 1 /\ N - 1 \in Nat /\ R \in Nat /\ ChainServices = 1 .. N
      /\ 1 \in ChainServices
  BY DEF ChainAssumption, ChainServices
<1>2. PICK g \in [0 .. N - 1 -> Nat] : g[0] = 1 /\ \A n \in 1 .. N - 1 : g[n] = R * g[n - 1]
  <2> DEFINE m == N - 1
             D == [n \in 1 .. m |-> [v \in Nat |-> R * v]]
  <2>1. m \in Nat
    BY <1>1
  <2>2. \A v \in Nat : R * v \in Nat
    BY <1>1
  <2>3. D \in [1 .. m -> [Nat -> Nat]] /\ \A n \in 1 .. m : \A v \in Nat : D[n][v] = R * v
    <3> HIDE DEF m, R
    <3> QED
      BY <2>2
  <2> HIDE DEF D, m, R
  <2>4. \E g \in [0 .. m -> Nat] : g[0] = 1 /\ \A n \in 1 .. m : g[n] = D[n][g[n - 1]]
    <3>1. D \in [1 .. m -> [Nat -> Nat]]
      BY <2>3
    <3> DEFINE X == Nat
               a == 1
    <3>2. a \in X /\ D \in [1 .. m -> [X -> X]]
      BY <3>1
    <3> HIDE DEF X, a
    <3>3. \E g \in [0 .. m -> X] : g[0] = a /\ \A n \in 1 .. m : g[n] = D[n][g[n - 1]]
      BY <2>1, <3>2, Iterates
    <3> QED
      BY <3>3 DEF X, a
  <2>5. PICK g \in [0 .. m -> Nat] : g[0] = 1 /\ \A n \in 1 .. m : g[n] = D[n][g[n - 1]]
    BY <2>4
  <2>6. \A n \in 1 .. m : g[n - 1] \in Nat
    BY <2>1
  <2>7. \A n \in 1 .. m : g[n] = R * g[n - 1]
    BY <2>3, <2>5, <2>6
  <2> QED
    BY <2>5, <2>7 DEF m
<1> DEFINE r == [s \in ChainServices |-> g[s - 1]]
<1>3. r = F(r)
  <2> SUFFICES ASSUME NEW s \in ChainServices
               PROVE  r[s] = F(r)[s]
    OBVIOUS
  <2>1. CASE s = 1
    BY <1>1, <1>2, <2>1
  <2>2. CASE s # 1
    <3>1. s - 1 \in ChainServices /\ s - 1 \in 1 .. N - 1
      BY <1>1, <2>2
    <3>2. r[s] = g[s - 1] /\ r[s - 1] = g[(s - 1) - 1] /\ g[s - 1] = R * g[(s - 1) - 1]
      <4> HIDE DEF R
      <4> QED
        BY <1>2, <3>1
    <3>3. F(r)[s] = R * r[s - 1]
      <4> HIDE DEF r, R
      <4> QED
        BY <2>2
    <3> QED
      BY <3>2, <3>3
  <2> QED
    BY <2>1, <2>2
<1>4. Unbudgeted = CHOOSE u : u = F(u)
  BY DEF Unbudgeted
<1>5. Unbudgeted = F(Unbudgeted)
  BY <1>3, <1>4
<1> HIDE DEF r
<1> QED
  BY <1>1, <1>5

ChainInv ==
    /\ traffic \in Traffic
    /\ originals \in Nat
    /\ traffic[1].requests = originals
    /\ \A s \in ChainServices : Hop(traffic, s)

LEMMA ChainStart == ASSUME PatternsAssumption, ChainAssumption, ChainInit PROVE ChainInv
<1> DEFINE m == RetriesPerHop - 1
           none == [requests |-> 0, retries |-> 0]
<1>1. 1 \in ChainServices /\ m \in Nat /\ MinRetries \in Nat /\ ChainDepth \in Nat
      /\ \A s \in ChainServices : s < ChainDepth => s + 1 \in ChainServices
  BY DEF PatternsAssumption, ChainAssumption, ChainServices
<1>2. traffic \in Traffic /\ originals = 0 /\ \A s \in ChainServices : traffic[s] = none
  BY DEF ChainInit, Traffic
<1>3. none.requests = 0 /\ none.retries = 0 /\ Sparing(none)
  BY <1>1 DEF Sparing
<1>4. m * 0 = 0
  <2> HIDE DEF m
  <2> QED
    BY <1>1
<1>5. \A s \in ChainServices : Hop(traffic, s)
  <2> SUFFICES ASSUME NEW s \in ChainServices
               PROVE  Hop(traffic, s)
    OBVIOUS
  <2>1. traffic[s] = none /\ (s < ChainDepth => traffic[s + 1] = none)
    BY <1>1, <1>2
  <2>2. 0 <= m * 0
    BY <1>4
  <2>3. traffic[s].retries <= m * traffic[s].requests
    BY <1>3, <2>1, <2>2
  <2>4. s < ChainDepth => traffic[s + 1].requests = traffic[s].requests + traffic[s].retries
    BY <1>3, <2>1
  <2> QED
    BY <1>3, <2>1, <2>3, <2>4 DEF Hop
<1> QED
  BY <1>1, <1>2, <1>3, <1>5 DEF ChainInv

LEMMA ChainSteps ==
    ASSUME PatternsAssumption, ChainAssumption, ChainInv, [OriginalRequest]_chainVars
    PROVE  ChainInv'
<1>1. CASE OriginalRequest
  <2>1. 1 \in ChainServices /\ ChainServices = 1 .. ChainDepth
    BY DEF ChainAssumption, ChainServices
  <2>2. traffic \in Traffic /\ originals \in Nat /\ traffic[1].requests = originals
        /\ \A q \in 1 .. ChainDepth : Hop(traffic, q)
    BY <2>1 DEF ChainInv
  <2>3. traffic' = Budgeted[1][traffic] /\ originals' = originals + 1
    BY <1>1 DEF OriginalRequest
  <2>4. Call(Budgeted[1], 1)
    BY <2>1, EveryCall
  <2>5. traffic'[1].requests = traffic[1].requests + 1
        /\ \A q \in 1 .. ChainDepth : Hop(traffic', q)
    BY <2>2, <2>3, <2>4 DEF Call
  <2>6. traffic' \in Traffic
    BY <2>1, <2>2, <2>3, BudgetedSolves DEF Hops
  <2>7. originals' \in Nat /\ traffic'[1].requests = originals'
    BY <2>2, <2>3, <2>5
  <2>8. \A q \in ChainServices : Hop(traffic, q)'
    <3>1. \A q : Hop(traffic, q)' <=> Hop(traffic', q)
      BY DEF Hop, Sparing
    <3> QED
      BY <2>1, <2>5, <3>1
  <2> QED
    BY <2>6, <2>7, <2>8 DEF ChainInv, Traffic, ChainServices
<1>2. CASE UNCHANGED chainVars
  BY <1>2 DEF chainVars, ChainInv, Traffic, ChainServices, Hop, Sparing
<1> QED
  BY <1>1, <1>2

LEMMA Scales ==
    ASSUME NEW a \in Nat, NEW o \in Nat, NEW u \in Nat, NEW r \in Nat, a <= o * u
    PROVE  r * a <= o * (r * u)
<1> DEFINE b == o * u
<1>1. b \in Nat /\ a <= b
  OBVIOUS
<1>2. r * a <= r * b
  <2> HIDE DEF b
  <2> QED
    BY <1>1
<1>3. r * b = o * (r * u)
  OBVIOUS
<1> QED
  BY <1>2, <1>3

LEMMA ChainHolds ==
    ASSUME PatternsAssumption, ChainAssumption, ChainInv
    PROVE  ChainTamed
<1> DEFINE N == ChainDepth
           R == RetriesPerHop
           m == R - 1
           Bounded(s) == Unbudgeted[s] \in Nat
                         /\ traffic[s].requests <= originals * Unbudgeted[s]
           P == {n \in 0 .. N - 1 : Bounded(n + 1)}
<1>1. /\ N \in Nat /\ N >= 1 /\ N - 1 \in Nat /\ R \in Nat /\ m \in Nat /\ R = m + 1
      /\ 1 \in ChainServices
  BY DEF ChainAssumption, ChainServices
<1>2. traffic \in Traffic /\ originals \in Nat /\ traffic[1].requests = originals
      /\ \A s \in ChainServices : Hop(traffic, s)
  BY DEF ChainInv
<1>3. 0 \in P
  <2>1. Bounded(1)
    BY <1>1, <1>2, UnbudgetedSolves
  <2> QED
    BY <1>1, <2>1
<1>4. ASSUME NEW n \in 0 .. N - 1, n \in P /\ n < N - 1
      PROVE  n + 1 \in P
  <2> DEFINE s == n + 1
             x == traffic[s].requests
             y == traffic[s].retries
             u == Unbudgeted[s]
  <2>1. s \in ChainServices /\ s < N /\ s + 1 \in ChainServices \ {1} /\ (s + 1) - 1 = s
        /\ s \in 0 .. N - 1
    BY <1>1, <1>4 DEF ChainServices
  <2>2. u \in Nat /\ x <= originals * u
    BY <1>4
  <2>3. x \in Nat /\ y \in Nat
    BY <1>2, <2>1, RecordsOfTraffic
  <2>4. traffic[s + 1].requests = x + y /\ y <= m * x
    BY <1>2, <2>1 DEF Hop
  <2>5. Unbudgeted[s + 1] = R * u
    BY <2>1, UnbudgetedSolves
  <2> HIDE DEF x, y, u
  <2>6. R * u \in Nat
    <3> HIDE DEF R
    <3> QED
      BY <1>1, <2>2
  <2>7. R * x <= originals * (R * u)
    <3> HIDE DEF R
    <3> QED
      BY <1>1, <1>2, <2>2, <2>3, Scales
  <2>8. R * x = m * x + x /\ m * x \in Nat
    <3> HIDE DEF R, m
    <3> QED
      BY <1>1, <2>3
  <2>9. x + y <= R * x
    <3> DEFINE b == m * x
               c == R * x
    <3>1. y <= b /\ c = b + x /\ b \in Nat
      BY <2>4, <2>8
    <3> HIDE DEF b, c
    <3>2. x + y <= c
      BY <2>3, <3>1
    <3> QED
      BY <3>2 DEF c
  <2>10. x + y <= originals * (R * u)
    <3> DEFINE c == R * x
               d == originals * (R * u)
    <3>1. x + y <= c /\ c <= d /\ c \in Nat /\ d \in Nat
      <4>1. c \in Nat
        <5> HIDE DEF R
        <5> QED
          BY <1>1, <2>3
      <4>2. d \in Nat
        <5> DEFINE v == R * u
        <5> HIDE DEF v
        <5> QED
          BY <1>2, <2>6 DEF v
      <4> QED
        BY <2>7, <2>9, <4>1, <4>2
    <3> HIDE DEF c, d
    <3>2. x + y <= d
      BY <2>3, <3>1
    <3> QED
      BY <3>2 DEF d
  <2>11. Bounded(s + 1)
    BY <2>4, <2>5, <2>6, <2>10
  <2> HIDE DEF Bounded
  <2> QED
    BY <2>1, <2>11
<1>5. 0 .. N - 1 \subseteq P
  <2> HIDE DEF P
  <2> QED
    BY <1>1, <1>3, <1>4, UpTo
<1>6. \A s \in ChainServices : traffic[s].requests <= originals * Unbudgeted[s]
  <2>1. \A s \in ChainServices : s - 1 \in 0 .. N - 1 /\ (s - 1) + 1 = s
    BY <1>1 DEF ChainServices
  <2> QED
    BY <1>5, <2>1
<1> QED
  BY <1>2, <1>6 DEF ChainTamed, Hop, Sparing

(* However deep the chain, however many retries each hop makes and         *)
(* whatever the budgets: each service retries within its budget, what it   *)
(* asks of the next one is what reaches that one, and no service is asked  *)
(* more often than without budgets.                                        *)
THEOREM ChainIsTamed == Spec => []ChainTamed
<1>1. Init => ChainInv
  BY PatternsAssumption, ChainAssumption, ChainStart DEF Init
<1>2. ChainInv /\ [Next]_vars => ChainInv'
  BY PatternsAssumption, ChainAssumption, StepOfEach, ChainSteps
<1>3. ChainInv => ChainTamed
  BY PatternsAssumption, ChainAssumption, ChainHolds
<1>4. Spec => Init /\ [][Next]_vars
  BY PTL DEF Spec
<1> QED
  BY <1>1, <1>2, <1>3, <1>4, PTL
===============================================================================
