------------------------------ MODULE OrderKeys ------------------------------
(***************************************************************************)
(* Orders created under idempotency keys, the fifth part of appendix D     *)
(* (create_order of resilience_demo.py).  The store keeps the response     *)
(* under the key, with a hash of the parameters it answered; clients       *)
(* repeat a request whose answer they missed, and may reuse a key.  The    *)
(* handler does not suspend.                                               *)
(***************************************************************************)
EXTENDS ResiliencePatterns, FiniteSets

CONSTANTS
    Keys, Params, \* idempotency keys, and parameters of a request
    NoParams,
    MaxCreated    \* bound of the model: orders created

ASSUME OrderKeysAssumption == NoParams \notin Params /\ MaxCreated \in Nat

VARIABLES
    keyed,    \* keyed[k]: the store's entry under k, its hash the parameters
    body,     \* body[k]: the order the stored response names
    created   \* orders_created, each with its key, parameters and age

(* History, read by the properties only.                                   *)
VARIABLE response \* the last request and its answer

keyVars == <<keyed, body, created, response>>

NoAnswer == [status |-> 0, key |-> 0, params |-> NoParams, order |-> 0]

KeysInit ==
    /\ keyed = [k \in Keys |-> NotStored]
    /\ body = [k \in Keys |-> 0]
    /\ created = <<>>
    /\ response = NoAnswer

\* Mutant: a stored response answers whatever the request's parameters.
SameRequestAny(k, p) == keyed[k].age >= 0

\* The stored hash is the hash of this request's parameters.
SameRequest(k, p) == keyed[k].hash = p

Answer(k, p, status, order) ==
    response' = [status |-> status, key |-> k, params |-> p, order |-> order]

\* create_order, with a stored response ...
Repeated(k, p) ==
    /\ Valid(keyed[k])
    /\ IF SameRequest(k, p) THEN Answer(k, p, 201, body[k]) ELSE Answer(k, p, 422, 0)
    /\ UNCHANGED <<keyed, body, created>>

\* ... and without.
Created(k, p) ==
    /\ ~ Valid(keyed[k])
    /\ Len(created) < MaxCreated
    /\ created' = Append(created, [key |-> k, params |-> p, age |-> 0])
    /\ keyed' = [keyed EXCEPT ![k] = Stored(p)]
    /\ body' = [body EXCEPT ![k] = Len(created) + 1]
    /\ Answer(k, p, 201, Len(created) + 1)

KeysTick ==
    /\ keyed' = [k \in Keys |-> AgedEntry(keyed[k])]
    /\ created' = [i \in DOMAIN created |->
          [created[i] EXCEPT !.age = Least(@ + 1, StoreTTL + 1)]]
    /\ response' = NoAnswer
    /\ UNCHANGED body

KeysNext == KeysTick \/ \E k \in Keys, p \in Params : Repeated(k, p) \/ Created(k, p)

KeysSpec == KeysInit /\ [][KeysNext]_keyVars

-----------------------------------------------------------------------------
KeysTypeOK ==
    /\ \A k \in Keys : keyed[k].age \in 0 .. StoreTTL + 1
    /\ body \in [Keys -> 0 .. Len(created)]
    /\ created \in Seq([key : Keys, params : Params, age : 0 .. StoreTTL + 1])

\* Within the time to live a key stands for one order: the answer to a request
\* under it names that order if the parameters are the order's, and is a
\* conflict (422) if they are not.
KeysBindOrders ==
    /\ \A i, j \in DOMAIN created :
          i # j /\ created[i].key = created[j].key
             => created[i].age > StoreTTL \/ created[j].age > StoreTTL
    /\ response.status = 201 =>
          created[response.order].key = response.key /\ created[response.order].params = response.params
    /\ response.status = 422 =>
          \E i \in DOMAIN created :
             created[i].key = response.key /\ created[i].params # response.params
                /\ created[i].age <= StoreTTL
=============================================================================
