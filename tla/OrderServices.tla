---------------------------- MODULE OrderServices ----------------------------
(***************************************************************************)
(* The services behind the event broker of chapter 7                       *)
(* (src/chapters/ch07_pub_sub): publisher.py with its subscriptions and    *)
(* the subscribers kitchen, billing, driver matching and analytics (the    *)
(* sixth subscription, notifications, keeps no state).                     *)
(*                                                                         *)
(* The broker is PubSubPromise, which EventBroker implements, with queues  *)
(* (1000 events) that do not fill: publishing and delivering are its       *)
(* steps.  Each subscription has a worker that handles its events one by   *)
(* one; driver matching has two subscriptions, hence two workers on the    *)
(* same state.  A callback runs without interruption up to its sleeps,     *)
(* between which it changes nothing, and then to its end.                  *)
(***************************************************************************)
EXTENDS Naturals, Sequences, FiniteSets

CONSTANTS
    Orders,
    Drivers,     \* _available_drivers
    NoDriver,
    MaxEvents,   \* bound of the model: published events
    MaxRaises    \* bound of the model: callbacks that raise

ASSUME ServicesAssumption ==
    /\ IsFiniteSet(Orders)
    /\ Drivers # {} /\ NoDriver \notin Drivers
    /\ MaxEvents \in Nat
    /\ MaxRaises \in Nat

VARIABLES
    log,          \* the topics published
    about,        \* about[e]: the order of event e
    got,          \* got[s]: the events handed to subscription s
    hand,         \* hand[s]: the events whose callbacks are asleep
    displayed,    \* displayed[o]: orders_received of the kitchen, for o
    charged,      \* charged[o]: payments_processed of billing, for o
    recorded,     \* events_recorded of analytics
    assignment,   \* _assignments, NoDriver where there is none
    matches_made,
    drivers_released

(* History, read by the properties only (raised also by its bound).        *)
VARIABLES
    overtaken,    \* orders whose cancellation came before their matching ended
    raised        \* events whose callback raised

busVars == <<log, got>>
driverVars == <<assignment, matches_made, drivers_released>>
serviceVars == <<busVars, about, hand, displayed, charged, recorded, driverVars,
          overtaken, raised>>

-----------------------------------------------------------------------------
Topics == {"placed", "confirmed", "cancelled"}
Interest ==
    [kitchen |-> {"placed"}, billing |-> {"placed"}, matching |-> {"confirmed"},
     release |-> {"cancelled"}, analytics |-> Topics]
Subs == DOMAIN Interest

Bus == INSTANCE PubSubPromise

Published(o, topic) == \E e \in DOMAIN log : about[e] = o /\ log[e] = topic

ServicesInit ==
    /\ Bus!Init
    /\ about = <<>>
    /\ hand = [s \in Subs |-> {}]
    /\ displayed = [o \in Orders |-> 0]
    /\ charged = [o \in Orders |-> 0]
    /\ recorded = <<>>
    /\ assignment = [o \in Orders |-> NoDriver]
    /\ matches_made = 0
    /\ drivers_released = 0
    /\ overtaken = {}
    /\ raised = {}

-----------------------------------------------------------------------------
\* The order service: an order is placed, then perhaps confirmed and perhaps
\* cancelled.  An event may be published again (a retry of the publisher).
Publish(o, topic) ==
    /\ Len(log) < MaxEvents
    /\ topic # "placed" => Published(o, "placed")
    /\ ~ Published(o, "cancelled") \/ topic = "cancelled"
    /\ log' = Append(log, topic)
    /\ about' = Append(about, o)
    /\ UNCHANGED <<got, hand, displayed, charged, recorded, driverVars,
                   overtaken, raised>>

\* Mutant: a worker goes to the newest event and skips those before it.
NextIsNewest(s, e) ==
    e = Len(log) /\ e > Bus!Seen(s) /\ log[e] \in Interest[s]

\* The next event of subscription s reaches its callback.
NextFor(s, e) ==
    /\ e \in (Bus!Seen(s) + 1) .. Len(log)
    /\ log[e] \in Interest[s]
    /\ \A f \in (Bus!Seen(s) + 1) .. (e - 1) : log[f] \notin Interest[s]

\* Mutant: the worker does not wait for the callback to end.
DeliverEager(s, e) == NextFor(s, e) /\ Bus!Deliver(s) /\ got'[s] = Append(got[s], e)

Deliver(s, e) ==
    /\ hand[s] = {}
    /\ NextFor(s, e)
    /\ Bus!Deliver(s) /\ got'[s] = Append(got[s], e)

Sleep(s, e) == hand' = [hand EXCEPT ![s] = @ \union {e}]
Wake(s, e) == e \in hand[s] /\ hand' = [hand EXCEPT ![s] = @ \ {e}]

\* The idempotency check with which a callback begins.
Duplicate(s, o) ==
    CASE s = "kitchen" -> displayed[o] > 0
      [] s = "billing" -> charged[o] > 0
      [] s = "matching" -> assignment[o] # NoDriver
      [] OTHER -> FALSE

\* A callback begins: a duplicate is dropped at once, else it goes to sleep.
Begin(s) ==
    \E e \in DOMAIN log :
        /\ Deliver(s, e)
        /\ IF Duplicate(s, about[e]) THEN UNCHANGED hand ELSE Sleep(s, e)
        /\ UNCHANGED <<about, displayed, charged, recorded, driverVars,
                       overtaken, raised>>

KitchenEnds ==
    \E e \in hand["kitchen"] :
        /\ Wake("kitchen", e)
        /\ displayed' = [displayed EXCEPT ![about[e]] = @ + 1]
        /\ UNCHANGED <<busVars, about, charged, recorded, driverVars,
                       overtaken, raised>>

BillingEnds ==
    \E e \in hand["billing"] :
        /\ Wake("billing", e)
        /\ charged' = [charged EXCEPT ![about[e]] = @ + 1]
        /\ UNCHANGED <<busVars, about, displayed, recorded, driverVars,
                       overtaken, raised>>

\* random.choice over a pool that never shrinks.
MatchingEnds ==
    \E e \in hand["matching"], d \in Drivers :
        /\ Wake("matching", e)
        /\ assignment' = [assignment EXCEPT ![about[e]] = d]
        /\ matches_made' = matches_made + 1
        /\ UNCHANGED <<busVars, about, displayed, charged, recorded,
                       drivers_released, overtaken, raised>>

\* Mutant: the assignment of a cancelled order is read and not popped.
ReleasedKept(o) ==
    /\ drivers_released' = drivers_released + (IF assignment[o] # NoDriver THEN 1 ELSE 0)
    /\ UNCHANGED assignment

Released(o) ==
    /\ assignment' = [assignment EXCEPT ![o] = NoDriver]
    /\ drivers_released' = drivers_released + (IF assignment[o] # NoDriver THEN 1 ELSE 0)

\* handle_order_cancelled never suspends.
Release ==
    \E e \in DOMAIN log :
        LET o == about[e] IN
        /\ Deliver("release", e)
        /\ Released(o)
        /\ overtaken' = IF \E c \in DOMAIN log :
                              /\ about[c] = o /\ log[c] = "confirmed"
                              /\ c > Bus!Seen("matching") \/ c \in hand["matching"]
                        THEN overtaken \union {o} ELSE overtaken
        /\ UNCHANGED <<about, hand, displayed, charged, recorded, matches_made, raised>>

AnalyticsEnds ==
    \E e \in hand["analytics"] :
        /\ Wake("analytics", e)
        /\ recorded' = Append(recorded, e)
        /\ UNCHANGED <<busVars, about, displayed, charged, driverVars,
                       overtaken, raised>>

\* Billing raises after its sleep, as crashing_billing does: the worker
\* reports it and goes on.
Raise ==
    \E e \in hand["billing"] :
        /\ Cardinality(raised) < MaxRaises
        /\ Wake("billing", e)
        /\ raised' = raised \union {e}
        /\ UNCHANGED <<busVars, about, displayed, charged, recorded, driverVars,
                       overtaken>>

CallbackEnds == KitchenEnds \/ BillingEnds \/ MatchingEnds \/ AnalyticsEnds \/ Raise

ServicesNext ==
    \/ \E o \in Orders, topic \in Topics : Publish(o, topic)
    \/ \E s \in Subs \ {"release"} : Begin(s)
    \/ Release
    \/ CallbackEnds

\* Every worker goes on, and every callback wakes up.
ServicesFairness ==
    /\ \A s \in Subs \ {"release"} : WF_serviceVars(Begin(s))
    /\ WF_serviceVars(Release)
    /\ WF_serviceVars(KitchenEnds) /\ WF_serviceVars(BillingEnds \/ Raise)
    /\ WF_serviceVars(MatchingEnds) /\ WF_serviceVars(AnalyticsEnds)

ServicesSpec == ServicesInit /\ [][ServicesNext]_serviceVars /\ ServicesFairness

-----------------------------------------------------------------------------
ServicesTypeOK ==
    /\ log \in Seq(Topics)
    /\ about \in Seq(Orders)
    /\ Len(about) = Len(log)
    /\ got \in [Subs -> Seq(Nat)]
    /\ hand \in [Subs -> SUBSET (1 .. Len(log))]
    /\ displayed \in [Orders -> Nat]
    /\ charged \in [Orders -> Nat]
    /\ recorded \in Seq(Nat)
    /\ assignment \in [Orders -> Drivers \union {NoDriver}]
    /\ matches_made \in Nat
    /\ drivers_released \in Nat
    /\ overtaken \subseteq Orders
    /\ raised \subseteq 1 .. Len(log)

\* An order is charged once and shown to the kitchen once, although the check
\* comes before the sleeps and the mark after them and its event may come
\* again: what protects it is the worker that handles one event at a time.
OncePerOrder == \A o \in Orders : charged[o] <= 1 /\ displayed[o] <= 1

\* Matches and releases account for the assignments, over two workers ...
Assigned == {o \in Orders : assignment[o] # NoDriver}
DriversBalance == matches_made = drivers_released + Cardinality(Assigned)

\* ... and a cancelled order keeps a driver only when its cancellation was
\* handled before its matching had ended.
CancelledAreReleased ==
    \A o \in Assigned, i \in 1 .. Len(got["release"]) :
        about[got["release"][i]] = o => o \in overtaken

DriversAccounted == DriversBalance /\ CancelledAreReleased

\* Every placed order is displayed, and recorded by analytics, and it is
\* charged unless billing raised on it, whatever the other services do.
EveryOrderServed ==
    \A o \in Orders :
        Published(o, "placed") ~>
            /\ displayed[o] = 1
            /\ \E i \in DOMAIN recorded : about[recorded[i]] = o
            /\ charged[o] = 1 \/ \E e \in raised : about[e] = o
==============================================================================
