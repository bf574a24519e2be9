------------------------------ MODULE RetryChain ------------------------------
(***************************************************************************)
(* Retry amplification in appendix D (demo_retry_amplification of          *)
(* resilience_demo.py): a chain of services whose last one is down, each   *)
(* with a retry budget of its own.  Original requests come one after the   *)
(* other, all within the budgets' window; the demonstration sends one.     *)
(***************************************************************************)
EXTENDS ResiliencePatterns

CONSTANTS
    ChainDepth,      \* chain_depth
    RetriesPerHop,   \* retries_per_hop
    MaxOriginals     \* bound of the model: original requests

ASSUME ChainAssumption ==
    /\ ChainDepth \in Nat \ {0}
    /\ RetriesPerHop \in Nat \ {0}
    /\ MaxOriginals \in Nat

VARIABLES
    traffic,         \* traffic[s]: requests to service s, retries by service s
    originals        \* history: original requests so far

chainVars == <<traffic, originals>>

ChainServices == 1 .. ChainDepth
Traffic == [ChainServices -> [requests : Nat, retries : Nat]]

ChainInit ==
    /\ traffic = [s \in ChainServices |-> [requests |-> 0, retries |-> 0]]
    /\ originals = 0

\* simulate_chain_no_budget: every hop tries RetriesPerHop times.
Unbudgeted[s \in ChainServices] ==
    IF s = 1 THEN 1 ELSE RetriesPerHop * Unbudgeted[s - 1]

\* RetryBudget.allow_retry() while nothing leaves the window.
WithinBudget(t) ==
    \/ t.retries < MinRetries
    \/ t.retries * 100 < BudgetPercent * (t.requests + t.retries)

\* Mutant: retries are not recorded, so the budget is never used up.
CountRetryNot(t, s) == t

CountRetry(t, s) == [t EXCEPT ![s].retries = @ + 1]

\* The first call of service s to the next one, then retries until the budget
\* of s denies one.  next is what a call does to the traffic behind s.
Attempts(next, s, asked) ==
    LET after[k \in 1 .. RetriesPerHop] ==
            IF k = 1 THEN next[asked]
            ELSE IF WithinBudget(after[k - 1][s])
            THEN next[CountRetry(after[k - 1], s)]
            ELSE after[k - 1]
    IN  after[RetriesPerHop]

\* simulate_chain_with_budget: each call walks the rest of the chain first.
Asked(t, s) == [t EXCEPT ![s].requests = @ + 1]
Budgeted[s \in ChainServices] ==
    [before \in Traffic |->
        IF s = ChainDepth THEN Asked(before, s)
        ELSE Attempts(Budgeted[s + 1], s, Asked(before, s))]

OriginalRequest ==
    /\ originals < MaxOriginals
    /\ originals' = originals + 1
    /\ traffic' = Budgeted[1][traffic]

-----------------------------------------------------------------------------
\* With budgets a service retries MinRetries times or within its share of its
\* own traffic, what reaches the next service is exactly its requests and
\* retries, and that is never more than without budgets: the nested retries
\* of the services behind it use budgets of their own.
ChainTamed ==
    \A s \in ChainServices :
        /\ traffic[s].requests <= originals * Unbudgeted[s]
        /\ \/ traffic[s].retries <= MinRetries
           \/ (traffic[s].retries - 1) * 100
                 < BudgetPercent * (traffic[s].requests + traffic[s].retries)
        /\ s < ChainDepth =>
              traffic[s + 1].requests = traffic[s].requests + traffic[s].retries
===============================================================================
