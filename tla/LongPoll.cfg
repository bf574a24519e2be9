SPECIFICATION FairSpec
CONSTANTS
    alice = alice
    bob = bob
    carol = carol
    burger = burger
    fries = fries
    Orders = {burger}
    Clients = {alice, bob}
    Watched <- MCWatched
    Final = 3
    Slots = {p1, p2, p3, p4}
    MaxGiveUps = 2
INVARIANTS
    NoLostWakeup WaitingIsHeld NewsIsNew
PROPERTIES
    WatchSpec CatchesUp
CHECK_DEADLOCK FALSE
