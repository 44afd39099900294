SPECIFICATION Spec
CONSTANTS
    None = None
    r1 = r1
    r2 = r2
    Runs = {r1, r2}
    Relays = {o1, o2}
    MaxEvents <- MCMaxEvents
    MaxDeliveries = 2
    ClaimLimit = 2
    MaxCrashes = 1
INVARIANTS DeliverySound
PROPERTIES DeliveryFinal EventsDelivered
CHECK_DEADLOCK FALSE
