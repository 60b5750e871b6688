CHECK_DEADLOCK FALSE
SPECIFICATION Spec
CONSTANT
    MaxOffers = 1
INVARIANTS
    StateChangeIsShown
