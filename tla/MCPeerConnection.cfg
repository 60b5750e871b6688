\* Three offers for one stream, which may overlap.
CHECK_DEADLOCK FALSE
SPECIFICATION FairSpec
CONSTANT
    MaxOffers = 3
INVARIANTS
    DescriptionsAgree
PROPERTIES
    OffersAnswered
