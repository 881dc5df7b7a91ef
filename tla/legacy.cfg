CONSTANTS
    i20 = i20
    letter = letter
    north = north
    south = south
    own = own
    None = None
    Sources = {parents, own}
    Parents = parents
    Undecided = undecided
    Proof = proof
    School = school
    Passport = passport
    Funding = funding
    Refs = {i20}
    Files <- MCFiles
    Texts <- MCTexts
    Updates <- MCUpdates
    Proposals <- MCProposals
    Reviews <- MCReviews
    Actions <- MCActions
    Boards <- MCBoards
    MaxFiles = 2
    MaxTurns = 3
SPECIFICATION Spec
INVARIANTS DisagreementIsReviewed ReviewIsExplained
PROPERTIES RefusalIsConfessed UnprovenClaimShows
CHECK_DEADLOCK FALSE
