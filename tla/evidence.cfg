CONSTANTS
    d1 = d1
    d2 = d2
    funding_proof = funding_proof
    i20 = i20
    letter = letter
    funding = funding
    school = school
    a = a
    b = b
    None = None
    Documents = {d1, d2}
    Types <- MCTypes
    Fields <- MCFields
    Values = {a, b}
    Funding = funding
    FundingProof = funding_proof
    Patterns <- MCPatterns
    Extractable = {i20}
    Assessable = {funding_proof, i20}
    Required = {funding_proof, letter}
    Uploadable <- MCFiles
    Extractions <- MCExtractions
    Answers <- MCAnswers
    Templates <- MCTemplates
    School = school
    Fallback = a
    Other = b
SPECIFICATION Spec
INVARIANTS
    ResultsAreGrounded
    ProfileFollowsEvidence
    FundingReadyIsAgreed
PROPERTIES
    ClaimStands
SYMMETRY Symmetric
CHECK_DEADLOCK FALSE
