\* One account in two spellings, two requests in flight.
CONSTANTS
    Spellings <- TwoSpellings
    EmailStr <- LowerDomain
    Passwords = {p, q}
    Roles = {candidate, recruiter}
    Requests = {r1, r2}
    AccessTTL = 2
    RefreshTTL = 4
    MaxDelay = 1
    None = None
SPECIFICATION Spec
SYMMETRY AccountsSymmetry
INVARIANTS TypeOK RegistrationStands IdentityIsTrue RevocationTakesEffect
