SPECIFICATION FairSpec
CONSTANTS
    Registrations = {r1, r2}
    Typed = {"agent", "ann", "Ann"}
    Normalised <- MCNormalised
    SeedEmail = "agent"
    Seed = seed
    ACCESS = 2
    REFRESH = 3
    MaxTime = 5
    MaxTokens = 3
    MaxFaults = 2
    None = None
INVARIANTS TypeOK OneAccountPerAddress OnlySeedIsAgent AnswersTrue AccessEndsAfterLogin
PROPERTY ServesAgain
CHECK_DEADLOCK FALSE
