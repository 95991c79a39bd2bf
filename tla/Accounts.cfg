SPECIFICATION Spec
CONSTANTS
    Modes <- Overlaps
    Requests = {q1, q2}
    Passwords = {w1, w2}
    NoPassword = NoPassword
    Limit = 2
    Window = 1
    Horizon = 2
    MaxTokens = 2
    MaxLinks = 1
    MaxChallenges = 1
    MaxCodes = 2
    MaxWrong = 6
SYMMETRY Symmetry
INVARIANTS TypeOK RotationInvalidates OneTokenPerLogin PasswordInForce GuessesLimited OneSessionPerChallenge
PROPERTY KeptThroughWindow
CHECK_DEADLOCK FALSE
