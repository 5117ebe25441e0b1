SPECIFICATION Spec
CONSTANTS
    Clips = {1, 2, 3}
    Start <- MCStart
    End <- MCEnd
    Camera <- MCCamera
    Quiets <- MCQuiets
    MaxChecks = 4
    Native = 10
    Horizon = 11
    Words <- MCWords
    Slots = {4, 6}
    Publications = 2
    Few = 1
INVARIANTS AccountedAndBounded
PROPERTIES LeftBehindIsQuiet Settled
