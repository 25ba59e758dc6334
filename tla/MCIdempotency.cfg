\* One key requested with two fingerprints, three handlers.
SPECIFICATION FairSpec
CONSTANTS
    Keys = {k1}
    Prints = {p1, p2}
    Handlers = {h1, h2, h3}
    Ttl = 2
    MaxEffects = 3
    MaxFaults = 2
    NoKey = NoKey
    NoPrint = NoPrint
    NoOne = NoOne
INVARIANTS OneEffectPerRecord AnswersAreEffects
PROPERTIES EveryKeyIsAnswered
CHECK_DEADLOCK FALSE
