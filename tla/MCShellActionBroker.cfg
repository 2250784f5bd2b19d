CONSTANTS
    c1 = c1
    c2 = c2
    c3 = c3
    i1 = i1
    i2 = i2
    Calls = {c1, c2, c3}
    Completions = {k1, k2}
    Ids = {i1, i2}
    None = None
    IdOf <- MixedIds
SPECIFICATION FairSpec
INVARIANT TypeOK
INVARIANT PendingMatchesInFlight
INVARIANT DeliveredWasAccepted
INVARIANT AnswersItsOwnRequest
PROPERTY LateCompletionRefused
PROPERTY EveryRequestReturns
PROPERTY ImplementsRendezvous
