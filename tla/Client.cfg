\* One operation object, a reader and a card, an agent that dies and returns.
CONSTANTS
    Objs = {o1}
    Readers = {r1}
    MaxCards = 1
    MaxLives = 2
    MaxGen = 2
    MaxFrames = 1
    HandshakeCut = FALSE
    NoOne = NoOne
    Kinds = {"sign", "credentials"}
SPECIFICATION LiveSpec
INVARIANTS
    ClientMirrorsAgent
    AnsweredOnce
PROPERTIES
    EveryOperationEnds
\* An agent out of lives and a consumer out of operations stop.
CHECK_DEADLOCK FALSE
