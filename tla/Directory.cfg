SPECIFICATION FairSpec
CONSTANTS
    Alice = Alice
    Bob = Bob
    Carol = Carol
    Peer = {Alice, Bob, Carol}
    Acquainted <- AlicesFriends
    FirstAddress <- AllThree
    LastAddress <- AliceMoves
    MaxEditions <- NoEdits
    MaxStamps = 1
    MaxKills = 1
    Wide = {FALSE}
    Flaky = FALSE
INVARIANTS TypeOK GatedWithinFetch OwnRelayPolled
PROPERTIES HintsArrive
CHECK_DEADLOCK FALSE
