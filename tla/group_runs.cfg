SPECIFICATION FairSpec
CONSTANTS
    g1 = g1 g2 = g2 u1 = u1
    Groups = {g1, g2}
    Members = {"a", "b"}
    Template <- Templates
    DependsOn <- Dependencies
    Startup <- Order
    Rank <- Alphabet
    Strategy <- Strategies1
    Users = {u1}
    Name <- Names
    MaxCrashes = 1
    None = None
INVARIANTS GroupsCloseTheirOwn NobodyForgotten
PROPERTIES DependenciesFirst RunsEnd
CHECK_DEADLOCK FALSE
