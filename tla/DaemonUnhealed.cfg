SPECIFICATION DaemonSpec
CONSTANTS
    a1 = a1
    a2 = a2
    Competitor <- MCCompetitor
    Generators <- MCGenerators
    MaxBounties = 9
    Grant = 1
    Costs = {0, 1}
    Price = 1
    Ceiling = 1
    Dust = 0
    Rounds = 1
    MaxEpisodes = 2
    MaxCrashes = 2
    MaxFaults = 1
INVARIANTS
    BootHealsEveryEntry
CHECK_DEADLOCK FALSE
