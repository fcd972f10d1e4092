SPECIFICATION TournamentSpec
CONSTANTS
    pl = pl
    h = h
    g1 = g1
    g2 = g2
    Player = pl
    Hosts = {pl, h}
    Guests = {g1, g2}
    Seeding <- MCSeeding
    Weights <- MCWeights
    Fee = 2
    Board = 1
    Seat = 1
    Toll = 1
    Gate = 1
    CloseDay = 1
    ConvergenceDay = 2
    CompetitionDay = 3
    TripDays = 1
    SessionMatches = 1
    Funds = 6
    MaxMishaps = 1
    Bye = bye
INVARIANTS DrawIsSound
PROPERTIES SilverIsAccounted EveryoneGetsHome
CHECK_DEADLOCK FALSE
