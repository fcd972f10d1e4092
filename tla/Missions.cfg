SPECIFICATION Spec
CONSTANTS
    cargo = cargo
    hq = hq
    town = town
    far = far
    Nobody = Nobody
    House <- MCHouse
    Player = 1
    Chiefs <- MCChiefs
    Captains <- MCCaptains
    Stewards <- MCStewards
    Missions <- MCMissions
    Contracts <- MCContracts
    Rosters <- MCRosters
    Home = hq
    Origin = town
    Abroad = far
    Silver = 6
    Reward = 3
    Fee = 1
    Toll = 1
    Gifts <- MCGifts
    Escorts = 2
    TopGrade = 2
    MaxMissions = 2
    MaxReviews = 1
    MaxMishaps = 1
INVARIANTS
    RewardsPaidOnce
    OpenOfferIsCurrent
    FieldIsOnPaper
CHECK_DEADLOCK FALSE
