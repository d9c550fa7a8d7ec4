SPECIFICATION FairSpec
CONSTANTS
    Socials = {Ann, Bob}
    Emails = {Ann, Bob}
    EmailOf <- OwnAddress
    Browsers = {b1}
    Workers = {w1, w2}
    Jobs = {j1, j2}
    MaxUsers = 2
    MaxPoints = 1
    NoRow = NoRow
    Nobody = Nobody
    MayDie = TRUE
INVARIANTS SignedInUsersHaveProfiles OneUserPerAccount
PROPERTIES OnlyDeathsAbandon ScoresConverge
