SPECIFICATION Spec
CONSTANTS
    Users = {u1, u2}
    Workers = {w1, w2}
    NoRow = NoRow
    MayDie = TRUE
    Entities = {e1}
    Keys = {k1}
    Ratings = {0, 1, 6}
    Contributed <- MCContributed
    Jobs = {j1}
    MaxReviews = 3
    Absent = Absent
    JobsMayDie = TRUE
    Addresses = {a1, a2}
    Points = {a1, a2}
    GeoOf <- MCGeoOf
    Exact = {a1}
    InfoKeys = {k1}
    InfoVals = {x}
    Blank = Blank
    NDays = 3
    Hours = {closed, h1}
    Closed = closed
    Timetables <- MCTimetables
    MaxEdits = 2
    Unset = Unset
    HoursOn = TRUE
    Guest = Guest
    Contents = {c1, c2}
    MaxDiscussions = 2
    MaxPosts = 3
    GuestsPost = TRUE
SYMMETRY Symmetry
INVARIANTS DuplicatesBounded MediansSplitTheRatings
PROPERTIES ReviewsAreTheAuthors ChangesAreApproved OnlyDeathsLeaveGaps
    OthersPostsAreSafe RemovalIsComplete
