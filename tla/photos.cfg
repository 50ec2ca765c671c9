\* One user in or out of the two groups, one photo, two tabs' worth of refreshes
\* cut to one; a token lives one tick and a signed URL two.
SPECIFICATION LibrarySpec
CONSTANTS
    u1 = u1
    p1 = p1
    moderators = moderators
    family = family
    Users = {u1}
    Groups = {moderators, family}
    Moderators = moderators
    Family = family
    Life = 1
    Horizon = 3
    UrlTtl = 2
    Tabs = 1
    Calls = 1
    Photos = {p1}
INVARIANTS ViewsRunOut ListedPhotosExist UnlistedPhotosGone
