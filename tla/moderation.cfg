\* Two users, either of whom may be a moderator or lose it, one comment and two
\* decisions at once; a token lives one tick.
SPECIFICATION Spec
CONSTANTS
    u1 = u1
    u2 = u2
    c1 = c1
    r1 = r1
    r2 = r2
    moderators = moderators
    Null = Null
    Users = {u1, u2}
    Groups = {moderators}
    Moderators = moderators
    Life = 1
    Horizon = 1
    Tabs = 1
    Calls = 1
    Comments = {c1}
    Requests = {r1, r2}
SYMMETRY Symmetry
INVARIANTS RolesRunOut SignOutHolds AnsweredAsDecided
PROPERTIES GrantsByModerators PublishedByModerators DecisionsWhole
