\* Two operators and migrations by hand, over three releases.
CONSTANTS
    Operators = {o1, o2}
    Versions = {v1, v2, v3}
    Migrations = {m1, m2}
    Files <- Added
    SecretArnSet = FALSE
    Null = Null
    v1 = v1
    v2 = v2
    v3 = v3
    m1 = m1
    m2 = m2
SYMMETRY Symmetry
CONSTRAINT Bounded
SPECIFICATION Spec
INVARIANTS TypeOK SchemaBeforeCode OnlyForward DeployedIsConfigured
PROPERTIES NothingIsApplied
