\* One operator against an environment whose password is in Secrets Manager.
CONSTANTS
    Operators = {o1}
    Versions = {v1, v2, v3}
    Migrations = {m1, m2}
    Files <- Added
    SecretArnSet = TRUE
    Null = Null
    v1 = v1
    v2 = v2
    v3 = v3
    m1 = m1
    m2 = m2
SPECIFICATION Spec
INVARIANTS MigrationsAuthenticate
