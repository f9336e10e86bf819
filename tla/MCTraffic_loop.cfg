\* Rough: polls, database and administrator interleave and fail for two users.
\* Calm: one user, nothing but mtg fails; nothing is dropped, everything arrives.
CONSTANTS
    Users = {u1, u2}
    u1 = u1
    u2 = u2
    Conns = {c1}
    Nobody = nobody
    MaxBytes = 2
    MaxTg = 3
    Faults = {"clash", "mtg", "db"}
SPECIFICATION MCSpec
INVARIANTS TypeOK RowsBacked PresenceEarned BilledOnce CalmDropsNothing
PROPERTIES CalmBills KeepsLedger
