SPECIFICATION Spec
CONSTANTS
    Alerts = {a}
    Users = {u, v}
    Switched = {"alert"}
    Subs = {s1, s2, s3}
    NoSub = NoSub
    MaxEpisodes = 2
    MaxQueue = 2
SYMMETRY UserSymmetry
INVARIANTS
    FixedFindsItsAlert
    RemembersOpenAlerts
    SubscriptionsAgree
