SPECIFICATION Spec
CONSTANTS
    t1 = t1
    t2 = t2
    t3 = t3
    None = None
    Tabs <- MCTabs
    Stale = 1
    MaxGestures = 3
    MaxQueued = 2
INVARIANTS TwoPlayersAreTold
PROPERTIES PlayerIsSeenByOther SilentOwnerForgottenByTab
CHECK_DEADLOCK FALSE
