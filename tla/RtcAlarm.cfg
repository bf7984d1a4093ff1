SPECIFICATION FairSpec
INVARIANTS
    NoAlarmLost
    StaleNeverArmed
PROPERTIES
    OtherFlagLostOnlyInWindow
    AlarmReported
