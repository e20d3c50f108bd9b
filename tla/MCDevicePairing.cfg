SPECIFICATION FairSpec
CONSTANTS
    Codes = {asked, shared}
    Interactive = {asked}
    Reusable = {shared}
    Devices = {d1, d2}
    MaxStatus = 1
    Faults = {"restart", "bad_token"}
INVARIANT OneOutcome
PROPERTIES CodeKept RedeemSeen RefinesAdmission
CHECK_DEADLOCK FALSE
