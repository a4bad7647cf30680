SPECIFICATION Spec
CONSTANTS
    None = None
    Env = {e1, e2}
    MaxSettings = 4
    MaxEvents = 1
SYMMETRY EnvSymmetry
INVARIANTS
    ReportedSettingInForce
    RolesFollowSetting
    ForwardedWhileInForce
CHECK_DEADLOCK FALSE
