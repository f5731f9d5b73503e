SPECIFICATION Spec
CONSTANTS
    u1 = u1
    u2 = u2
    None = None
    Uploads <- TwoUploads
    Removers = {}
    Names = {app}
    Mounted = {base}
    MaxFiles = 1
    MaxRows = 3
    MaxCrashes = 0
PROPERTY NeverOverwritten
CHECK_DEADLOCK FALSE
