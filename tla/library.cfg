SPECIFICATION Spec
CONSTANTS
    u1 = u1
    u2 = u2
    None = None
    Uploads <- TwoUploads
    Removers = {t1}
    Names = {app}
    Mounted = {base}
    MaxFiles = 2
    MaxRows = 3
    MaxCrashes = 1
SYMMETRY Symmetry
INVARIANT TypeOK
INVARIANT FailedLeavesNoFile
INVARIANT LoneUploadKeepsFiles
PROPERTY HiddenStaysHidden
CHECK_DEADLOCK FALSE
