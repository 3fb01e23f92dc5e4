CONSTANTS
    r1 = r1
    r2 = r2
    r3 = r3
    tar = tar
    zip = zip
    dsym = dsym
    Runs <- MCRuns
    Assets <- MCAssets
    MaxFaults = 1
SPECIFICATION Spec
INVARIANT TypeOK
INVARIANT CompleteOnSuccess
PROPERTY ReleaseOnlyGrows
\* Every run ends, done or failed; nothing runs after the last one.
CHECK_DEADLOCK FALSE
