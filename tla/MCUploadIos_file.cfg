CONSTANTS
    j1 = j1
    j2 = j2
    j3 = j3
    Jobs <- MCJobs
    Build <- MCBuild
    MaxFaults = 1
SPECIFICATION Spec
PROPERTY ReRunUploads
\* Every job ends, done, aborted or failed; nothing runs after the last one.
CHECK_DEADLOCK FALSE
