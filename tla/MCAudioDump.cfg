CONSTANTS
    Dumps <- MCDumps
SPECIFICATION Spec
INVARIANT TypeOK
INVARIANT FirstPassStats
\* The script ends, plotted or with an exception.
CHECK_DEADLOCK FALSE
