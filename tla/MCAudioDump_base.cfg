CONSTANTS
    Dumps <- MCDumps
SPECIFICATION Spec
INVARIANT PlotsWholeDump
\* The script ends, plotted or with an exception.
CHECK_DEADLOCK FALSE
