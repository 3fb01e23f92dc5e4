CONSTANTS
    Streams <- MCStreams
    Ind = 2
    Blank = 47
SPECIFICATION Spec
INVARIANT TypeOK
INVARIANT IndentIsNesting
\* write_ln is called once per line; the run ends after the last one.
CHECK_DEADLOCK FALSE
