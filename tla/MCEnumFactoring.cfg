CONSTANTS
    Letters <- MCLetters
    Group <- MCGroup
    Members <- MCMembers
SPECIFICATION Spec
INVARIANT TypeOK
INVARIANT ProbeLossless
PROPERTY Termination
\* convert_constants leaves the loop and goes on with the next group.
CHECK_DEADLOCK FALSE
