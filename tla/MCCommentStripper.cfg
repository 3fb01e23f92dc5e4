CONSTANTS
    Texts <- MCTexts
    Annotations <- MCAnnotations
SPECIFICATION Spec
INVARIANT TypeOK
PROPERTY Termination
\* The comment loop is left once; the program then goes on to the template.
CHECK_DEADLOCK FALSE
