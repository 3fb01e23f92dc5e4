CONSTANTS
    Headers <- MCHeaders
    Templates <- MCTemplates
    CbKeys <- MCCbKeys
    OtherTypes <- MCOtherTypes
    OtherPointers <- MCOtherPointers
    FnNames <- MCFnNames
    ConstGroups <- MCConstGroups
    Alias <- MCAlias
SPECIFICATION Spec
INVARIANT TypeOK
INVARIANT MarshalledWhenRegisteredFirst
\* The script exits after the last template line or an uncaught KeyError.
CHECK_DEADLOCK FALSE
