SPECIFICATION Spec
INVARIANT SiblingsKeepTheirs
CHECK_DEADLOCK FALSE
