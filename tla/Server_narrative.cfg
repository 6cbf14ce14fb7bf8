SPECIFICATION Spec
INVARIANTS FreshNarrativeIsComplete
CHECK_DEADLOCK FALSE
