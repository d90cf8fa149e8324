CONSTANT Scopes = {s1}
SPECIFICATION Spec
INVARIANT DropTerminates
CHECK_DEADLOCK FALSE
