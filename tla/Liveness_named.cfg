SPECIFICATION Spec
CONSTANTS
    Hostnames = {"a"}
INVARIANTS OneSilentCase
