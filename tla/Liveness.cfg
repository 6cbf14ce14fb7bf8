SPECIFICATION Spec
CONSTANTS
    Hostnames = {}
INVARIANTS OneVerdictPerEpisode OneSilentCase
PROPERTIES VerdictIsTrue SilenceShown DeadAgentGetsCase
