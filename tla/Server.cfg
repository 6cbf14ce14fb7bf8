SPECIFICATION Spec
INVARIANTS CaseIsOneStory AcceptedIsStored CountedOnce RecentIsRemembered
PROPERTIES SilentRingHalted GroupedOnce EverythingGrouped
CHECK_DEADLOCK FALSE
