SPECIFICATION FairSpec
CONSTANTS
    MaxInbox = 3
INVARIANTS ModeIsKnown ShownModeIsTrue
PROPERTIES NothingWrittenUnseen LostFocusIsNoticed
CHECK_DEADLOCK FALSE
