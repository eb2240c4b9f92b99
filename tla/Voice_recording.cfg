\* three starts on one page
SPECIFICATION VoiceSpec
CONSTANTS
    MaxStarts = 3
INVARIANTS SeenUnlessRaced
PROPERTIES MicrophonesGoOff
CHECK_DEADLOCK FALSE
