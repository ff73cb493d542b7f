CONSTANTS
    Platforms = {"android", "desktop"}
    ReconnectMin = 1
    ReconnectMax = 3
    MaxAttempts = 2
    MaxCommands = 2
SPECIFICATION FairSpec
CHECK_DEADLOCK FALSE
INVARIANTS
    EventsAreTruthful
    TasksAreAccountedFor
PROPERTIES
    ReconnectsArePaced
    SignalsEndTheRuntime
