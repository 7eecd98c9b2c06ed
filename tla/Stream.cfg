SPECIFICATION FairSpec
CONSTANTS
    Messages <- SomeMessages
    Window = 3
    MaxMessages = 4
INVARIANT InStep
PROPERTIES ImplementsChannel Delivery NoEndWaits
CHECK_DEADLOCK FALSE
