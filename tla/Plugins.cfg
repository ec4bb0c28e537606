SPECIFICATION Spec
CONSTANTS
    service = service
    tool = tool
    Services <- MCServices
    Tools <- MCTools
    BuiltIn <- MCServices
    Needs <- MCNeeds
    Oracle = TRUE
    Threshold = 2
    Slots = {1, 2}
    MaxEdits = 2
    MaxFaults = 1
PROPERTIES Settles CondemnedGo SettledFirst
