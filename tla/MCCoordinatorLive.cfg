SPECIFICATION ReachableSpec
CONSTANTS
    d1 = d1
    d2 = d2
    poll = poll
    switch = switch
    button = button
    route = route
    leds = leds
    stream = stream
    reboot = reboot
    Devices <- MCDevices
    UniqueId = d1
    Poller = poll
    Callers <- OneCaller
    Readers <- MCReaders
    Commands <- MCCommands
    Reboot = reboot
    Route = stream
    Profiles <- MCProfiles
    NoTask = NoTask
    NoCommand = NoCommand
    NoSnapshot = NoSnapshot
    MaxVersion = 2
PROPERTIES
    OperationsFinish
    Converges
CHECK_DEADLOCK FALSE
