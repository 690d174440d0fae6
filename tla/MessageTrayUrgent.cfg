SPECIFICATION Spec
CONSTANTS
    mail = mail
    chat = chat
    letter = letter
    alarm = alarm
    invite = invite
    ping = ping
    None = None
    Sources <- MCSources
    Notifications <- MCNotifications
    SourceOf <- MCSourceOf
    KeptInList <- MCKept
    Transient <- MCTransient
    Resident <- MCResident
    Urgencies <- MCUrgencies
    MaxQueue = 2
    MaxPerSource = 2
    MaxMoves = 1
INVARIANTS
    UrgentComesThrough
CHECK_DEADLOCK FALSE
