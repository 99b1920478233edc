SPECIFICATION LadSpec
CONSTANTS
    c1 = c1
    c2 = c2
    c3 = c3
    Clients = {c1, c2, c3}
    NumClients = 2
    NoClient = NoClient
    MaxCommands = 5
    MaxDeaths = 1
INVARIANTS SessionsSound AnswersOwn
PROPERTIES DepartedCleanedUp Answered
CHECK_DEADLOCK FALSE
