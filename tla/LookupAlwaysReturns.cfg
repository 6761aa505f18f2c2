CONSTANTS
    Server = 3
    Stranger = 4
    Hosts <- MCHosts
    Zone <- MCZone
    Texts <- MCTexts
    Ids = {1, 2}
    Ports = {1, 2}
    MaxAsked = 2
    MaxIn = 1
SPECIFICATION ReturningSpec
PROPERTY LookupAlwaysReturns
