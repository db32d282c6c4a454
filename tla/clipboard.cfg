CONSTANTS
    Announcements <- MCAnnouncements
    Copies <- MCCopies
    MaxOutstanding = 2
SPECIFICATION FairSpec
INVARIANTS
    
    DataUnderItsFormat
PROPERTIES
    ServerAnswered
