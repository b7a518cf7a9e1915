SPECIFICATION FairSpec
CONSTANTS
    Null = null
    Garbage = garbage
    red = red
    blue = blue
    black = black
    white = white
    home = home
    away = away
    me = me
    Registrations <- MCRegistrations
    TreeSize = 64
    MaxCut = 14
    CommandLines <- MCCommandLines
    IntOf <- MCIntOf
    Files <- MCFiles

    
    
PROPERTIES
    StartupEnds
CHECK_DEADLOCK FALSE
