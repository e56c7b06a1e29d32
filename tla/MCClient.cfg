\* The plymouth command, with every reply and every failure.
SPECIFICATION FairSpec
CONSTANTS
    CommandLines <- Lines
INVARIANTS
    ClientIsSound
PROPERTIES
    ClientEnds
