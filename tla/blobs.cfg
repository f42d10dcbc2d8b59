SPECIFICATION Spec
CONSTANTS
    voice = voice
    image = image
    once = once
    again = again
    other = other
    Keys = {voice, image}
    Puts <- ThreePuts
    KeyOf <- Target
    Missing = Missing
    Size = 2
    MaxLosses = 2
INVARIANTS
    TypeOK
    FilesAreWhole
    RefsResolve
    TempsAreExplained
PROPERTIES
    ImplementsAtomicBlobs
