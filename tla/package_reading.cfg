\* Every document of a small package, in every variation.
CONSTANTS
    Absent = Absent
    NumberOf <- NumberTable
    ClockOf <- ClockTable
    LengthOf <- LengthTable
    Profiles <- ProfileSet
    Packages <- AllPackages
SPECIFICATION Spec
INVARIANTS
    TitlesAsDeclared RefinementsHold IdentifierAsDesignated
    EncryptionOwn NestingKept PlaybackChain
CHECK_DEADLOCK FALSE
