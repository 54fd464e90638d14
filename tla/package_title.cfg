\* A title with an entity reference in it.
CONSTANTS
    Absent = Absent
    NumberOf <- NumberTable
    ClockOf <- ClockTable
    LengthOf <- LengthTable
    Profiles <- ProfileSet
    Packages <- EntityPackages
SPECIFICATION Spec
INVARIANT TitleWhole
CHECK_DEADLOCK FALSE
