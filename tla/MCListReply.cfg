\* Every list that the directory has room for.
SPECIFICATION ListSpec
CONSTANT MaxBoxes = 23
\* The listing ends.
CHECK_DEADLOCK FALSE
INVARIANT ListTypeOK
INVARIANT ExactUnlessCrowded
PROPERTY NeverMixed
PROPERTY ListingEnds
