CONSTANT Draws = {0, 17, 583, 699, 2000000000}
SPECIFICATION Spec
INVARIANT RamFaultsAreAnswered
INVARIANT SilentOnlyUncompared
CHECK_DEADLOCK FALSE
