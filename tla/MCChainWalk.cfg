CONSTANT MaxView = 5
INIT Init
NEXT Next
INVARIANT WalkMatchesRule
