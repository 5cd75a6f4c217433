\* A command that is given up to three times.
CONSTANT MAX_TRIES = 3
SPECIFICATION LiveSpec
CHECK_DEADLOCK FALSE
INVARIANT DoneIsDone
PROPERTY CommandEnds
