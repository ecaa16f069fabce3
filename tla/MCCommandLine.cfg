\* Three revisions, every failure and every point to be killed at.
CONSTANT MaxRev = 3
SPECIFICATION Spec
INVARIANTS MapNotOlder OkIsComplete
