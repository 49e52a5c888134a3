\* A chat of five tools, with a process that may break.  A chat that has ended
\* does nothing more, and one that waits for a broken process neither.
CONSTANT MaxLoops = 5
SPECIFICATION Spec
PROPERTY AnswersMatch
PROPERTY ChatEnds
CHECK_DEADLOCK FALSE
