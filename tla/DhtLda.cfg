CONSTANTS
  p1 = p1
  p2 = p2
  Procs <- MCProcs
  Tokens <- MCTokens
  WordOwner <- MCWordOwner
  TopicOwner <- MCTopicOwner
  Topics = {0, 1}
  NIters = 2

SPECIFICATION Spec

INVARIANT CountsMatchTopics

\* main() returns after the barrier: every process stops there.
CHECK_DEADLOCK FALSE
