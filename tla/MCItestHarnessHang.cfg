\* The tests of MCItestHarness.cfg, checking that each one returns.
CONSTANT Tests <- MCTests
SPECIFICATION Spec
CHECK_DEADLOCK FALSE
PROPERTY TestTerminates
