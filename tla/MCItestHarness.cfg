\* All four subscription tests.  A test that has returned and run its
\* defers is finished, and a hung one waits for ever: no deadlock check.
CONSTANT Tests <- MCTests
SPECIFICATION Spec
CHECK_DEADLOCK FALSE
INVARIANT TypeOK
PROPERTY TimeoutOnlyWhenLateOrLost
PROPERTY TestReachesVerdict
