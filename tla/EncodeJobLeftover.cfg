\* Nobody touches the staging file.
SPECIFICATION Spec
CONSTANT Replacements = {}
INVARIANTS FailedJobLeavesNoStaging
\* A job runs once and ends.
CHECK_DEADLOCK FALSE
