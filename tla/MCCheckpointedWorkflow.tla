------------------------ MODULE MCCheckpointedWorkflow ------------------------
EXTENDS CheckpointedWorkflow

CONSTANTS a, b, c

ThreeSteps == <<a, b, c>>
==============================================================================
