\* A global and a project file, the environment and the command line.
CONSTANT CfFiles = 2
INIT CfInit
NEXT CfNext
CHECK_DEADLOCK FALSE
INVARIANT SettingsFollowPrecedence
