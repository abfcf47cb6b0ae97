CONSTANT Settings <- MCSettings
SPECIFICATION LaunchSpec
INVARIANTS
    FollowsLayout
    AccommodatedAreLaunched
CHECK_DEADLOCK FALSE
