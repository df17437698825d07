CONSTANTS
    Longest = 5
    MaxChanges = 3  MaxOutages = 4
    Text <- Written
    Parts = {"niri", "hyprland", "fair", "lines"}
SPECIFICATION PartsSpec
INVARIANTS QuietMeansCurrent WholeUnlessSplit
PROPERTIES FollowedAgain ThreadGetsOn
CHECK_DEADLOCK FALSE
