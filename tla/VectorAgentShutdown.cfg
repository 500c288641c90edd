CONSTANTS MaxExits = 2 MaxUnshipped = 1
SPECIFICATION PodSpec
PROPERTIES VectorCanBeShutDown
CHECK_DEADLOCK FALSE
