SPECIFICATION Spec
CONSTANTS
    s1 = s1
    s2 = s2
    Servers <- MCServers
    Inodes <- MCInodes
INVARIANT OneServer
CHECK_DEADLOCK FALSE
