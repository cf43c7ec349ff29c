SPECIFICATION Spec
CONSTANTS
    Users <- MCUsers
    Logins <- MCLogins
    Hostname <- MCHostname
    Platform <- MCPlatform
    Projects <- MCProjects
    ShellCmd <- MCShellCmd
    Output <- MCOutput
    ExitCodes = {0, 255, 65536}
    MaxBuilds = 2
INVARIANT
    ContentKept
\* The connection rests when the user builds nothing more.
CHECK_DEADLOCK FALSE
