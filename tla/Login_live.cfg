SPECIFICATION MCSpec
CONSTANTS
    Providers = {"claude", "codex"}
    MaxSessions <- MCTwo
    CheckIds <- MCCheckIds
    LoginsMayFail = TRUE
INVARIANTS  OneChild
PROPERTIES TerminalIsFinal SessionsEnd
