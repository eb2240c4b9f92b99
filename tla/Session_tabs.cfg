\* one page with a request besides the two of /auth/me, another tab, a reset of the password
SPECIFICATION SessionSpec
CONSTANTS
    Users = {a, b}
    Registered = {a}
    Data = {d1}
    Channels = {"init", "form", "refresh", "me_init", "me_page", d1}
    MaxSessions = 2
    MaxResets = 1
INVARIANTS SurvivorsOverlapReset
PROPERTIES OnlyRefreshMixesUsers RequestsSettle
CHECK_DEADLOCK FALSE
