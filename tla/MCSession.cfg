\* Two tabs, two sign-ins, the second one of an employee, two calls under way.
CONSTANTS
    Tabs = {t1, t2}
    EmployeeSessions = {2}
    MaxSessions = 2
    MaxCalls = 2
SPECIFICATION Spec
INVARIANT SessionInv
PROPERTIES LiveSessionKept
