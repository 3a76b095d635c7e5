SPECIFICATION Spec
CONSTANTS
    u1 = u1
    t1 = t1
    t2 = t2
    t3 = t3
    r1 = r1
    r2 = r2
    None = None
    User <- OneUser
    Token <- ThreeTokens
    Request <- TwoRequests
SYMMETRY Symmetry
INVARIANT OneLiveTokenPerSession
INVARIANT EndedSessionsStayEnded
INVARIANT LogoutIsFinal
PROPERTY RenewalOnlyWhileActive
PROPERTY ImplementsSessions
\* The last account can be deleted and the tokens of this instance run out:
\* a state with nothing left to do is not an error.
CHECK_DEADLOCK FALSE
