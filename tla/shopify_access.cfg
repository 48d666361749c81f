SPECIFICATION Spec
CONSTANTS
    n1 = n1
    w1 = w1
    w2 = w2
    SecretUsers = {n1, w1, w2}
    Ttl = 2
    Versions = 2
    Notices = {n1}
    Failures = 1
    Callers = {w1, w2}
    NoCaller = NoCaller
    TokenTtl = 4
    Buffer = 2
    Revocations = 1
INVARIANTS
    AcceptedIsKept
    OneExchange
    ServedTokensLive
PROPERTIES
    DeliveriesArrive
    CallsGetThrough
