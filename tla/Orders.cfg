\* Any three of ten requests on several servers.
SPECIFICATION MCSpec
CONSTANTS
    o1 = o1
    buy1 = buy1
    buy2 = buy2
    new1 = new1
    ok1 = ok1
    ok2 = ok2
    cancel = cancel
    ship = ship
    way1 = way1
    way2 = way2
    bad = bad
    k1 = k1
    k2 = k2
    k3 = k3
    NoKey = NoKey
    NoRequest = NoRequest
    Requests <- MCRequests
    Op <- MCOp
    Key <- MCKey
    Target <- MCTarget
    NewStatus <- MCNewStatus
    Valid = {buy1, buy2, new1, ok1, ok2, cancel, ship, way1, way2}
    Existing = {o1}
    MaxReloads = 2
    MaxActive = 3
    Pairs <- MCPairs
    Groups <- MCGroups
    ChatUsers = {1, 9}
    Chatters = {a1, a2}
    MaxConversations = 2
    MaxMessages = 1
INVARIANTS
    OneEffect
    History
    ChatAgrees
CHECK_DEADLOCK FALSE
