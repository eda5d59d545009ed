SPECIFICATION Spec
CONSTANTS
    d1 = d1
    d2 = d2
    p1 = p1
    w1 = w1
    w2 = w2
    Deliveries <- MCDeliveries
    Endpoints <- MCEndpoints
    EndpointOf <- MCEndpointOf
    Workers <- MCWorkers
    Budget = 1
    Threshold = 2
    MaxMishaps = 1
INVARIANT
    RequeueGetsItsSend
CHECK_DEADLOCK FALSE
