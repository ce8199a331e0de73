SPECIFICATION Spec
CONSTANT ClientRequest <- MCRequest
INVARIANT OwnersMatchFlight
INVARIANT AtMostOnePassed
