------------------------------ MODULE MCIpaPm ------------------------------
(* An instance of IpaPm: two clients and the ways drivers use them.          *)
EXTENDS IpaPm, TLC
CONSTANTS t1, t2, t3

Nothing == <<{}, {}>>
Suspends == <<{"suspend"}, {"suspend"}>>
Role(one, two, three) ==
  [a \in Thread |-> CASE a = t1 -> one [] a = t2 -> two [] a = t3 -> three]

\* t1 is a work queue or an interrupt, t2 a user process, t3 suspends the system.
Queued == Role(<<{"activate", "deferred"}, {"activate"}>>, Nothing, Nothing)
Turned == Role(<<{"activate", "activateSync", "deferred"}, {}>>, Nothing, Nothing)
Polled == Role(<<{"activateSync", "deferred"}, {}>>, Nothing, Suspends)
Awaited == Role(<<{"activate", "activateSync"}, {"activateSync"}>>, Nothing, Suspends)
Owned == Role(Nothing, <<{}, AllOps \ {"activate", "suspend"}>>, Suspends)

DriverRoles == {Queued, Turned, Polled, Awaited, Owned}
OneEach == [c \in Client |-> c]
Plan == <<2>>
NoUsecase == <<>>
=============================================================================
