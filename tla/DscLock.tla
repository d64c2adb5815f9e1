------------------------------ MODULE DscLock ------------------------------
(***************************************************************************)
(* What DSC promises its callers: a lock on the contexts of a tree.  A     *)
(* context is held by at most one client, and by none while another        *)
(* context above or below it is held; it is shared by any number of        *)
(* clients that came while nothing on its branch was held.  A holder may   *)
(* drain a context of its branch: nobody shares it then, nor later, until  *)
(* the holder lets go.  A context can be taken away only when nobody       *)
(* holds, shares or has drained it.  Queues, events, counters, wake-ups    *)
(* and the registry are not part of the promise.                           *)
(***************************************************************************)
CONSTANTS Node, Client, NoClient,
          Branch(_)     \* the contexts above a context, below it, and itself

VARIABLES live,     \* contexts that exist
          holder,   \* the client that holds a context, or NoClient
          sharers,  \* the clients that share it
          drained   \* the contexts each holder has drained

lockVars == <<live, holder, sharers, drained>>

\* No two held contexts lie on one branch, and no client holds two.
Exclusive(h) ==
  \A n, m \in Node : n # m /\ h[n] # NoClient /\ h[m] # NoClient
                       => m \notin Branch(n) /\ h[n] # h[m]

Uses(c) == \E n \in Node : holder[n] = c \/ c \in sharers[n]

LockInit ==
  /\ live \subseteq Node
  /\ holder = [n \in Node |-> NoClient]
  /\ sharers = [n \in Node |-> {}]
  /\ drained = [c \in Client |-> {}]

\* Contexts that nobody held are granted to clients that used nothing: from
\* the holders h, the next holders are reached.
Grants(h) ==
  /\ holder' \in [Node -> Client \cup {NoClient}]
  /\ \A n \in Node : holder'[n] # h[n] =>
       /\ n \in live /\ h[n] = NoClient /\ holder'[n] # NoClient
       /\ ~Uses(holder'[n])
  /\ Exclusive(holder')

Hold(c, n) ==
  /\ holder' = [holder EXCEPT ![n] = c]
  /\ Grants(holder)
  /\ UNCHANGED <<live, sharers, drained>>

\* A holder lets go, and the lock is handed to any number of others.
Release(c, n) ==
  /\ holder[n] = c
  /\ Grants([holder EXCEPT ![n] = NoClient])
  /\ drained' = [drained EXCEPT ![c] = {}]
  /\ UNCHANGED <<live, sharers>>

Share(c, n) ==
  /\ sharers' = [sharers EXCEPT ![n] = @ \cup {c}]
  /\ n \in live /\ ~Uses(c)
  /\ \A m \in Branch(n) : holder[m] = NoClient
  /\ UNCHANGED <<live, holder, drained>>

Unshare(c, n) ==
  /\ c \in sharers[n]
  /\ sharers' = [sharers EXCEPT ![n] = @ \ {c}]
  /\ UNCHANGED <<live, holder, drained>>

Drain(c, n) ==
  /\ drained' = [drained EXCEPT ![c] = @ \cup {n}]
  /\ \E m \in Branch(n) : holder[m] = c
  /\ sharers[n] = {}
  /\ UNCHANGED <<live, holder, sharers>>

Appear(n) ==
  /\ n \notin live
  /\ live' = live \cup {n}
  /\ UNCHANGED <<holder, sharers, drained>>

\* Whoever takes a context away forgets that it was drained.
Vanish(c, n) ==
  /\ n \in live /\ live' = live \ {n}
  /\ holder[n] = NoClient /\ sharers[n] = {}
  /\ drained' = [drained EXCEPT ![c] = @ \ {n}]
  /\ UNCHANGED <<holder, sharers>>

LockNext ==
  \/ \E c \in Client, n \in Node :
       \/ Hold(c, n) \/ Release(c, n) \/ Share(c, n) \/ Unshare(c, n)
       \/ Drain(c, n) \/ Vanish(c, n)
  \/ \E n \in Node : Appear(n)

LockSpec == LockInit /\ [][LockNext]_lockVars
=============================================================================
