------------------------------- MODULE DscInv -------------------------------
(***************************************************************************)
(* The inductive invariant of Dsc.  The properties of Dsc do not carry     *)
(* over a step by themselves: that a trigger may start the first waiter of *)
(* a queue depends on who is in that queue, that a freed context is unused *)
(* depends on who may still name it, and that a flushed context stays      *)
(* quiet depends on what the flushing client holds.  The parts below say   *)
(* these things.                                                           *)
(***************************************************************************)
EXTENDS Dsc

\* Transitions recorded in the tree exclude each other along every branch.
ActiveExcludes ==
  \A n \in Node : \A m \in Up(n) :
    ~(TransActive(active, n) /\ TransActive(active, m))

\* A queue holds the clients that wait on its context, once each.
QueuesWait ==
  \A n \in Node : \A i \in DOMAIN queue[n] :
    /\ Waits(queue[n][i]) /\ at[queue[n][i]] = n
    /\ \A j \in DOMAIN queue[n] : queue[n][i] = queue[n][j] => i = j

\* Only its owner reaches an unregistered context: the owner works on it and
\* nobody waits on it, or holds a transition above it.
OwnedIsReached(c) ==
  \A n \in Node : owner[n] = c =>
    /\ n \in attached
    /\ \/ /\ at[c] = n /\ queue[n] = <<>>
          /\ pc[c] \in {"owner", "trans", "flush", "blocked", "destroy"}
       \/ /\ at[c] \in Up(n) /\ active[at[c]] = c
          /\ pc[c] \in {"trans", "flush", "blocked", "destroy"}

\* Client c owns its context and runs no transition.
OwnsIdle(c) == pc[c] = "owner" \/ (pc[c] = "destroy" /\ on[c] = at[c])

OwnedIdleIsUnused(c) ==
  OwnsIdle(c) => /\ owner[at[c]] = c
                 /\ active[at[c]] = NoClient /\ ops[at[c]] = 0

\* A context under destruction is unused.
DestroyedIsUnused(c) ==
  pc[c] = "destroy" =>
    /\ owner[on[c]] = c /\ at[c] \in Up(on[c]) \cup {on[c]}
    /\ active[on[c]] = NoClient /\ ops[on[c]] = 0

\* A flush stays within the lineage of the holder's transition.
FlushInLineage(c) ==
  /\ todo[c] # {} =>
       pc[c] \in {"flush", "blocked"} /\ todo[c] \subseteq Lineage(at[c])
  /\ quiet[c] # {} =>
       /\ pc[c] \in {"trans", "flush", "blocked", "destroy"}
       /\ active[at[c]] = c /\ quiet[c] \subseteq Lineage(at[c])

\* A client blocked on a context waits for operations on it or is woken.
BlockedIsWoken(c) ==
  pc[c] = "blocked" =>
    /\ on[c] \in Lineage(at[c]) \cap attached
    /\ \A d \in Client : OwnsIdle(d) => at[d] # on[c]
    /\ event[on[c]] <=> ops[on[c]] = 0

\* What holds of each client.
ClientInv(c) ==
  /\ \A n \in Node : active[n] = c <=> RunsTrans(c, n)
  /\ \A n \in quiet[c] : ops[n] = 0
  /\ OwnedIsReached(c) /\ OwnedIdleIsUnused(c) /\ DestroyedIsUnused(c)
  /\ FlushInLineage(c) /\ BlockedIsWoken(c)

\* The inductive invariant.  It implies what DSC's callers rely on:
\* TransExclusion, ActiveIsRunning, OpsCounted, FlushedIsQuiet, NoLostWakeup
\* and FreedIsUnused.
IInv ==
  /\ TypeOK /\ OpsCounted /\ FreedIsUnused
  /\ ActiveExcludes /\ QueuesWait
  /\ \A c \in Client : ClientInv(c)
=============================================================================
