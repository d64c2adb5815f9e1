-------------------------------- MODULE IpaPm --------------------------------
(***************************************************************************)
(* The IPA power manager: clients vote for the clock of the IPA core, at   *)
(* once or through a work queue, give their vote up at once or by a timer, *)
(* and every change rescales the clock.                                    *)
(*                                                                         *)
(* A call is a program of steps, each the code between two releases of the *)
(* client's lock or one blocking call.  The programs of the callers and of *)
(* the single worker of the queue interleave.                              *)
(***************************************************************************)
EXTENDS Integers, Sequences, FiniteSets, SequencesExt

CONSTANTS
  N,            \* the clients are 1..N, their handles
  Thread,
  Frozen,       \* user processes, which are frozen before the callbacks are called
  Roles,        \* the ways the threads use the clients: the calls each makes for each
  Skip,         \* clients that may be registered with skip_clk_vote
  Apps,         \* clients of the group with wake sources, IPA_PM_GROUP_APPS
  Group,        \* client -> the index of its throughput: its own or its group's
  Tputs,        \* throughputs that are set
  Default,      \* default_threshold
  Usecases      \* the exceptions: their clients and thresholds, in order

Client == 1..N
AllOps == {"activate", "activateSync", "deferred", "deactivateSync", "teardown",
           "register", "setThroughput", "suspend"}

ASSUME IpaPmAssumption ==
  /\ N \in Nat \ {0} /\ Roles \subseteq [Thread -> [Client -> SUBSET AllOps]]
  /\ Skip \subseteq Client /\ Apps \subseteq Client
  /\ "worker" \notin Thread
  /\ Frozen \subseteq Thread
  /\ Group \in [Client -> Nat] /\ Tputs \subseteq Nat /\ Default \in Seq(Nat)
  /\ \A i \in DOMAIN Usecases :
       Usecases[i].clients \subseteq Client /\ Usecases[i].th \in Seq(Nat)

VARIABLES
  cl,     \* struct ipa_pm_client and the client's bit and clock votes
  tput,   \* throughput and group_tput
  clk,    \* ipa_clk_vote, the vote of others than the clients, and clock scaling:
          \* its work, the threshold and the index
  ag,     \* the threads and the worker: what they have yet to do
  role    \* the way the threads use the clients

vars == <<cl, tput, clk, ag, role>>

Agent == Thread \cup {"worker"}

\* IPA_PM_STATE_IN_PROGRESS and IPA_PM_STATE_ACTIVE.
InProgress == {"activating", "deactivating"}
Active == {"active", "pending", "timerset", "resched"}

Registered == [reg |-> TRUE, st |-> "off", done |-> FALSE, timer |-> FALSE,
               work |-> FALSE, bit |-> FALSE, votes |-> 0, wake |-> FALSE,
               skip |-> FALSE, hasty |-> FALSE]

\* History: hasty, the synchronous activation did not await the rest of the
\* deactivation before it, which still has the vote, the wake source or the bit
\* of the client to take back.

\* All clients are registered and have set their throughputs.
Init ==
  /\ \E skip \in SUBSET Skip :
       cl = [c \in Client |-> [Registered EXCEPT !.skip = c \in skip]]
  /\ tput \in [{Group[c] : c \in Client} -> Tputs]
  /\ role \in Roles
  /\ clk = [on |-> FALSE, other |-> FALSE, work |-> FALSE, th |-> 0, idx |-> 0]
  /\ ag = [a \in Agent |-> [todo |-> <<>>, job |-> <<>>, tput |-> 0]]

\* ipa3_active_clients.cnt: the votes of the clients and of others.
Votes == FoldFunction(LAMBDA x, n : x.votes + n, IF clk.other THEN 1 ELSE 0, cl)

At(a, s, c) == ag[a].todo # <<>> /\ Head(ag[a].todo) = <<s, c>>

\* The steps s, for client c, replace the one that is taken.
Steps(s, c) == [i \in DOMAIN s |-> <<s[i], c>>]
Goto(a, s, c) == ag' = [ag EXCEPT ![a].todo = Steps(s, c) \o Tail(@)]

\* How often the agents have yet to take step s for client c.
Due(s, c) ==
  Cardinality({x \in UNION {{a} \X DOMAIN ag[a].todo : a \in Agent} :
                 ag[x[1]].todo[x[2]] = <<s, c>>})

Hasty(c) == Due("devote", c) + Due("gate", c) + Due("bitOff", c) > 0

\* The mutex of ipa3_active_clients.
MutexFree == \A c \in Client : Due("count", c) + Due("gate", c) = 0

-----------------------------------------------------------------------------
(* The parts the calls are made of.                                        *)

\* IPA_ACTIVE_CLIENTS_INC and __pm_stay_awake, unless the client does not vote.
Voted(x) == IF x.skip THEN x ELSE [x EXCEPT !.votes = @ + 1]
Awake(x, c) == [x EXCEPT !.wake = @ \/ c \in Apps]

\* Slip: the wake source is not relaxed.
RelaxedNot(x) == x

\* __pm_relax.
Relaxed(x) == [x EXCEPT !.wake = FALSE]

Counted(a, c) == IF a = "worker" THEN Awake(Voted(cl[c]), c) ELSE Voted(cl[c])

\* ipa3_inc_client_enable_clks: whoever is the first turns the clock on, with
\* the mutex, before the vote counts.
Vote(a, c) ==
  /\ At(a, "vote", c)
  /\ \/ /\ cl[c].skip \/ Votes > 0
        /\ cl' = [cl EXCEPT ![c] = IF @.skip THEN @ ELSE Counted(a, c)]
        /\ Goto(a, <<>>, c) /\ UNCHANGED clk
     \/ /\ ~cl[c].skip /\ Votes = 0 /\ MutexFree
        /\ clk' = [clk EXCEPT !.on = TRUE]
        /\ Goto(a, <<"count">>, c) /\ UNCHANGED cl
  /\ UNCHANGED tput

Count(a, c) ==
  /\ At(a, "count", c)
  /\ cl' = [cl EXCEPT ![c] = Counted(a, c)]
  /\ Goto(a, <<>>, c) /\ UNCHANGED <<tput, clk>>

\* ipa3_dec_client_disable_clks: whoever is the last turns the clock off, with
\* the mutex, after its vote is gone.
Devote(a, c) ==
  /\ At(a, "devote", c)
  /\ \/ /\ cl[c].skip /\ Goto(a, <<>>, c) /\ UNCHANGED cl
     \/ /\ ~cl[c].skip /\ Votes > 1
        /\ cl' = [cl EXCEPT ![c] = [Relaxed(@) EXCEPT !.votes = @ - 1]]
        /\ Goto(a, <<>>, c)
     \/ /\ ~cl[c].skip /\ Votes = 1 /\ MutexFree
        /\ cl' = [cl EXCEPT ![c].votes = @ - 1]
        /\ Goto(a, <<"gate">>, c)
  /\ UNCHANGED <<tput, clk>>

\* ipa3_disable_clks and, after it, __pm_relax.
Gate(a, c) ==
  /\ At(a, "gate", c)
  /\ clk' = [clk EXCEPT !.on = FALSE, !.idx = 0]
  /\ cl' = [cl EXCEPT ![c] = Relaxed(@)]
  /\ Goto(a, <<>>, c) /\ UNCHANGED tput

\* Other code of the IPA driver that needs the clock, without the manager.
OtherVote ==
  /\ ~clk.other /\ (Votes > 0 \/ MutexFree)
  /\ clk' = [clk EXCEPT !.other = TRUE, !.on = TRUE]
  /\ UNCHANGED <<cl, tput, ag>>

OtherDevote ==
  /\ clk.other
  /\ \/ Votes > 1 /\ clk' = [clk EXCEPT !.other = FALSE]
     \/ /\ Votes = 1 /\ MutexFree
        /\ clk' = [clk EXCEPT !.other = FALSE, !.on = FALSE, !.idx = 0]
  /\ UNCHANGED <<cl, tput, ag>>

\* activate_client and deactivate_client.
SetBit(a, c) ==
  /\ At(a, "bitOn", c) \/ At(a, "bitOff", c)
  /\ cl' = [cl EXCEPT ![c].bit = At(a, "bitOn", c)]
  /\ Goto(a, <<>>, c) /\ UNCHANGED <<tput, clk>>

\* wait_for_completion.
Await(a, c) ==
  /\ At(a, "await", c) /\ cl[c].done
  /\ Goto(a, <<>>, c) /\ UNCHANGED <<cl, tput, clk>>

\* Slip: cancel_delayed_work, which does not wait for the work that runs.
CancelNoWait(a, c) ==
  /\ At(a, "cancel", c)
  /\ cl' = [cl EXCEPT ![c].timer = FALSE]
  /\ Goto(a, <<>>, c) /\ UNCHANGED <<tput, clk>>

\* cancel_delayed_work_sync.
Cancel(a, c) ==
  /\ At(a, "cancel", c) /\ ag["worker"].job # <<"timer", c>>
  /\ cl' = [cl EXCEPT ![c].timer = FALSE]
  /\ Goto(a, <<>>, c) /\ UNCHANGED <<tput, clk>>

-----------------------------------------------------------------------------
(* Clock scaling.                                                          *)

IndexOfMax(s) == CHOOSE i \in DOMAIN s : \A j \in DOMAIN s : s[i] >= s[j]

\* The loop of calculate_throughput: the two largest are taken, the second
\* counts and the difference goes back.
Aggregate[s \in Seq(Nat)] ==
  IF Len(s) <= 1 THEN 0
  ELSE LET i == IndexOfMax(s)
           t == RemoveAt(s, i)
           j == IndexOfMax(t)
       IN  t[j] + Aggregate[Append(RemoveAt(t, j), s[i] - t[j])]

\* calculate_throughput: every active client, a group once.
CalculateThroughput ==
  LET voting == {Group[c] : c \in {d \in Client : cl[d].reg /\ cl[d].st \in Active}}
      order  == SetToSeq(voting)
  IN  Aggregate[[i \in DOMAIN order |-> tput[order[i]]]]

\* add_client_to_exception_list: a registered client is found in a use case
\* that is its name and nothing else.
Listed(u, c) == cl[c].reg /\ Usecases[u].clients = {c}

\* set_current_threshold: the first use case that lacks no client and no bit,
\* 0 for the default.
Passes(u) == \A c \in Usecases[u].clients : Listed(u, c) /\ cl[c].bit
CurrentThreshold == SelectInSeq([u \in DOMAIN Usecases |-> u], Passes)

Threshold(th) == IF th = 0 THEN Default ELSE Usecases[th].th

\* The index of the clock plan for a throughput.
ClockIndex(n, th) == 1 + Cardinality({i \in DOMAIN Threshold(th) : n >= Threshold(th)[i]})

\* do_clk_scaling: not while the clock is gated, which is tested without a lock.
Scale(a, c) ==
  /\ At(a, "scale", c)
  /\ Goto(a, IF clk.on THEN <<"calculate">> ELSE <<>>, c)
  /\ UNCHANGED <<cl, tput, clk>>

\* What it does with the mutex of the clients.
Calculate(a, c) ==
  /\ At(a, "calculate", c)
  /\ ag' = [ag EXCEPT ![a].todo = <<<<"setIndex", c>>>> \o Tail(@),
                      ![a].tput = CalculateThroughput]
  /\ clk' = [clk EXCEPT !.th = CurrentThreshold]
  /\ UNCHANGED <<cl, tput>>

\* The rest of it, without.
SetIndex(a, c) ==
  /\ At(a, "setIndex", c)
  /\ clk' = [clk EXCEPT !.idx = ClockIndex(ag[a].tput, clk.th)]
  /\ ag' = [ag EXCEPT ![a].todo = Tail(@), ![a].tput = 0] /\ UNCHANGED <<cl, tput>>

QueueScale(a, c) ==
  /\ At(a, "queueScale", c)
  /\ clk' = [clk EXCEPT !.work = TRUE]
  /\ Goto(a, <<>>, c) /\ UNCHANGED <<cl, tput>>

-----------------------------------------------------------------------------
(* The calls.                                                              *)

\* What a call begins with.  The drivers deregister a client after they have
\* deactivated it.
Program(op, c) ==
  CASE op = "deactivateSync" -> Steps(<<"cancel", "test", "deactivate">>, c)
    [] op = "teardown" -> Steps(<<"cancel", "test", "deactivate", "deregister">>, c)
    [] OTHER -> <<<<op, c>>>>

\* The threads that call the suspend callbacks.
Suspender == {a \in Thread : \E c \in Client : "suspend" \in role[a][c]}

Idle(S) == \A a \in S : ag[a].todo = <<>>

Call(a, op, c) ==
  /\ op \in role[a][c] \ {"suspend"} /\ ag[a].todo = <<>>
  /\ a \in Frozen => Idle(Suspender)
  /\ (op = "register") # cl[c].reg
  /\ ag' = [ag EXCEPT ![a].todo = Program(op, c)]
  /\ UNCHANGED <<cl, tput, clk>>

\* The system suspends: ipa3_ap_suspend and ipa_pm_deactivate_all_deferred.  The
\* user processes have left the kernel by then, the work queues go on.
Suspend(a) ==
  /\ a \in Suspender /\ ag[a].todo = <<>> /\ Idle(Frozen)
  /\ ag' = [ag EXCEPT ![a].todo = [i \in 1..N |-> <<"deferredOf", i>>]]
  /\ UNCHANGED <<cl, tput, clk>>

\* ipa_pm_activate_helper for a client that has the clock: a timer that runs
\* will find it active.
Reactivated(x) ==
  IF x.st \in {"pending", "resched"} THEN [x EXCEPT !.st = "timerset"] ELSE x

\* ipa_pm_activate: an activation in progress goes on; if the clock is on its
\* vote is added at once, otherwise the work queue turns it on.
Activate(a, c) ==
  /\ At(a, "activate", c)
  /\ \/ /\ cl[c].st \in InProgress
        /\ cl' = [cl EXCEPT ![c].st = "activating"]
        /\ Goto(a, <<>>, c)
     \/ /\ cl[c].st \in Active
        /\ cl' = [cl EXCEPT ![c] = Reactivated(@)]
        /\ Goto(a, <<>>, c)
     \/ /\ cl[c].st = "off" /\ (Votes > 0 \/ cl[c].skip)
        /\ cl' = [cl EXCEPT ![c] = [Awake(Voted(@), c) EXCEPT !.st = "active"]]
        /\ Goto(a, <<"bitOn", "queueScale">>, c)
     \/ /\ cl[c].st = "off" /\ Votes = 0 /\ ~cl[c].skip
        /\ cl' = [cl EXCEPT ![c] = [@ EXCEPT !.st = "activating", !.done = FALSE,
                                             !.work = TRUE]]
        /\ Goto(a, <<>>, c)
  /\ UNCHANGED <<tput, clk>>

\* ipa_pm_activate_sync: an activation in progress is waited for; the clock is
\* turned on by the caller, which leaves the lock meanwhile.
ActivateSync(a, c) ==
  /\ At(a, "activateSync", c) \/ At(a, "activateAgain", c)
  /\ \/ /\ cl[c].st \in InProgress
        /\ Goto(a, IF At(a, "activateSync", c) THEN <<"await", "activateAgain">> ELSE <<>>, c)
        /\ UNCHANGED cl
     \/ /\ cl[c].st \in Active
        /\ cl' = [cl EXCEPT ![c] = Reactivated(@)]
        /\ Goto(a, <<>>, c)
     \/ /\ cl[c].st = "off" /\ ~cl[c].skip
        /\ cl' = [cl EXCEPT ![c] = [@ EXCEPT !.st = "activating", !.hasty = Hasty(c)]]
        /\ Goto(a, <<"vote", "gotClocks">>, c)
     \/ /\ cl[c].st = "off" /\ cl[c].skip
        /\ cl' = [cl EXCEPT ![c] = [Awake(@, c) EXCEPT !.st = "active", !.hasty = Hasty(c)]]
        /\ Goto(a, <<"bitOn", "scale">>, c)
  /\ UNCHANGED <<tput, clk>>

GotClocks(a, c) ==
  /\ At(a, "gotClocks", c)
  /\ cl' = [cl EXCEPT ![c] = [Awake(@, c) EXCEPT !.st = "active"]]
  /\ Goto(a, <<"bitOn", "scale">>, c) /\ UNCHANGED <<tput, clk>>

\* ipa_pm_deferred_deactivate.
Deferred(x) ==
  CASE x.st = "activating" -> [x EXCEPT !.st = "deactivating"]
    [] x.st = "active"     -> [x EXCEPT !.st = "pending", !.timer = TRUE]
    [] x.st \in {"timerset", "pending"} -> [x EXCEPT !.st = "resched"]
    [] OTHER -> x

DeferredDeactivate(a, c) ==
  /\ At(a, "deferred", c)
  /\ cl' = [cl EXCEPT ![c] = Deferred(@)]
  /\ Goto(a, <<>>, c) /\ UNCHANGED <<tput, clk>>

\* ipa_pm_deactivate_sync: the state is tested without the lock.
Test(a, c) ==
  /\ At(a, "test", c)
  /\ Goto(a, IF cl[c].st \in InProgress THEN <<"await">> ELSE <<>>, c)
  /\ UNCHANGED <<cl, tput, clk>>

\* The vote is withdrawn before the state says so.
Deactivate(a, c) ==
  /\ At(a, "deactivate", c)
  /\ Goto(a, IF cl[c].st = "off" THEN <<>>
             ELSE <<"devote", "setOff", "cancel", "bitOff", "scale">>, c)
  /\ UNCHANGED <<cl, tput, clk>>

SetOff(a, c) ==
  /\ At(a, "setOff", c)
  /\ cl' = [cl EXCEPT ![c].st = "off"]
  /\ Goto(a, <<>>, c) /\ UNCHANGED <<tput, clk>>

\* ipa_pm_deactivate_all_deferred, one client after the other: its timer is
\* cancelled, an activation in progress is waited for and left alone.
DeferredOf(a, c) ==
  /\ At(a, "deferredOf", c)
  /\ Goto(a, IF cl[c].reg THEN <<"cancel", "skip">> ELSE <<>>, c)
  /\ UNCHANGED <<cl, tput, clk>>

SkipClient(a, c) ==
  /\ At(a, "skip", c)
  /\ Goto(a, IF cl[c].st \in InProgress THEN <<"await">> ELSE <<"deactivateDeferred">>, c)
  /\ UNCHANGED <<cl, tput, clk>>

\* The clock is scaled once, in the end.
DeactivateDeferred(a, c) ==
  /\ At(a, "deactivateDeferred", c)
  /\ \/ /\ cl[c].st \in {"pending", "resched"}
        /\ cl' = [cl EXCEPT ![c].st = "off"]
        /\ LET rest == SelectSeq(Tail(ag[a].todo), LAMBDA s : s[1] # "scale")
           IN  ag' = [ag EXCEPT ![a].todo =
                        Steps(<<"devote", "bitOff">>, c) \o rest \o <<<<"scale", 1>>>>]
     \/ /\ cl[c].st \notin {"pending", "resched"}
        /\ cl' = IF cl[c].st = "timerset" THEN [cl EXCEPT ![c].st = "active"] ELSE cl
        /\ Goto(a, <<>>, c)
  /\ UNCHANGED <<tput, clk>>

\* ipa_pm_set_throughput.
SetThroughput(a, c) ==
  /\ At(a, "setThroughput", c)
  /\ \E n \in Tputs : tput' = [tput EXCEPT ![Group[c]] = n]
  /\ Goto(a, <<"rescale">>, c) /\ UNCHANGED <<cl, clk>>

Rescale(a, c) ==
  /\ At(a, "rescale", c)
  /\ Goto(a, IF cl[c].st \in Active \/ Group[c] # c THEN <<"scale">> ELSE <<>>, c)
  /\ UNCHANGED <<cl, tput, clk>>

\* ipa_pm_deregister: an activation in progress is waited for, an active client
\* is refused.
Deregister(a, c) ==
  /\ At(a, "deregister", c) \/ At(a, "deregisterAgain", c)
  /\ Goto(a, IF cl[c].st \in InProgress /\ At(a, "deregister", c)
             THEN <<"await", "deregisterAgain">>
             ELSE IF cl[c].st \in Active THEN <<>> ELSE <<"free">>, c)
  /\ UNCHANGED <<cl, tput, clk>>

\* The bit of the client is not touched, and neither are its works.
Free(a, c) ==
  /\ At(a, "free", c)
  /\ cl' = [cl EXCEPT ![c].reg = FALSE]
  /\ Goto(a, <<>>, c) /\ UNCHANGED <<tput, clk>>

\* ipa_pm_register: a client has the same handle each time it registers.
Register(a, c) ==
  /\ At(a, "register", c)
  /\ cl' = IF cl[c].reg THEN cl
           ELSE [cl EXCEPT ![c] = [Registered EXCEPT !.bit = cl[c].bit, !.skip = cl[c].skip]]
  /\ tput' = IF cl[c].reg \/ Group[c] # c THEN tput ELSE [tput EXCEPT ![c] = 0]
  /\ Goto(a, <<>>, c) /\ UNCHANGED clk

-----------------------------------------------------------------------------
(* The worker.                                                             *)

Work(job, s, c) ==
  /\ ag["worker"].todo = <<>>
  /\ ag' = [ag EXCEPT !["worker"].todo = Steps(s, c), !["worker"].job = job]

BeginActivate(c) ==
  /\ cl[c].work
  /\ cl' = [cl EXCEPT ![c].work = FALSE]
  /\ Work(<<"activate", c>>, <<"vote", "activated">>, c)
  /\ UNCHANGED <<tput, clk>>

BeginTimer(c) ==
  /\ cl[c].timer
  /\ cl' = [cl EXCEPT ![c].timer = FALSE]
  /\ Work(<<"timer", c>>, <<"timeout">>, c)
  /\ UNCHANGED <<tput, clk>>

\* clock_scaling_func.
BeginScale ==
  /\ clk.work
  /\ clk' = [clk EXCEPT !.work = FALSE]
  /\ Work(<<"scale">>, <<"scale">>, 1)
  /\ UNCHANGED <<cl, tput>>

\* activate_work_func: the waiters are told before the bit is set.
Activated(c) ==
  /\ At("worker", "activated", c)
  /\ cl' = [cl EXCEPT ![c].st = IF @ = "activating" THEN "active"
                                ELSE IF @ = "deactivating" THEN "off" ELSE @]
  /\ Goto("worker", IF cl[c].st = "deactivating" THEN <<"complete", "devote">>
                    ELSE <<"complete", "bitOn", "scale">>, c)
  /\ UNCHANGED <<tput, clk>>

Complete(c) ==
  /\ At("worker", "complete", c)
  /\ cl' = [cl EXCEPT ![c].done = TRUE]
  /\ Goto("worker", <<>>, c) /\ UNCHANGED <<tput, clk>>

\* Slip: the timer is not set again for a client that was deferred twice.
TimeoutNoTimer(c) ==
  /\ At("worker", "timeout", c)
  /\ \/ /\ cl[c].st = "pending"
        /\ cl' = [cl EXCEPT ![c].st = "off"]
        /\ Goto("worker", <<"devote", "bitOff", "scale">>, c)
     \/ /\ cl[c].st # "pending"
        /\ cl' = [cl EXCEPT ![c].st = IF @ = "timerset" THEN "active"
                                      ELSE IF @ = "resched" THEN "pending" ELSE @]
        /\ Goto("worker", <<>>, c)
  /\ UNCHANGED <<tput, clk>>

\* delayed_deferred_deactivate_work_func.
Timeout(c) ==
  /\ At("worker", "timeout", c)
  /\ \/ /\ cl[c].st = "pending"
        /\ cl' = [cl EXCEPT ![c].st = "off"]
        /\ Goto("worker", <<"devote", "bitOff", "scale">>, c)
     \/ /\ cl[c].st = "resched"
        /\ cl' = [cl EXCEPT ![c].st = "pending", ![c].timer = TRUE]
        /\ Goto("worker", <<>>, c)
     \/ /\ cl[c].st \notin {"pending", "resched"}
        /\ cl' = [cl EXCEPT ![c].st = IF @ = "timerset" THEN "active" ELSE @]
        /\ Goto("worker", <<>>, c)
  /\ UNCHANGED <<tput, clk>>

WorkEnd ==
  /\ ag["worker"].todo = <<>> /\ ag["worker"].job # <<>>
  /\ ag' = [ag EXCEPT !["worker"].job = <<>>]
  /\ UNCHANGED <<cl, tput, clk>>

-----------------------------------------------------------------------------
Part(a, c) ==
  \/ Vote(a, c) \/ Count(a, c) \/ Devote(a, c) \/ Gate(a, c) \/ SetBit(a, c)
  \/ Scale(a, c) \/ Calculate(a, c) \/ SetIndex(a, c)

\* The next step of a caller is for client c.
Serves(a, c) == ag[a].todo # <<>> /\ Head(ag[a].todo)[2] = c

Step(a, c) ==
  /\ Serves(a, c)
  /\ \/ Part(a, c) \/ Await(a, c) \/ Cancel(a, c) \/ QueueScale(a, c)
     \/ Activate(a, c) \/ ActivateSync(a, c) \/ GotClocks(a, c) \/ DeferredDeactivate(a, c)
     \/ Test(a, c) \/ Deactivate(a, c) \/ SetOff(a, c) \/ DeferredOf(a, c) \/ SkipClient(a, c)
     \/ DeactivateDeferred(a, c) \/ SetThroughput(a, c) \/ Rescale(a, c)
     \/ Deregister(a, c) \/ Free(a, c) \/ Register(a, c)

Worker ==
  \/ WorkEnd \/ BeginScale
  \/ \E c \in Client :
       \/ Part("worker", c) \/ Activated(c) \/ Complete(c) \/ Timeout(c)
       \/ BeginActivate(c) \/ BeginTimer(c)

Next ==
  /\ \/ \E a \in Thread, c \in Client : Step(a, c) \/ \E op \in AllOps : Call(a, op, c)
     \/ \E a \in Thread : Suspend(a)
     \/ Worker \/ OtherVote \/ OtherDevote
  /\ UNCHANGED role

Spec == Init /\ [][Next]_vars

\* Fairness: the steps of a call and the worker, and the queue, which is first
\* in, first out.
FairSpec ==
  /\ Spec /\ WF_vars(Worker /\ UNCHANGED role)
  /\ \A c \in Client : /\ SF_vars(BeginActivate(c) /\ UNCHANGED role)
                        /\ SF_vars(BeginTimer(c) /\ UNCHANGED role)
  /\ \A a \in Thread : WF_vars((\E c \in Client : Step(a, c)) /\ UNCHANGED role)

-----------------------------------------------------------------------------
(* Properties.                                                             *)

\* The type invariant.
IpaPmTypeOK ==
  /\ \A c \in Client :
       /\ cl[c].st \in {"off"} \cup InProgress \cup Active
       /\ cl[c].votes \in Nat
       /\ \A f \in {"reg", "done", "timer", "work", "bit", "wake", "skip", "hasty"} : cl[c][f] \in BOOLEAN
  /\ \A g \in DOMAIN tput : tput[g] \in Nat
  /\ clk.on \in BOOLEAN /\ clk.other \in BOOLEAN /\ clk.work \in BOOLEAN /\ clk.th \in 0..Len(Usecases) /\ clk.idx \in Nat
  /\ \A a \in Agent : ag[a].tput \in Nat

\* The clock votes of a client are those its state stands for, whoever is on
\* the way to add one or to withdraw one: no vote is lost, and none is
\* withdrawn twice (ipa_pm_activate_helper, activate_work_func and the three
\* ways to deactivate).
VotesAccounted ==
  \A c \in Client : ~cl[c].skip =>
    cl[c].votes = (IF cl[c].st \in Active THEN 1 ELSE 0) + Due("devote", c) - Due("setOff", c)
                  + Due("gotClocks", c) + Due("activated", c) - Due("vote", c) - Due("count", c)

\* A client in one of the "timer set states" has its timer, or the work of the
\* timer or a call that has cancelled it is about to look at the state: a
\* deferred deactivation cannot be forgotten.
TimerOwed ==
  \A c \in Client : cl[c].st \in {"pending", "timerset", "resched"} =>
    \/ cl[c].timer
    \/ \E s \in {"timeout", "skip", "deactivateDeferred", "test", "deactivate", "setOff"} :
         Due(s, c) > 0

\* The clock runs while there are votes, and whoever turns it on or off is
\* alone with it (ipa3_inc_client_enable_clks, ipa3_dec_client_disable_clks).
ClockOn ==
  /\ Votes > 0 => clk.on
  /\ clk.on /\ MutexFree => Votes > 0

\* The work that activates a client finds its activation in progress, whoever
\* has called it off or revived it meanwhile; the work of the timer finds the
\* timer expected, unless a suspend has turned the client off after the timer
\* was set behind its back: the WARN_ON(1) of activate_work_func is not met, that
\* of delayed_deferred_deactivate_work_func only beside a suspend.
StateExpected ==
  \A c \in Client :
    /\ At("worker", "activated", c) => cl[c].st \in InProgress
    /\ At("worker", "timeout", c) /\ Suspender = {} =>
         cl[c].st \in {"pending", "timerset", "resched"}

\* What uses the client structure, after the call has found it.
Using == {"vote", "count", "devote", "gate", "bitOn", "complete", "await", "cancel", "test", "deactivate",
          "setOff", "skip", "deactivateDeferred", "activateAgain", "gotClocks",
          "rescale", "deregisterAgain", "activated", "timeout"}

\* A client that is freed is used by nobody, and nothing of it is queued
\* (ipa_pm_deregister).
FreedIsUnused ==
  \A c \in Client : ~cl[c].reg =>
    ~cl[c].timer /\ ~cl[c].work /\ \A s \in Using : Due(s, c) = 0

\* A client's state, its votes, its timer and whoever works on it agree.
PmInv ==
  IpaPmTypeOK /\ VotesAccounted /\ ClockOn /\ TimerOwed /\ StateExpected /\ FreedIsUnused

\* No call and no work is under way or queued.
Quiet ==
  /\ \A a \in Agent : ag[a].todo = <<>>
  /\ ~clk.work /\ \A c \in Client : ~cl[c].work

\* Clients that are only activated by callers, and their state when all is
\* quiet, but for the one that was activated in haste.
Synchronous == {c \in Client : \A a \in Thread : "activate" \notin role[a][c]}
Settled(c) == Quiet /\ ~(cl[c].hasty /\ cl[c].st \in Active)

\* When all is quiet the wake source of a client of the group that has them is
\* held while the client is active and not longer (__pm_stay_awake, __pm_relax),
\* but for a client that does not vote: its wake source is never relaxed.
WakeHeld ==
  \A c \in Apps \cap Synchronous :
    Settled(c) /\ ~cl[c].skip => (cl[c].wake <=> cl[c].st \in Active)

\* When all is quiet the bit mask of the active clients, which decides the
\* threshold of the clock, agrees with their states (activate_client,
\* deactivate_client and the freed client's bit, which ipa_pm_deregister leaves).
BitsFit == \A c \in Synchronous : Settled(c) => (cl[c].bit <=> cl[c].st \in Active)

\* Votes have their effects: the wake source and the bit of a client fit its
\* state when all is quiet.
EffectsFit == WakeHeld /\ BitsFit

\* What is left to the queue and to the timers gets done: an activation ends,
\* whether or not it was called off meanwhile, and a client that awaits its
\* deactivation is deactivated or used again.
WorkIsDone ==
  \A c \in Client : cl[c].st \in InProgress \cup {"pending"}
    ~> cl[c].st \notin InProgress \cup {"pending"}
=============================================================================
