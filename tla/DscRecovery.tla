----------------------------- MODULE DscRecovery -----------------------------
(***************************************************************************)
(* Sub-system restart (SSR) on top of DSC.  The psoc transition of an SSR  *)
(* is started by hdd_soc_recovery_shutdown and stopped, in a later         *)
(* callback, by hdd_soc_recovery_reinit.  When both run on the transition  *)
(* the first one started, the recovering client is an ordinary client of   *)
(* Dsc that starts and stops a psoc transition.  This module adds the      *)
(* other case: shutdown returns early because a driver transition is       *)
(* active or waited for, and re-init runs all the same.                    *)
(***************************************************************************)
EXTENDS Dsc

VARIABLE ssr  \* per client, the psocs whose shutdown phase was refused

rvars == <<vars, ssr>>

RecoveryInit == Init /\ ssr = [c \in Client |-> {}]

\* osif_psoc_sync_trans_start_wait fails and the callback returns.
SocRecoveryShutdownRefused(c, p) ==
  /\ MayCall(c, p) /\ "unloading" \notin flags
  /\ PsocCanTrans(p) = "E_INVAL"
  /\ ssr[c] = {} /\ ssr' = [ssr EXCEPT ![c] = {p}]
  /\ UNCHANGED vars

\* The resume only asserts that the psoc or the driver is in transition, and
\* the stop ends whichever of the two it finds.
SocRecoveryReinit(c, p) ==
  LET n == PsocStopped(p)
  IN /\ p \in ssr[c] /\ Usable(p) /\ "unloading" \notin flags
     /\ TransActive(active, p) \/ TransActive(active, Driver)
     /\ TransTrigger(TransStop(n), PsocTriggerTrans(TransStop(n), p))
     /\ ssr' = [ssr EXCEPT ![c] = {}]
     /\ UNCHANGED <<ctxVars, opsVars, flags, pc, at, walkVars>>

RecoveryNext ==
  \/ DriverStateChange /\ UNCHANGED ssr
  \/ \E c \in Client :
       \/ ssr[c] = {} /\ ClientStep(c) /\ UNCHANGED ssr
       \/ \E p \in Psocs :
            SocRecoveryShutdownRefused(c, p) \/ SocRecoveryReinit(c, p)

RecoverySpec == RecoveryInit /\ [][RecoveryNext]_rvars
=============================================================================
