----------------------------- MODULE EnvmUsers -----------------------------
(***************************************************************************)
(* The System Services driver and the eNVM driver in one program: a main    *)
(* loop calls both, one call at a time, but an ISP goes on behind the call   *)
(* that started it, and the interrupts of the COMM_BLK come whenever they    *)
(* like.  Both save ENVM_CR, overwrite it and put back what they saved.      *)
(***************************************************************************)
EXTENDS SysServices, Nvm

uvars == <<svars, nvm>>

UInit == SInit /\ nvm = Idle

Service(s) == nvm.pc = "idle" /\ Call(s) /\ UNCHANGED nvm

ServiceGoes ==
  /\ Enter \/ Return \/ SDriver \/ SController
  /\ UNCHANGED nvm

\* A call of the eNVM driver, from the main loop.
NvmBegins ==
  /\ svc.main = "free"
  /\ drv.handler = "isp" => "ISP_AND_NVM" \in Hazards
  /\ \E c \in NvmCalls, device \in Devices, p \in Protections : Begin(c, device, p)

NvmStep ==
  /\ NvmBegins \/ NvmGoes
  /\ done' = Nobody
  /\ UNCHANGED <<drv, cpu, en, txq, rxq, sys, svc, chip>>

UNext == (\E s \in Services : Service(s)) \/ ServiceGoes \/ NvmStep

\* The processor and the controller go on as in SysServices.
USpec == UInit /\ [][UNext]_uvars /\ Fairness

---------------------------------------------------------------------------
(* Properties.                                                              *)

\* Between the calls of either driver, and with no ISP in the background, the eNVM
\* and the clocks have the settings of the hardware design, whichever of the two
\* saved them last and however the call ended; and the System Controller does not
\* hold eNVM-1, which NVM_write would find in use (mss_sys_services.c:1112-1143,
\* 1231-1238, mss_nvm.c:249-250).
EnvmLeftAsFound ==
  /\ nvm.pc = "idle" => RegistersRestored
  /\ EnvmReleased
  /\ DivisorsFitClock
=============================================================================
