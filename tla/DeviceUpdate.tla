----------------------------- MODULE DeviceUpdate -----------------------------
(***************************************************************************)
(* A firmware image on its way to the device: sent over the cable with     *)
(* SerialTransfer, installed with FirmwareUpdate, or streamed from the     *)
(* server.  The two share the card.  One screen is open at a time, so an   *)
(* update runs only away from the USB Transfer screen; opening the port or *)
(* losing power restarts the device whatever it does.                      *)
(***************************************************************************)
EXTENDS SerialTransfer, FirmwareUpdate

vars == <<card, torn, host, dev, toDev, toHost, faults, ops,
          part, otadata, running, fresh, fw>>

updateVars == <<part, otadata, running, fresh, fw>>

Init == TransferInit /\ FirmwareInit

OnCable == CableStep /\ UNCHANGED updateVars
OnScreen == fw.pc = "idle" /\ (DevStep \/ ScreenStep) /\ UNCHANGED updateVars

\* MaxOps bounds the updates and the tool's commands together.
Updating ==
  /\ dev.pc = "away" \/ fw.pc = "boot"
  /\ FirmwareStep
  /\ IF fw.pc = "idle" THEN ops < MaxOps /\ ops' = ops + 1 ELSE UNCHANGED ops
  /\ UNCHANGED <<torn, host, dev, toDev, toHost, faults>>

PortOpened == Open /\ PowerLost

PowerCut ==
  /\ Fault("power")
  /\ ResetDevice("away")
  /\ PowerLost
  /\ UNCHANGED <<host, toHost, ops>>

Next == OnCable \/ OnScreen \/ Updating \/ PortOpened \/ PowerCut

Fairness ==
  /\ WF_vars(HostStep /\ OnCable)
  /\ WF_vars(DevStep /\ OnScreen)
  /\ WF_vars(ConfirmImage /\ Updating)

Spec == Init /\ [][Next]_vars /\ Fairness

TypeOK == TransferTypeOK /\ FirmwareTypeOK

=============================================================================
